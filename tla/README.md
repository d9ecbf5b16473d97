# A TLA+ verification of ext4-lwext4

The repository wraps the C library lwext4 in safe Rust: `Ext4Fs` mounts an ext4
image that lives on a `BlockDevice`, `File` and `Dir` are handles into it, and
`mkfs` makes an image. This directory models the Rust code, checks the models
with TLC and proves most of what is checked with TLAPS. Paths below are relative
to `src/`, line numbers are those of the commit beside this directory.

lwext4 itself is a git submodule that is not in the tree. It appears in every
model only as an environment, with as much freedom as the Rust code leaves it
(see "What is assumed of lwext4").

## 1. Inventory

| Component | State it keeps | Operations | What is hard about it |
|---|---|---|---|
| **Mount life cycle**: `ext4-lwext4/src/fs.rs` `mount`, `umount`, `Drop` | `DEVICE_COUNTER` (static), `read_only`, `journal_active`, names, the boxed wrapper; lwext4's process-wide tables of devices and mount points | 5 C calls to mount, 4 to tear down | `umount(self)` ends in `Drop`, so every explicit unmount tears down twice; C calls of several instances interleave over tables shared by name; each can fail, and most failures are ignored |
| **Durability**: `File::write`, `Ext4Fs::sync`, `umount`, `Drop` | lwext4's block cache, the image, the host's cache | write, sync, flush and unmount, crash | ignored flush errors, eviction at any time, `BlockDevice::flush` never called |
| **Block device bridge**: `ext4-lwext4/src/blockdev/` | the wrapper's C structs; `Mutex<File>` and the host file's cursor, or a vector | open, bread, bwrite, close, lock, unlock | lock callbacks are empty while `Ext4Fs` is `Sync`; seek and transfer are two host operations; torn writes; arithmetic on block numbers |
| **File handles**: `ext4-lwext4/src/file.rs` | `ext4_file` (position, size, flags) and the path it was opened by | read, write, seek, truncate, `write_all`, `read_to_end`, `read_to_string`, metadata | loops over short transfers, several handles on one file, cached size |
| **Path operations**: the rest of `fs.rs` | none beyond the file system | mkdir, remove, rename, link, symlink, readlink, set_*, open, metadata, exists, is_* | `mkdir` and `metadata` are several C calls on a path that others may change in between; read-only tests are written by hand in each operation |
| **Conversions**: `types.rs`, `error.rs`, `make_path`, sizes in `blockdev/` | none | flags, seek, file types, errno, block counts, paths | boundaries of integers, two error tables that must agree, mount points told apart by prefix |
| **Directory iteration**: `dir.rs` | `ext4_dir` (offset of the next entry) | open, next, rewind, loop, drop | any null is the end; the directory may change between calls |
| **mkfs and stat**: `mkfs.rs`, `stat` in `fs.rs`, `FsStats` | the options | `with_*`, mkfs, stat, sizes | options in any order over three sets of defaults, a label cut to 16 bytes, a second attempt after an error |
| **Bindings, build script, C helpers**: `ext4-lwext4-sys/` | none | none | none of their own |

Interaction: `Ext4Fs`, `File` and `Dir` call lwext4 with a path or an
`ext4_file`; lwext4 calls back into the bridge (`blockdev_open`, `_bread`,
`_bwrite`, `_close`) through the wrapper's pointer, which it holds from
`ext4_device_register` on; the bridge calls the `BlockDevice`. `File` and `Dir`
borrow the `Ext4Fs`, so none of them outlives it. All `Ext4Fs` methods but
`umount` take `&self`, and `Ext4Fs` is `Sync`: threads may share one.

What makes each part correct is what its properties say (section 4). The
hazards, each at its line and with the properties that cover it, are listed in
`PROJECT.json`.

## 2. The modules

| Module | Models | Composition |
|---|---|---|
| `Ext4Mount` | mount, umount and Drop, one action per C call, for any number of instances | implements `MountRegistry` |
| `MountRegistry` | the promise: an instance is usable from a successful mount until its owner lets go | abstract |
| `Ext4Durable` | `Ext4Mount` with the data: what is read (`view`), what the device has (`image`), what is on stable storage (`disk`) | extends `Ext4Mount`, conjoins its actions |
| `BlockBridge` | `blockdev_bread`/`_bwrite` over both devices, and over an image open for reading only, cell by cell | implements `BlockStore` |
| `BlockStore` | the promise: each callback takes effect at one moment | abstract |
| `FileHandles` | several handles on one file | |
| `Ext4Files` | path operations of several threads, `mkdir` and `metadata` split at their C calls | |
| `Ext4Dir` | a `Dir` over a directory that changes | implements `DirListing` |
| `DirListing` | the promise: what stays is returned exactly once | abstract |
| `Ext4Convert` | the conversions as functions, one input per state | |
| `Ext4Mkfs` | building options, `mkfs`, `stat` | extends `Ext4Convert` |
| `MC*` | symmetry sets and libc's error numbers for TLC | extend the module they are named for |
| `*Proofs` | theorems | extend the module they are named for |

### How states and actions correspond to the code

**Ext4Mount.** `pc[i]` is the C call the owner of instance `i` makes next. One
action is one C call with the Rust code up to the next one: `BeginMount`
(`fetch_add`, names, wrapper; fs.rs:71), `Register`, `MountDevice` and its error
branch `UnwindMount`, `Recover`, `StartJournal`; then `BeginTeardown` (with
`explicit` for umount, without for a bare drop), `StopJournal`, `FlushCache`,
`UmountOk` or `UmountErr`, `Unregister`. The teardown's actions serve umount
(fs.rs:118) and Drop (fs.rs:418) alike, which make the same four calls;
`inUmount` tells which one is running, because only umount looks at results.
When umount's body ends, with `Ok` or at a `?`, `ReturnsToDrop` sends the
instance through the teardown again, as Rust drops `self`. lwext4's tables are
sets of pairs `<<name, device>>`; a name is the number drawn from the counter.
`ext4_device_unregister` is `DeviceUnregister`, which may fail. Umount's body tests
its result and Drop then tries again; mount's error branch (fs.rs:88) and Drop
(fs.rs:427) ignore it and free the wrapper (`LastUnregister`). `unregFailed` is a
ghost: the devices that such a last, failed call left registered.

**Ext4Durable.** Contents are version numbers. `Write` replaces a block of the
view; `WriteBack` is an eviction; `Sync` and `FlushOnTeardown` are
`ext4_cache_flush` with and without a look at its result; a flush that fails may
have written any of the blocks; `ReleaseOk`/`ReleaseErr` are `ext4_umount`,
after which the cache is gone. `HostWriteBack` is the host's page cache.
`ProcessCrash` kills every instance, the counter and the tables and keeps the
image. `accepted` and `since` are ghosts: what a block may hold according to the
results of the writes, and what it may have held since the last Ok sync. The
image is used by one instance at a time (`OpenImage`), because
`FileBlockDevice` takes no lock and the program must see to it.

**BlockBridge.** A device is an array of cells, `BlockSize` to a block. A
`FileBlockDevice` callback is `Lock`, `SeekTo`, one `ReadCell` or `WriteCell`
per cell, `Finish`; `HostError` may cut it off anywhere, and the guard goes out
of scope with the return. A `MemoryBlockDevice` callback is `Check`, then the
same transfer with no lock and no cursor. `kind` is the device; one that was
opened with `open_read_only` (file.rs:96) takes no `WriteCell`. The kinds in
`Shared` are used by several threads at once, the others by one callback at a
time, as the contract of `device_mut` (mod.rs:117) demands of a
`MemoryBlockDevice`.

**FileHandles.** A handle has the `fpos` and `fsize` of its `ext4_file`.
`WriteSome` and `ReadSome` are rounds of the loops with `File::write`
and `File::read` inside; `WriteFails` and `ReadFails` are the `?`. `appending`
is chosen in the initial state. `vec` is what the call of `read_to_end` has
appended, not what the caller's vector held before. `read_to_string` is the same
loop with a decoding at its end (`Whole`), so the model tells the two calls
apart only there; cells of a handle in `Binary` are not UTF-8. `placed` and
`stale` are ghosts for the properties. `to_raw` passes O_APPEND to `ext4_fopen2`
(types.rs:133) and no other code mentions it, so a write of an appending handle
may start at the end of the file or at the handle's position (`WriteAt`).

**Ext4Files.** A flat directory `root` from names to inodes. An operation of one
C call is one action made of the read-only test (`Mutates`) and the call
(`OneCall`). `Mkdir` and `MkdirChmod` are mkdir's two calls, `BeginMetadata`,
`GetMode`, `GetOwner` (with the times, which work the same way), `GetSize` and
`LosesField` are metadata. `exists` is metadata with its result reduced to a
Boolean, `File::metadata` is metadata of the path the file was opened by. An
answer "unknown" is the false that `is_file`, `is_dir` and `exists` give for an
I/O error; the caller cannot tell it from "no" or "failed", the properties can.
The field `lost` of `meta` is a ghost: the calls whose ignored error cost this
metadata their field, "owner" or "size".

**Ext4Dir.** A directory is a row of places; `record` has what lies at each, a
removed entry included, which stays readable until its place is used again.
`next_off` is the offset in the `ext4_dir`. `SomeEntry` and `NoEntry` are
`next_entry` with an entry and with a null, whose reason ("end" or "error") the
code does not learn. `Loop` begins a `for`, during which the same calls are made
by the `Iterator`; `Add` and `Remove` are the path operations that change the
directory meanwhile. `owed` and `touched` are ghosts, and the state of the
abstract `DirListing`.

**Ext4Mkfs.** `With` is one of the `with_` calls on `options`, `asked` records
them; `Mkfs` builds `Info` and either panics on a NUL in the label, or makes a
`Superblock` of it, or fails and leaves the image as it was or `Torn`. `Stat`
reads it back. A label is a sequence of characters, one of which has two bytes.

**Ext4Convert.** Each conversion is an operator; a state holds one input, so
that one run checks all inputs. Integers have `Width` bits. A path is a sequence
of up to `MaxPath` characters; a mount's number is written in base 2, so that
numbers have one or two digits already for four mounts. `Fseek` is the set of
outcomes `ext4_fseek` may have; of an offset from the end both signs are in it,
because the code passes it as it is and lwext4 decides. A callback's I/O error
carries one of libc's numbers, 0, or none (-1).

## 3. What is assumed of lwext4

Its calls are marked external in `PROJECT.json`. The models assume only:

- tables of devices and mount points are keyed by name, and a call on an unknown
  name fails without effect;
- a call may fail whenever the Rust code tests, or fails to test, its result; a
  failed `ext4_mount` leaves nothing behind, a failed `ext4_umount` or
  `ext4_device_unregister` may or may not have released its entry;
- the block cache may write any dirty block back at any time, a successful
  `ext4_cache_flush` leaves none dirty, `ext4_umount` releases the cache with
  whatever did not get written; a data block is not touched by journal replay;
- a transfer that succeeds moves at least one cell, unless a read is at the end
  or a write finds the device full; `ext4_fread`, `ext4_fwrite`, `ext4_ftruncate`
  bring the handle's own size up to date; when O_APPEND takes effect, at the open
  or at each write, is left open;
- every path is resolved anew by each call, creation over a name is refused, a
  missing name is refused, symbolic links are not followed, and a read-only
  mount refuses creation, truncation and writing;
- `ext4_fseek` refuses a position outside `0..fsize`, and may refuse any; whether it
  adds an offset from the end to the size or subtracts it is left open; `ext4_ftruncate` to a larger
  size is refused, does nothing or fills with zeros;
- a path belongs to the mount point whose name it begins with;
- a directory without a hash tree: an entry keeps its place until it is removed,
  the first is ".", `ext4_dir_entry_next` goes by the offset alone, finds the
  place of the next entry when it returns one, and leaves the offset alone when
  it fails;
- `ext4_mkfs` makes a superblock with the values of `ext4_mkfs_info` and as many
  bytes of the label as its 16-byte field has, or fails, perhaps half way.

## 4. The runs

Every run keeps deadlock checking off, because each model is of a bounded
number of calls after which it stops. A property named below that is violated by
a plausible bug in one mapped definition has that bug as a mutant beside the
definition (comment "Mutant:").

| Run | Checks | Bounds, and why they are enough |
|---|---|---|
| `Mount` | `TypeOK`, `OwnEntries`, `RegisteredAlive`, `UmountOkReleases`, `JournalKnown`, `IInv`, `ImplementsRegistry`, `CallsSettle` | two instances: every hazard is one instance's call falling between two of another's. The theorems lift the bound for the safety part |
| `MountDangling` | `MountedAlive` is violated | one instance |
| `Durable` | `SyncSurvivesCrash`, `TeardownInv`, `LifeInv`, `TeardownKeepsData` | two instances in turn (an unmount or crash and a second mount), two blocks (one written back while the other is not), two writes (an old and a new accepted version) |
| `SyncNotDurable`, `UmountLoses` | `SyncDurable`, `UmountFlushes` are violated | one of everything |
| `Bridge` | `TypeOK`, `CursorOwned`, `ImplementsStore`, `CallbacksReturn` | all three kinds of device; two threads, which share a host file and take turns on a vector; blocks of two cells so that a transfer can be torn inside a block, a device of 5 cells so that it ends in a partial block, block ids and counts up to 2 so that requests cross the end, three calls so that a writer and a reader overlap and a third comes after |
| `MemoryRace` | `NoConcurrentAccess` is violated | two threads that do not know of that contract |
| `Handles` | `TypeOK`, `WriteAllWhole`, `AcceptedStays`, `ReadToEndWhole`, `LoopsEnd` | two handles, each appending or not, buffers of two cells (so one can be short), a device of three (so two buffers do not fit), four operations from an empty file; what one of the handles writes is not UTF-8 |
| `Files` | `FilesInv`, `MkdirMade`, `MetadataTrue`, `AnswersTrue`, `ReadOnlyUntouched` | two threads, two names, two inodes, four operations: one in several calls, and another thread's remove, create and rename in between |
| `HandleMetadata` | `FileMetadataOfFile` is violated | one thread that never meets an I/O error |
| `Convert` | `FlagsKept`, `SeekExact`, `TypesAgree`, `ErrorsAgree`, `BlocksInside`, `PathsOwn`, `FormatAsAsked`, `LabelComesBack`, `SizesAddUp` | all inputs at 5 bits, where the upper half of u64 turns negative just as it does at 64; block sizes 0, 1, 2, 3, 4, 8 include one that is no power of two; four mounts, one of whose names begins with another's digits, and paths of three characters, slashes, digits and NUL among them; two options on top of each set of defaults, so that one can be set twice, and two attempts to format; labels that are shorter and longer than a field of two bytes, fill it, are cut in a character, or hold a NUL |
| `Dir` | `DirInv`, `ImplementsListing`, `LoopEnds` | four places, the first of them ".", three other names, one not UTF-8; four changes, so that an entry can be removed under the offset, its place used again, and the same name come back elsewhere |

What they show, part by part:

- **Life cycle.** The second teardown never reaches another mount, since its
  names were drawn once; every exit unregisters before it frees, so that a freed
  wrapper is registered only when that last unregister failed (`RegisteredAlive`,
  and likewise `EntriesOwned` of `IInv` and `CallsSettle`); an Ok umount left
  nothing behind; a journal that runs is one teardown will stop. Seen from
  outside this is `MountRegistry`.
- **Durability.** A sync that returned Ok is kept by the image through
  evictions, failed flushes, crashes and remounts. A teardown whose flush worked
  loses nothing. The life cycle stays in order across crashes, although each sets
  the counter of names back to 0.
- **Bridge.** With the `Mutex`, overlapping callbacks on a `FileBlockDevice`
  are atomic; torn writes leave a prefix, and only with an error. No error path
  keeps the `Mutex`.
- **Handles.** `write_all` places its buffer once and in order between other
  handles' writes; what it got accepted stays where it was put until another handle
  changes the file, also when the call fails half way (`AcceptedStays`); nothing is
  promised between two appenders; `read_to_end` is whole
  when nobody interferes, and `read_to_string` takes it for text exactly when it
  is; the loops end.
- **Paths.** A read-only mount never changes, although `open` has no test of its
  own; `mkdir` and `metadata` are right when nobody interferes, and an ignored
  error costs metadata a 0 in the field of the call that failed and nothing in
  another; every yes of `is_file`,
  `is_dir` and `exists` is true, and every no that no I/O error made.
- **Conversions.** What lwext4 makes of a flag word, an offset from the start, a
  type or an errno is what was asked for. A failed callback returns 0 only for an
  I/O error that carries 0. No block lwext4 may ask for is outside the
  device. A path leads to its own mount and to no other.
- **Directories.** An iteration that meets removals, additions, errors and names
  that are not UTF-8 still returns every name that stays exactly once; a loop
  over a `Dir` ends even if its body adds entries.
- **mkfs and stat.** An Ok mkfs made what was asked for last, whatever was set
  before and whatever attempt failed; the label comes back, or its beginning does
  when it has more than 16 bytes; the sizes of `FsStats` add up within the device.

### Where code and documentation part

Five runs show a sentence of the repository violated by the code:

- `MountDangling`: fs.rs:49 says the wrapper is "kept alive for the C library";
  Drop frees it although `ext4_umount` failed and the mount point points to it.
- `SyncNotDurable`: fs.rs:411 says sync will "Flush all pending writes to disk";
  it flushes lwext4's cache into the host file and never calls
  `BlockDevice::flush`.
- `UmountLoses`: fs.rs:117 says umount "flushes all pending writes"; it drops
  the result of the flush and returns Ok.
- `MemoryRace`: mod.rs:37 and :117 promise "careful management of the wrapper"
  and "no concurrent access to the device"; the lock callbacks are empty and
  nothing else serialises the threads that share an `Ext4Fs`.
- `HandleMetadata`: file.rs:103 says "Get file metadata"; after a rename it
  fails, or describes the file that has the name now.

One more consequence of ignored errors has no run of its own. An
`ext4_device_unregister` that fails in mount's error branch (fs.rs:88) or in Drop
(fs.rs:427) leaves lwext4's registry with a pointer to a freed wrapper, as a failed
`ext4_umount` does to a mount point in `MountDangling`. The models take this step,
and `RegisteredAlive` has it as its only exception.

Smaller differences that no run is about: `MkfsOptions::label` is documented as
"max 16 characters" (mkfs.rs:21), but the field has 16 bytes and a longer label
is cut silently; mkfs takes the device by value, so a program cannot flush it
afterwards; `File::read_to_end` starts at the beginning of the file (file.rs:114)
while the method of the same name in `std::io::Read` starts at the position;
`Dir` returns "." and ".." like any other entry, its `Item` is a `Result` that is
never an error, and `next` may go on after a None; metadata fills a field with 0 when the
call for it fails (the action `LosesField`), and its `nlink` is always 1 (fs.rs:385);
`File::size` is the size this handle last saw (file.rs:83);
`SeekFrom::End` is passed on as it is (types.rs:160), from `std::io::Seek` too
(file.rs:188), which adds the offset to the size where lwext4 may subtract it; a
callback whose device returns an `io::Error` that carries the number 0 reports success
(mod.rs:146), which no device of the repository does; mount goes on after
a failed `ext4_recover` whatever the reason (fs.rs:94); and the repository's
README names `chmod`, `chown`, `stats` and `read_block`, which the code calls
`set_permissions`, `set_owner`, `stat` and `read_blocks`.

### Fairness

`FairSpec` of `Ext4Mount`, `BlockBridge`, `FileHandles` and `Ext4Dir` has weak
fairness of the steps inside a call that was begun: straight-line code whose C calls and
host calls return, with a result of either kind. Nothing obliges a program to
begin a call, so the actions that begin one are not fair. In `BlockBridge` a
thread that waits for the `Mutex` is served because at most `MaxCalls` callers
pass it; `std::sync::Mutex` promises no order. In `FileHandles` only the rounds
that succeed are fair: an error may end a loop but is never needed to. In
`Ext4Dir` it is the rounds of a `for` loop, and the changes of the directory are
not fair.

## 5. The proofs

| Module | Theorems | Inductive invariant, and why the property alone does not do |
|---|---|---|
| `Ext4MountProofs` | `TypeCorrect`, `Invariance`, `OwnEntriesSafe`, `RegisteredAliveSafe`, `UmountOkReleasesSafe`, `JournalKnownSafe`, `Refinement`, `CallsEnd` | `IInv`: ids below the counter have one owner (`DrawnOnce`), an entry carries its owner's name and a device is registered only between two program points, or after a failed last unregister (`EntriesOwned`), what mount has by its next call (`Acquired`), what the first of two teardowns leaves (`TeardownState`), where a running journal can be (`JournalState`). `OwnEntries` speaks of the mounted instance only; that nobody else's deletion by name reaches it needs the uniqueness of names. `LifeInv` asks it only of names in use (`NamesOwned`: until the instance is gone and no entry of it is left) and is inductive too |
| `Ext4DurableProofs` | `SyncSafe`, `TeardownInvariance`, `TeardownSafe`, `LifeInvariance`, `LifecycleSafe` | `DInv`: one active user of the image, what is read before the teardown is accepted, the view and what is accepted lie within `since`. The image alone does not tell what a later write-back puts there. `TeardownInv` adds that an instance is mounted from `ext4_mount` to its teardown and that the cache, while the mount point stands, and after the flush the image have what was accepted: the teardown runs twice, and its second pass must be known to find nothing left to lose. For the life cycle `IInv` does not do here: a crash restarts the counter while instances of the old process keep the numbers they drew, so `DrawnOnce` fails; `LifeInv` holds, because no instance of the dead process is in use any more |
| `BlockBridgeProofs` | `CursorSafe`, `BridgeTypes`, `BridgeRefinement`, `AccessExclusive`, `CallbacksEnd` | `CursorInv`: types of the control part, and the thread between lock and return is the holder of the `Mutex`. `BridgeTypes` adds the contents. `BridgeInv` adds what a transfer has moved (`Progress`): a read has the cells of its range as they are now, a write has put a prefix of its range over the contents it met (`before`), and, on a vector, callers exclude each other. `BlockStore` takes a callback at one moment; only this relates the cell it has reached to that moment |
| `FileHandlesProofs` | `HandlesTyped`, `WriteAllIsWhole`, `AcceptedIsKept`, `ReadToEndIsWhole`, `RoundsEnd` | `HandlesInv`: what a write_all got accepted so far is the beginning of its buffer, in a range that ends at the handle's position (`Placing`), what a read_to_end collected is the file up to that position unless another handle changed the file (`Reading`), and accepted cells are in the file where they were put, in the same case (`Standing`). The properties speak of finished calls; between rounds every other handle may step, and `Foreign` is what such a step leaves alone |
| `Ext4DirProofs` | `DirInvariance`, `DirRefinement`, `LoopTurnsEnd` | `DirInv`: what is owed lies at or behind the offset, what lies there is owed or touched, and so is a removed entry the offset still leads to. The offset says nothing of names: without this an entry that `SomeEntry` returns could be one that `DirListing` has returned before |
| `Ext4FilesProofs` | `FilesInvariance`, `ReadOnlySafe` | `FilesInv`: types, and a mkdir that waits for its second call has a path and a mode, on a writable mount. Without the last part `MkdirChmod`, which repeats no read-only test in the model, could change a read-only mount |
| `Ext4MkfsProofs` | `FlagsSafe`, `SeekSafe`, `TypesSafe`, `ErrorsSafe`, `BlocksSafe`, `PathsSafe`, `FormatSafe`, `LabelSafe`, `SizesSafe` | The conversions rest on `InputsOK` (an input stays what it is) and on facts of arithmetic and of sequences: a number below the modulus is its own remainder, whole blocks fit into what was divided, two mount points differ before either ends (`MountPointsDiffer`, so `FindsOwn`). `MkfsInv` for the making of a filesystem: each field of the options is the value asked for last (`Tracks`), an Ok mkfs wrote those options, and a stat counts blocks that the image has. `FormatAsAsked` alone does not say what the options hold before mkfs is called. `LabelInv` adds that an Ok mkfs met no NUL and that a stat has the volume name of the field made from the label asked for |
| `Ext4ResultsProofs` | `AnswersSafe`, `MkdirSafe`, `MetadataSafe` | `ResultsInv`: `FilesInv`, what is true between the calls of mkdir and metadata (`Halfway`) and what each answer promises (`Answered`), all of threads that are not in `stale`. The properties speak of finished operations only; that a finished one is right rests on what its earlier calls saw, and that it stays right on every change of the image marking the other threads (`OthersRight`) |

They hold for every set of instances, blocks, threads, handles, devices, names,
labels and inodes and every value of the bounds, widths and sizes. The assumptions are the named ones, which TLC
evaluates in the runs: `BridgeConstants`, `FilesConstants`, `DirConstants`,
`HandleConstants`, `ConvertConstants`, `ErrnoConstants`, `MkfsConstants`,
`LabelConstants`. Most say that a bound is a number. `LabelConstants` says that labels are
sequences of characters, none of which is one of the two marks that stand for half a
character. `ConvertConstants` says of `2^Width` that it is one,
because the provers know no powers, and leaves mounts the four numbers whose digits
`Digits` lists; `ErrnoConstants` says that libc numbers apart the errors it is
asked for, and has the five of `check_errno_with_path` and the callbacks' `EIO` among them. `BridgeRefinement` and
`AccessExclusive` have one hypothesis more, that no memory device is shared between
filesystems (`"memory" \notin Shared`): with one, `MemoryRace` shows that the
second fails. A file may be shared; its `Mutex` is enough.

`Refinement` maps `held` to the instances that are mounted
and reachable under both names; `IInv` makes that the mounted ones
(`HeldIsMounted`), and then each action is a step of `MountRegistry` or a
stutter. In `Ext4DurableProofs` every step but `ProcessCrash` is a step of
`Ext4Mount` (`LifecycleStep`), so the type lemma of the life cycle is reused.
`ReadOnlySafe` and `TeardownSafe` are action properties, proved from their
invariants per action; `StepsOfOne` reduces a step of `Ext4Durable` to one of the
instance that is in its teardown. `DirRefinement` maps a call of `next_entry` to
`Entry`, `End` or `Fail` of `DirListing`.

`BridgeRefinement` maps the store, during a write, to the contents before it: the
write takes effect when it returns (`Finish`, `HostError`), and a step in the middle of a transfer is a
stutter (`StoreStep`).

`LabelSafe` is the one proof by induction over data. `Bytes` and `Lossy` join one short
sequence per character (`FlattenSeq`, a recursive function), and the installed provers
cannot use the library's induction theorem, whose parameter is an operator. `LeastNumber`
takes the well-foundedness of `<` on the naturals in its form with a set (`WFMin`)
instead, and `Induction` is what follows for a set of numbers. From it come that the
lengths of the pieces have sums (`SumsExist`), so that a cell of the joined sequence is a cell of
one piece (`Flattened`); that labels with a common beginning have the same bytes there
(`PrefixAppend`); and that decoding undoes encoding up to the cut (`LabelKept`).

Four theorems are the safety half of the liveness properties: `CallsEnd`,
`CallbacksEnd`, `RoundsEnd` and `LoopTurnsEnd` each give what an instance, thread,
handle or loop has left as a natural number, and prove that every step that fairness
grants it makes that number smaller, and, for all but the loop, that it leaves the
others' as they are. `CallsEnd` says in what state an instance is when its number is 0. For a callback,
`MutexComes` adds that the thread it waits for is inside the lock and needs no lock of its
own. For a loop over a `Dir` no change of the directory raises the number.

Model-checked only: liveness itself (`CallsSettle`, `CallbacksReturn`, `LoopsEnd`,
`LoopEnds`), which needs, beside these theorems, that a step with something left is
ENABLED, which the provers cannot treat. Every other property of a passing run is the
statement of a theorem.

## 6. What is not modelled, and why

- `ext4-lwext4-sys`: declarations. Its constants are in `Ext4Convert` and
  `Ext4Mkfs`, the fields of `ext4_file` and `ext4_dir` in `FileHandles` and
  `Ext4Dir`. `build.rs` and `vendor/` have no run-time behaviour of the Rust code.
- Fields that are copied from one structure to another as they are: inode sizes
  and counters of `MkfsOptions` and `FsStats`, the inode number and type of a
  `DirEntry`, times. A damaged superblock, whose counters `used_size`
  (types.rs:254) would subtract with overflow: what lwext4 lets pass is unknown.
- The target of a symbolic link, and `readlink`'s buffer of 4096 bytes.
- The `std::io` traits, which pass calls on, and `Display` of errors.
- Custom `BlockDevice`s, short counts from them, poisoning of the `Mutex` (it
  takes a panic inside the lock, and no statement there panics).
- The contents of the journal and of metadata blocks.
- Directories with a hash tree, in which an insertion moves entries to another
  block: what the iterator does then is decided inside lwext4.

## 7. Plan

Written, in this order, so that the most important behaviour came first: life
cycle with registry and proofs; durability; bridge with its store; handles; path
operations; conversions; directory iteration with its listing and proofs;
read-only images in the bridge; mkfs and stat.

Next, to extend the model:

1. `FileHandles` over `Ext4Files`: removal and reuse of an inode under an open
   handle, once something is known of `ext4_fremove` on an open inode.
2. `FileHandles` over `Ext4Durable`: what a synced `write_all` leaves after a crash.
3. Custom devices with short counts in `BlockBridge`.
4. The three time calls of metadata as actions of their own.

Next, to prove:

1. What the abstract specifications promise in their own terms, for example that a
   read of `BlockStore` after an Ok write, with no write between them, returns what
   was written, so that `BridgeRefinement` carries it over to the callbacks.
2. That `Ext4Durable` implements `MountRegistry`, a crash as the loss of every
   instance in it at once; the invariant it takes, `LifeInv`, is proved.

## 8. Running it

`tlc -config <run>.cfg <module>` with the pairs of `PROJECT.json` (for example
`tlc -config Mount.cfg MCExt4Mount`), `tlapm <module>Proofs.tla` for the proofs.
