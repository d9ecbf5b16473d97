----------------------------- MODULE BlockBridge -----------------------------
(***************************************************************************)
(* The callbacks blockdev_bread and blockdev_bwrite (blockdev/mod.rs) over *)
(* the two devices of the repository: FileBlockDevice, whose host file has *)
(* one cursor that a Mutex guards and may be open for reading only, and    *)
(* MemoryBlockDevice, a plain vector.                                      *)
(* blockdev_lock and blockdev_unlock do nothing, so callbacks of several   *)
(* threads overlap freely; Ext4Fs is Sync and its methods take &self.      *)
(*                                                                         *)
(* The device is an array of cells, BlockSize of them to a block; the host *)
(* moves data one cell at a time and may fail between any two.  A device   *)
(* length that is no multiple of BlockSize ends in a partial block.        *)
(***************************************************************************)
EXTENDS Integers, Sequences

CONSTANTS
  Threads,     \* threads in a callback; a cell holds the thread that wrote it
  Kinds,       \* devices: "file", "readonly" (open_read_only), "memory"
  Shared,      \* the kinds of device that threads use at the same time
  BlockSize,   \* cells per block
  Size,        \* cells of the device at the start
  MaxBlock,    \* bound: largest block id asked for
  MaxCount,    \* bound: largest blk_cnt
  MaxCalls,    \* bound: callbacks in one behaviour
  None         \* no thread

ASSUME BridgeConstants ==
  /\ Kinds \subseteq {"file", "readonly", "memory"} /\ Shared \subseteq Kinds
  /\ BlockSize \in Nat \ {0} /\ Size \in Nat
  /\ MaxBlock \in Nat /\ MaxCount \in Nat /\ MaxCalls \in Nat
  /\ None \notin Threads

VARIABLES
  kind,     \* which device it is
  data,     \* the host file, or MemoryBlockDevice.data
  cursor,   \* the position of the host file
  holder,   \* the owner of FileBlockDevice.file's Mutex
  pc,       \* where each thread is: "idle", "lock", "seek", "check", "transfer"
  op,       \* the operation of each thread's last callback
  done,     \* cells moved so far
  buf,      \* cells read so far
  reply,    \* what the last callback returned, and the caller's buffer
  calls,    \* callbacks so far
  before    \* history: data when the writer in progress began

vars == <<kind, data, cursor, holder, pc, op, done, buf, reply, calls, before>>

\* blk_cnt blocks from block blk_id, as offset and length in cells.
Ops == {[write |-> w, at |-> b * BlockSize, len |-> n * BlockSize] :
          w \in BOOLEAN, b \in 0..MaxBlock, n \in 1..MaxCount}

Cells == Seq(Threads \cup {0})

TypeOK ==
  /\ kind \in Kinds
  /\ data \in Cells /\ before \in Cells
  /\ cursor \in Nat
  /\ holder \in Threads \cup {None}
  /\ pc \in [Threads -> {"idle", "lock", "seek", "check", "transfer"}]
  /\ op \in [Threads -> Ops]
  /\ done \in [Threads -> Nat]
  /\ buf \in [Threads -> Cells]
  /\ reply \in [Threads -> [ok : BOOLEAN, cells : Cells]]
  /\ calls \in Nat

Init ==
  /\ kind \in Kinds
  /\ data = [k \in 1..(IF kind = "memory" THEN Size - (Size % BlockSize) ELSE Size) |-> 0]
  /\ before = data
  /\ cursor = 0
  /\ holder = None
  /\ pc = [t \in Threads |-> "idle"]
  /\ op \in [Threads -> {o \in Ops : ~o.write /\ o.at = 0 /\ o.len = BlockSize}]
  /\ done = [t \in Threads |-> 0]
  /\ buf = [t \in Threads |-> <<>>]
  /\ reply = [t \in Threads |-> [ok |-> FALSE, cells |-> <<>>]]
  /\ calls = 0

\* A FileBlockDevice.
OnHost == kind # "memory"

Moves(t, from, to) == pc[t] = from /\ pc' = [pc EXCEPT ![t] = to]

-----------------------------------------------------------------------------
(* The callback: its start, and the match on the device's result. *)

Call(t, o) ==
  /\ calls < MaxCalls
  /\ kind \in Shared \/ \A u \in Threads : pc[u] = "idle"
  /\ Moves(t, "idle", IF OnHost THEN "lock" ELSE "check")
  /\ calls' = calls + 1
  /\ op' = [op EXCEPT ![t] = o]
  /\ done' = [done EXCEPT ![t] = 0]
  /\ buf' = [buf EXCEPT ![t] = <<>>]
  /\ UNCHANGED <<kind, data, cursor, holder, reply, before>>

\* The device returned: Ok(_) becomes 0, an error an errno; the MutexGuard of
\* a FileBlockDevice goes out of scope.
Return(t, ok) ==
  /\ pc' = [pc EXCEPT ![t] = "idle"]
  /\ reply' = [reply EXCEPT ![t] = [ok |-> ok, cells |-> IF ok THEN buf[t] ELSE <<>>]]
  /\ holder' = IF holder = t THEN None ELSE holder

-----------------------------------------------------------------------------
(* FileBlockDevice::read_blocks and write_blocks *)

\* Mutant: a read does not wait for the Mutex.
LockWritesOnly(t) ==
  /\ Moves(t, "lock", "seek")
  /\ IF op[t].write THEN holder = None /\ holder' = t ELSE UNCHANGED holder
  /\ UNCHANGED <<kind, data, cursor, op, done, buf, reply, calls, before>>

Lock(t) ==
  /\ Moves(t, "lock", "seek")
  /\ holder = None /\ holder' = t
  /\ UNCHANGED <<kind, data, cursor, op, done, buf, reply, calls, before>>

\* Mutant: block numbers are taken to start at 1.
SeekFromOne(t) ==
  /\ Moves(t, "seek", "transfer")
  /\ cursor' = op[t].at - BlockSize
  /\ before' = IF op[t].write THEN data ELSE before
  /\ UNCHANGED <<kind, data, holder, op, done, buf, reply, calls>>

\* file.seek(SeekFrom::Start(offset))
SeekTo(t) ==
  /\ Moves(t, "seek", "transfer")
  /\ cursor' = op[t].at
  /\ before' = IF op[t].write THEN data ELSE before
  /\ UNCHANGED <<kind, data, holder, op, done, buf, reply, calls>>

-----------------------------------------------------------------------------
(* MemoryBlockDevice::read_blocks and write_blocks *)

Fits(t) == op[t].at + op[t].len <= Len(data)

\* Mutant: the bound is checked on the offset alone.
CheckOffsetOnly(t) ==
  /\ pc[t] = "check"
  /\ \/ /\ op[t].at <= Len(data)
        /\ pc' = [pc EXCEPT ![t] = "transfer"]
        /\ before' = IF op[t].write THEN data ELSE before
        /\ UNCHANGED <<reply, holder>>
     \/ /\ op[t].at > Len(data)
        /\ Return(t, FALSE)
        /\ UNCHANGED before
  /\ UNCHANGED <<kind, data, cursor, op, done, buf, calls>>

\* offset + len is checked against the vector before anything is copied.
Check(t) ==
  /\ pc[t] = "check"
  /\ \/ /\ Fits(t)
        /\ pc' = [pc EXCEPT ![t] = "transfer"]
        /\ before' = IF op[t].write THEN data ELSE before
        /\ UNCHANGED <<reply, holder>>
     \/ ~Fits(t) /\ Return(t, FALSE) /\ UNCHANGED before
  /\ UNCHANGED <<kind, data, cursor, op, done, buf, calls>>

-----------------------------------------------------------------------------
(* Moving the cells: read_exact and write_all, or copy_from_slice. *)

\* The offset of the next cell to move.
Position(t) == IF OnHost THEN cursor ELSE op[t].at + done[t]

Advances(t) ==
  /\ pc[t] = "transfer" /\ done[t] < op[t].len
  /\ done' = [done EXCEPT ![t] = @ + 1]
  /\ cursor' = IF OnHost THEN cursor + 1 ELSE cursor
  /\ UNCHANGED <<kind, holder, pc, op, reply, calls, before>>

ReadCell(t) ==
  /\ Advances(t) /\ ~op[t].write
  /\ Position(t) < Len(data)
  /\ buf' = [buf EXCEPT ![t] = Append(@, data[Position(t) + 1])]
  /\ UNCHANGED data

\* A host file is extended by a write past its end; a gap reads as 0.
WriteCell(t) ==
  /\ Advances(t) /\ op[t].write /\ kind # "readonly"
  /\ data' = [k \in 1..(IF Position(t) < Len(data) THEN Len(data) ELSE Position(t) + 1) |->
                IF k = Position(t) + 1 THEN t ELSE IF k <= Len(data) THEN data[k] ELSE 0]
  /\ UNCHANGED buf

Finish(t) ==
  /\ pc[t] = "transfer" /\ done[t] = op[t].len
  /\ Return(t, TRUE)
  /\ UNCHANGED <<kind, data, cursor, op, done, buf, calls, before>>

\* Mutant: the error path keeps the Mutex locked.
HostErrorKeepsLock(t) ==
  /\ OnHost
  /\ \/ pc[t] = "seek"
     \/ pc[t] = "transfer" /\ done[t] < op[t].len
  /\ pc' = [pc EXCEPT ![t] = "idle"]
  /\ reply' = [reply EXCEPT ![t] = [ok |-> FALSE, cells |-> <<>>]]
  /\ UNCHANGED <<kind, data, cursor, holder, op, done, buf, calls, before>>

\* seek, read_exact or write_all returns an error, the end of the file met by
\* read_exact and a file open for reading only included; what was written stays.
HostError(t) ==
  /\ OnHost
  /\ \/ pc[t] = "seek"
     \/ pc[t] = "transfer" /\ done[t] < op[t].len
  /\ Return(t, FALSE)
  /\ UNCHANGED <<kind, data, cursor, op, done, buf, calls, before>>

-----------------------------------------------------------------------------
Step(t) ==
  \/ Lock(t) \/ SeekTo(t) \/ Check(t)
  \/ ReadCell(t) \/ WriteCell(t) \/ Finish(t) \/ HostError(t)

Next == \E t \in Threads : (\E o \in Ops : Call(t, o)) \/ Step(t)

Spec == Init /\ [][Next]_vars

\* The device code is straight-line between host calls that return.
FairSpec == Spec /\ \A t \in Threads : WF_vars(Step(t))

-----------------------------------------------------------------------------
(* Properties *)

Writing(t) == pc[t] = "transfer" /\ op[t].write

\* The callbacks implement BlockStore: each takes effect as a whole when it
\* returns, in spite of the shared cursor and of transfers the host cuts off.
Store ==
  INSTANCE BlockStore WITH
    store <- IF \E t \in Threads : Writing(t) THEN before ELSE data,
    call <- [t \in Threads |-> IF pc[t] = "idle" THEN reply[t] ELSE op[t]],
    mode <- kind,
    Sizes <- {Size, Size - (Size % BlockSize)}

ImplementsStore == Store!Spec

\* Between the seek and the last cell of a FileBlockDevice operation nobody
\* else moves the host file's cursor.
CursorOwned ==
  OnHost =>
    \A t \in Threads : pc[t] = "transfer" => cursor = op[t].at + done[t]

\* Every callback returns: no error path leaves the Mutex locked, and a host
\* that cuts every transfer short still lets the next caller in.
CallbacksReturn == \A t \in Threads : pc[t] # "idle" ~> pc[t] = "idle"

\* mod.rs:117: the device_mut contract, "no concurrent access to the device":
\* no thread reads or writes the device while another one is in a write.
NoConcurrentAccess ==
  \A t, u \in Threads : t # u /\ Writing(t) => pc[u] # "transfer"
=============================================================================
