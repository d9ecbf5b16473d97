------------------------------ MODULE Ext4Convert ------------------------------
(***************************************************************************)
(* The conversions between the Rust API and lwext4's C types, as functions *)
(* of their inputs: open flags, seek offsets, file types, error codes, the *)
(* sizes of devices, and paths.  A state is one input; the invariants      *)
(* compare each conversion with what the other side makes of its result.   *)
(* Machine integers keep a width, of a few bits only.                      *)
(***************************************************************************)
EXTENDS Integers, SequencesExt

CONSTANTS
  Width,        \* bits of u64, i64 and usize
  MaxDevice,    \* bound: bytes of a device
  BlockSizes,   \* block sizes in bytes, 0 perhaps among them
  MaxId,        \* bound: largest number of a mount
  MaxPath,      \* bound: characters in a path
  ErrnoOf       \* libc's names and numbers of the errors, and of one more

\* That 2^Width is a number is said for the provers, which know no powers.
ASSUME ConvertConstants ==
  /\ Width \in Nat \ {0} /\ 2^Width \in Nat
  /\ MaxDevice \in 0..(2^Width - 1) /\ BlockSizes \subseteq 0..(2^Width - 1)
  /\ MaxId \in 0..3 /\ MaxPath \in Nat

\* libc has the errors that the crate names, and numbers them apart.
ASSUME ErrnoConstants ==
  /\ {"ENOENT", "EEXIST", "ENOTDIR", "EISDIR", "ENOTEMPTY", "EIO"} \subseteq DOMAIN ErrnoOf
  /\ \A n \in DOMAIN ErrnoOf : ErrnoOf[n] \in 1..255
  /\ \A m, n \in DOMAIN ErrnoOf : ErrnoOf[m] = ErrnoOf[n] => m = n

U64 == 0..(2^Width - 1)
I64 == (-(2^(Width - 1)))..(2^(Width - 1) - 1)

VARIABLES in    \* the kind of conversion and its input

-----------------------------------------------------------------------------
(* Constants of ext4-lwext4-sys *)

O_RDONLY == 0
O_WRONLY == 1
O_RDWR == 2
O_CREAT == 64
O_EXCL == 128
O_TRUNC == 512
O_APPEND == 1024

DE == [RegularFile |-> 1, Directory |-> 2, CharDevice |-> 3, BlockDevice |-> 4,
       Fifo |-> 5, Socket |-> 6, Symlink |-> 7, Unknown |-> 0]

FileType == DOMAIN DE
Flags == {"READ", "WRITE", "CREATE", "TRUNCATE", "APPEND", "EXCLUSIVE"}

-----------------------------------------------------------------------------
(* OpenFlags::to_raw and SeekFrom::to_raw *)

\* Mutant: WRITE is tested before READ and WRITE together.
AccessWriteFirst(f) == IF "WRITE" \in f THEN O_WRONLY ELSE O_RDONLY

Access(f) ==
  IF {"READ", "WRITE"} \subseteq f THEN O_RDWR
  ELSE IF "WRITE" \in f THEN O_WRONLY ELSE O_RDONLY

Bit(f, flag, raw) == IF flag \in f THEN raw ELSE 0

FlagsToRaw(f) ==
  Access(f) + Bit(f, "CREATE", O_CREAT) + Bit(f, "TRUNCATE", O_TRUNC)
            + Bit(f, "APPEND", O_APPEND) + Bit(f, "EXCLUSIVE", O_EXCL)

\* "as i64" reinterprets the upper half of u64 as negative.
AsI64(n) == IF n \in I64 THEN n ELSE n - 2^Width

\* Mutant: a position too large for i64 is taken modulo 2^63.
SeekToRawMasked(s) ==
  [offset |-> IF s.from = "Start" THEN s.n % 2^(Width - 1) ELSE s.n, origin |-> s.from]

SeekToRaw(s) ==
  [offset |-> IF s.from = "Start" THEN AsI64(s.n) ELSE s.n, origin |-> s.from]

\* ext4_fseek: the position it may move to, or -1 when it refuses.  An End offset
\* reaches it as it was given; whether it adds or subtracts it is lwext4's own.
Fseek(raw, fpos, fsize) ==
  LET targets == CASE raw.origin = "Start" -> {raw.offset}
                   [] raw.origin = "Current" -> {fpos + raw.offset}
                   [] raw.origin = "End" -> {fsize + raw.offset, fsize - raw.offset}
  IN {-1} \cup (targets \cap 0..fsize)

-----------------------------------------------------------------------------
(* FileType: from a directory entry, to the argument of ext4_inode_exist, and
   from a mode in Ext4Fs::metadata *)

FromRaw(raw) ==
  IF \E t \in FileType : DE[t] = raw THEN CHOOSE t \in FileType : DE[t] = raw ELSE "Unknown"

ToRaw(t) == DE[t]

\* Mutant: the two kinds of device file are swapped.
OfModeDevicesSwapped(format) ==
  CASE format = 8 -> "RegularFile" [] format = 4 -> "Directory"
    [] format = 10 -> "Symlink" [] format = 2 -> "BlockDevice"
    [] format = 6 -> "CharDevice" [] format = 1 -> "Fifo"
    [] format = 12 -> "Socket" [] OTHER -> "Unknown"

\* The match on mode & 0o170000, here shifted down to its four bits.
OfMode(format) ==
  CASE format = 8 -> "RegularFile" [] format = 4 -> "Directory"
    [] format = 10 -> "Symlink" [] format = 6 -> "BlockDevice"
    [] format = 2 -> "CharDevice" [] format = 1 -> "Fifo"
    [] format = 12 -> "Socket" [] OTHER -> "Unknown"

\* ext4's own pairs of mode format and directory entry type.
Pairs == {<<8, 1>>, <<4, 2>>, <<2, 3>>, <<6, 4>>, <<1, 5>>, <<12, 6>>, <<10, 7>>}

-----------------------------------------------------------------------------
(* Errors *)

\* Error::from(errno), without the payload.
ErrorFrom(e) ==
  LET is(names) == \E n \in names \cap DOMAIN ErrnoOf : ErrnoOf[n] = e IN
  CASE e = 0 -> "panic"
    [] is({"ENOENT"}) -> "NotFound"
    [] is({"EEXIST"}) -> "AlreadyExists"
    [] is({"ENOTDIR"}) -> "NotADirectory"
    [] is({"EISDIR"}) -> "IsADirectory"
    [] is({"ENOTEMPTY"}) -> "NotEmpty"
    [] is({"EACCES", "EPERM"}) -> "PermissionDenied"
    [] is({"ENOSPC"}) -> "NoSpace"
    [] is({"EROFS"}) -> "ReadOnly"
    [] is({"EINVAL"}) -> "InvalidArgument"
    [] is({"ENXIO", "ENODEV"}) -> "DeviceNotFound"
    [] is({"ENAMETOOLONG"}) -> "NameTooLong"
    [] is({"EMFILE", "ENFILE"}) -> "TooManyOpenFiles"
    [] OTHER -> "Filesystem"

CheckErrno(e) == IF e = 0 THEN "Ok" ELSE ErrorFrom(e)

\* Mutant: "not a directory" and "is a directory" are swapped.
CheckErrnoWithPathSwapped(e) ==
  IF e = 0 THEN "Ok"
  ELSE CASE e = ErrnoOf["ENOTDIR"] -> "IsADirectory"
         [] e = ErrnoOf["EISDIR"] -> "NotADirectory"
         [] OTHER -> ErrorFrom(e)

CheckErrnoWithPath(e) ==
  IF e = 0 THEN "Ok"
  ELSE CASE e = ErrnoOf["ENOENT"] -> "NotFound"
         [] e = ErrnoOf["EEXIST"] -> "AlreadyExists"
         [] e = ErrnoOf["ENOTDIR"] -> "NotADirectory"
         [] e = ErrnoOf["EISDIR"] -> "IsADirectory"
         [] e = ErrnoOf["ENOTEMPTY"] -> "NotEmpty"
         [] OTHER -> ErrorFrom(e)

\* What a callback returns for a device's result: 0 for Ok, the number of an I/O
\* error that carries one, whatever it is (-1: it carries none), else EIO.
CallbackErrno(result) ==
  IF result.ok THEN 0 ELSE IF result.os = -1 THEN ErrnoOf["EIO"] ELSE result.os

-----------------------------------------------------------------------------
(* Sizes *)

\* Mutant: a partial last block is counted.
BlockCountRoundedUp(size, bs) == (size + bs - 1) \div bs

\* FileBlockDevice and MemoryBlockDevice: whole blocks in the device.
BlockCount(size, bs) == size \div bs

\* The constructors divide by the block size, and MemoryBlockDevice::from_vec
\* asserts whole blocks: there is a device unless they panic.
Constructed(d) == d.bs # 0 /\ (d.of = "vec" => d.size % d.bs = 0)

\* MemoryBlockDevice::new allocates whole blocks, the others have all of size.
Allocated(size, bs, kind) ==
  IF kind = "memory" THEN (BlockCount(size, bs) * bs) % 2^Width ELSE size

PartSize(size, bs) == (BlockCount(size, bs) * bs) % 2^Width
Offset(blk, bs) == (blk * bs) % 2^Width

-----------------------------------------------------------------------------
(* Paths: sequences of characters *)

\* A number's digits, here in base 2 and up to 3.
Digits ==
  [n \in 0..3 |-> CASE n = 0 -> <<"0">> [] n = 1 -> <<"1">>
                    [] n = 2 -> <<"1", "0">> [] n = 3 -> <<"1", "1">>]

\* Mutant: the name of a mount point has no slash at its end.
MountPointOpen(id) == <<"/", "mp">> \o Digits[id]

MountPoint(id) == <<"/", "mp">> \o Digits[id] \o <<"/">>

\* make_path; CString::new refuses a NUL anywhere in it.
MakePath(id, path) ==
  LET full == MountPoint(id) \o (IF path # <<>> /\ path[1] = "/" THEN Tail(path) ELSE path)
  IN IF "NUL" \in Range(full) THEN <<"NulError">> ELSE full

\* lwext4 takes the mount point whose name a path begins with.
Finds(id, full) == IsPrefix(MountPoint(id), full)

-----------------------------------------------------------------------------
Inputs ==
  [kind : {"flags"}, value : SUBSET Flags]
  \cup [kind : {"seek"}, fpos : 0..3, fsize : 0..3,
        value : [from : {"Start"}, n : U64] \cup [from : {"Current", "End"}, n : I64]]
  \cup [kind : {"type"}, value : FileType]
  \cup [kind : {"inode"}, value : Pairs]
  \cup [kind : {"errno"}, value : {0} \cup {ErrnoOf[n] : n \in DOMAIN ErrnoOf}]
  \cup [kind : {"host"},
        value : [ok : BOOLEAN, os : {-1, 0} \cup {ErrnoOf[n] : n \in DOMAIN ErrnoOf}]]
  \cup [kind : {"device"}, value : [size : 0..MaxDevice, bs : BlockSizes,
                                  of : {"file", "memory", "vec"}]]
  \cup [kind : {"path"}, id : 0..MaxId,
        value : UNION {[1..n -> {"/", "1", "a", "NUL"}] : n \in 0..MaxPath}]

Init == in \in Inputs

\* The program goes on to convert something else.
Next == \E i \in [kind : {"flags"}, value : SUBSET Flags] : in.kind # "flags" /\ in' = i

Spec == Init /\ [][Next]_in

-----------------------------------------------------------------------------
(* Properties *)

\* lwext4 reads back from the raw flags (two bits of access mode, one bit for
\* each other flag) the request that was made, for all 64 of them.
FlagsKept ==
  in.kind = "flags" =>
    LET raw == FlagsToRaw(in.value)
        has(bit) == (raw \div bit) % 2 = 1
    IN /\ "WRITE" \in in.value <=> raw % 4 \in {O_WRONLY, O_RDWR}
       /\ "READ" \in in.value => raw % 4 \in {O_RDONLY, O_RDWR}
       /\ "CREATE" \in in.value <=> has(O_CREAT)
       /\ "TRUNCATE" \in in.value <=> has(O_TRUNC)
       /\ "APPEND" \in in.value <=> has(O_APPEND)
       /\ "EXCLUSIVE" \in in.value <=> has(O_EXCL)

\* A seek from the start goes to the position asked for or is refused: one beyond
\* i64 turns negative and never lands somewhere in the file.
SeekExact ==
  in.kind = "seek" /\ in.value.from = "Start" =>
    Fseek(SeekToRaw(in.value), in.fpos, in.fsize) \subseteq {in.value.n, -1}

\* An inode has the same file type in its metadata, from the mode, and in its
\* directory entry; and is_file and is_dir ask for the type entries are read as.
TypesAgree ==
  /\ in.kind = "inode" => OfMode(in.value[1]) = FromRaw(in.value[2])
  /\ in.kind = "type" => FromRaw(ToRaw(in.value)) = in.value

\* Both error checks see the same error in the same code, neither takes one for
\* success nor panics, and a failed device callback is success for lwext4 in one
\* case only: an I/O error of a device of the program's own that carries 0.
ErrorsAgree ==
  /\ in.kind = "errno" => /\ CheckErrno(in.value) = CheckErrnoWithPath(in.value)
                          /\ CheckErrno(in.value) # "panic"
                          /\ CheckErrno(in.value) = "Ok" <=> in.value = 0
  /\ in.kind = "host" => (CallbackErrno(in.value) = 0 <=> in.value.ok \/ in.value.os = 0)

\* Every block lwext4 may ask for lies inside the device, at its own offset: no
\* product wraps and no partial block is offered, of any device that there is.
BlocksInside ==
  in.kind = "device" /\ Constructed(in.value) =>
    LET d == in.value IN
    \A blk \in U64 : blk < BlockCount(d.size, d.bs) =>
      /\ Offset(blk, d.bs) = blk * d.bs
      /\ Offset(blk, d.bs) + d.bs <= PartSize(d.size, d.bs)
      /\ Offset(blk, d.bs) + d.bs <= Allocated(d.size, d.bs, d.of)

\* Each path leads to the mount it was made for and to no other, however many
\* digits their numbers have and whatever the path begins with, and what is
\* looked up there is the whole path, which no NUL has cut short.
PathsOwn ==
  in.kind = "path" =>
    LET full == MakePath(in.id, in.value)
        rest == SubSeq(full, Len(MountPoint(in.id)) + 1, Len(full))
    IN \/ full = <<"NulError">> /\ "NUL" \in Range(in.value)
       \/ /\ \A id \in 0..MaxId : Finds(id, full) <=> id = in.id
          /\ in.value \in {rest, <<"/">> \o rest}
=============================================================================
