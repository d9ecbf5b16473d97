----------------------------- MODULE FileHandles -----------------------------
(***************************************************************************)
(* Several File handles (ext4-lwext4/src/file.rs) open on one regular file *)
(* of a writable mount.  A handle is used by one owner at a time (&mut     *)
(* self); different handles interleave between their C calls, of which     *)
(* write_all, read_to_end and read_to_string make a whole loop.            *)
(*                                                                         *)
(* A handle keeps its position and the size it last saw in its ext4_file;  *)
(* the contents belong to the file.  lwext4 is external: a transfer may be *)
(* short or fail after a part, one that succeeds moves something unless    *)
(* the file is at its end (read) or the device is full (write), and fread, *)
(* fwrite and ftruncate bring the handle's size up to date.  The code says *)
(* O_APPEND when it opens and no more, so whether lwext4 goes to the end   *)
(* then or at a write is open: each write of such a handle does either.    *)
(***************************************************************************)
EXTENDS Naturals, Sequences

CONSTANTS
  Handles,     \* handles open on the file
  Binary,      \* those whose cells are not valid UTF-8
  WriteLen,    \* cells in a buffer given to write_all
  ChunkLen,    \* cells in read_to_end's chunk (8192 bytes in the code)
  MaxSize,     \* bound: cells that fit on the device
  MaxCalls     \* bound: operations in one behaviour

ASSUME HandleConstants ==
  /\ Binary \subseteq Handles
  /\ WriteLen \in Nat /\ ChunkLen \in Nat \ {0}
  /\ MaxSize \in Nat /\ MaxCalls \in Nat

VARIABLES
  appending,  \* the handles opened with OpenFlags::APPEND
  content,    \* the cells of the file
  fpos,       \* ext4_file.fpos
  fsize,      \* ext4_file.fsize
  pc,         \* "idle", "write_all", "rewind" or "read_to_end"
  written,    \* write_all: cells accepted so far
  vec,        \* read_to_end: what it has appended to the vector
  result,     \* what the last operation returned
  calls,      \* operations so far
  placed,     \* ghost: position and buffer index of the cells the last write_all placed
  stale       \* ghost: handles with another handle's change since their loop began

vars == <<appending, content, fpos, fsize, pc, written, vec, result, calls, placed, stale>>

\* Cell k of the buffer handle h writes; <<>> fills a gap.
Cell(h, k) == <<h, k>>
Cells == {<<>>} \cup (Handles \X (1..WriteLen))

TypeOK ==
  /\ appending \subseteq Handles
  /\ content \in Seq(Cells)
  /\ fpos \in [Handles -> Nat] /\ fsize \in [Handles -> Nat]
  /\ pc \in [Handles -> {"idle", "write_all", "rewind", "read_to_end"}]
  /\ written \in [Handles -> 0..WriteLen]
  /\ vec \in [Handles -> Seq(Cells)]
  /\ result \in [Handles -> {"none", "read", "string", "NotUtf8",
                                "wrote", "Err", "WriteZero"}]
  /\ placed \in [Handles -> Seq([pos : Nat, idx : Nat])]
  /\ stale \subseteq Handles /\ calls \in Nat

\* A file just created; what it comes to hold, the handles put there.
Init ==
  /\ appending \in SUBSET Handles
  /\ content = <<>>
  /\ fpos = [h \in Handles |-> 0]
  /\ fsize = [h \in Handles |-> Len(content)]
  /\ pc = [h \in Handles |-> "idle"]
  /\ written = [h \in Handles |-> 0]
  /\ vec = [h \in Handles |-> <<>>]
  /\ result = [h \in Handles |-> "none"]
  /\ calls = 0
  /\ placed = [h \in Handles |-> <<>>]
  /\ stale = {}

-----------------------------------------------------------------------------
Begins(h, to) ==
  /\ pc[h] = "idle" /\ calls < MaxCalls
  /\ calls' = calls + 1
  /\ pc' = [pc EXCEPT ![h] = to]

Returns(h, r) ==
  /\ pc' = [pc EXCEPT ![h] = "idle"]
  /\ result' = [result EXCEPT ![h] = r]

Lesser(a, b) == IF a < b THEN a ELSE b

\* The contents after cells first..first+n-1 of h's buffer went to offset "at".
Put(h, at, first, n) ==
  [k \in 1..(IF n > 0 /\ at + n > Len(content) THEN at + n ELSE Len(content)) |->
     IF k \in at + 1 .. at + n THEN Cell(h, first + (k - at) - 1)
     ELSE IF k <= Len(content) THEN content[k] ELSE <<>>]

\* What the other handles read or wrote is outdated by a change of the contents.
Outdates(h) == stale' = IF content' = content THEN stale ELSE stale \cup (Handles \ {h})

-----------------------------------------------------------------------------
(* ext4_fwrite and ext4_fread *)

\* Where ext4_fwrite may write: at the position or, with O_APPEND, at the end.
WriteAt(h) == {fpos[h]} \cup (IF h \in appending THEN {Len(content)} ELSE {})

Room(at) == IF at < MaxSize THEN MaxSize - at ELSE 0

\* Mutant: File::write works on a copy of the ext4_file, whose position is lost.
FwriteOnCopy(h, at, first, n) ==
  /\ content' = Put(h, at, first, n)
  /\ fsize' = [fsize EXCEPT ![h] = Len(content')]
  /\ placed' = [placed EXCEPT ![h] =
       @ \o [k \in 1..n |-> [pos |-> at + k, idx |-> first + k - 1]]]
  /\ Outdates(h)
  /\ UNCHANGED fpos

\* ext4_fwrite of the buffer from index "first" put n cells at "at".
Fwrite(h, at, first, n) ==
  /\ content' = Put(h, at, first, n)
  /\ fpos' = [fpos EXCEPT ![h] = at + n]
  /\ fsize' = [fsize EXCEPT ![h] = Len(content')]
  /\ placed' = [placed EXCEPT ![h] =
       @ \o [k \in 1..n |-> [pos |-> at + k, idx |-> first + k - 1]]]
  /\ Outdates(h)

\* ext4_fread took n cells.
Fread(h, n) ==
  /\ vec' = [vec EXCEPT ![h] = @ \o SubSeq(content, fpos[h] + 1, fpos[h] + n)]
  /\ fpos' = [fpos EXCEPT ![h] = @ + n]
  /\ fsize' = [fsize EXCEPT ![h] = Len(content)]

\* The numbers of cells a call for len cells may move.
Moved(len, available) ==
  IF Lesser(len, available) = 0 THEN {0} ELSE 1..Lesser(len, available)

Left(h) == IF fpos[h] < Len(content) THEN Len(content) - fpos[h] ELSE 0

-----------------------------------------------------------------------------
(* File::write_all *)

BeginWriteAll(h) ==
  /\ Begins(h, "write_all")
  /\ written' = [written EXCEPT ![h] = 0]
  /\ placed' = [placed EXCEPT ![h] = <<>>]
  /\ stale' = stale \ {h}
  /\ result' = [result EXCEPT ![h] = "none"]
  /\ UNCHANGED <<content, fpos, fsize, vec>>

\* Mutant: each round passes the whole buffer instead of &buf[written..].
WriteSomeFromStart(h) ==
  /\ pc[h] = "write_all" /\ written[h] < WriteLen
  /\ \E at \in WriteAt(h) : \E n \in Moved(WriteLen, Room(at)) :
       /\ Fwrite(h, at, 1, n)
       /\ written' = [written EXCEPT ![h] = @ + n]
       /\ IF n = 0 THEN Returns(h, "WriteZero") ELSE UNCHANGED <<pc, result>>
  /\ UNCHANGED <<vec, calls>>

\* One round of the loop; a write of nothing ends it with WriteZero.
WriteSome(h) ==
  /\ pc[h] = "write_all" /\ written[h] < WriteLen
  /\ \E at \in WriteAt(h) : \E n \in Moved(WriteLen - written[h], Room(at)) :
       /\ Fwrite(h, at, written[h] + 1, n)
       /\ written' = [written EXCEPT ![h] = @ + n]
       /\ IF n = 0 THEN Returns(h, "WriteZero") ELSE UNCHANGED <<pc, result>>
  /\ UNCHANGED <<vec, calls>>

\* The write fails after some cells; the error leaves the loop with "?".
WriteFails(h) ==
  /\ pc[h] = "write_all" /\ written[h] < WriteLen
  /\ \E at \in WriteAt(h) : \E n \in 0..Lesser(WriteLen - written[h], Room(at)) :
       Fwrite(h, at, written[h] + 1, n)
  /\ Returns(h, "Err")
  /\ UNCHANGED <<written, vec, calls>>

EndWriteAll(h) ==
  /\ pc[h] = "write_all" /\ written[h] = WriteLen
  /\ Returns(h, "wrote")
  /\ UNCHANGED <<content, fpos, fsize, written, vec, calls, placed, stale>>

-----------------------------------------------------------------------------
(* File::read_to_end and read_to_string *)

\* String::from_utf8 accepts it; a gap of zeros is valid.
IsUtf8(v) == \A k \in DOMAIN v : v[k] # <<>> => v[k][1] \notin Binary

\* The call is one of the two; Whole tells them apart where they first differ.
BeginReadToEnd(h) ==
  /\ Begins(h, "rewind")
  /\ vec' = [vec EXCEPT ![h] = <<>>]
  /\ stale' = stale \ {h}
  /\ result' = [result EXCEPT ![h] = "none"]
  /\ placed' = [placed EXCEPT ![h] = <<>>]
  /\ UNCHANGED <<content, fpos, fsize, written>>

\* Mutant: reading starts at the current position.
RewindSkipped(h) ==
  /\ pc[h] = "rewind"
  /\ pc' = [pc EXCEPT ![h] = "read_to_end"]
  /\ UNCHANGED <<content, fpos, fsize, written, vec, result, calls, placed, stale>>

\* self.seek(SeekFrom::Start(0))?
Rewind(h) ==
  /\ pc[h] = "rewind"
  /\ pc' = [pc EXCEPT ![h] = "read_to_end"]
  /\ fpos' = [fpos EXCEPT ![h] = 0]
  /\ UNCHANGED <<content, fsize, written, vec, result, calls, placed, stale>>

\* Mutant: the loop goes on after a read of nothing.
ReadSomeNoBreak(h) ==
  /\ pc[h] = "read_to_end"
  /\ \E n \in Moved(ChunkLen, Left(h)) : Fread(h, n) /\ UNCHANGED <<pc, result>>
  /\ UNCHANGED <<content, written, calls, placed, stale>>

\* What the call returns at the end of the file: read_to_end the vector,
\* read_to_string what decoding it gives.
Whole(h) == {"read", IF IsUtf8(vec[h]) THEN "string" ELSE "NotUtf8"}

\* One round of the loop; a read of nothing ends it.
ReadSome(h) ==
  /\ pc[h] = "read_to_end"
  /\ \E n \in Moved(ChunkLen, Left(h)) :
       /\ Fread(h, n)
       /\ IF n = 0 THEN \E r \in Whole(h) : Returns(h, r) ELSE UNCHANGED <<pc, result>>
  /\ UNCHANGED <<content, written, calls, placed, stale>>

\* The seek or a read fails: the error leaves read_to_end with "?".
ReadFails(h) ==
  /\ pc[h] \in {"rewind", "read_to_end"}
  /\ Returns(h, "Err")
  /\ UNCHANGED <<content, fpos, fsize, written, vec, calls, placed, stale>>

-----------------------------------------------------------------------------
(* The operations that are one C call. *)

\* File::seek from the start, the end or the position, within the size the
\* handle knows, or refused.
Seek(h) ==
  /\ Begins(h, "idle")
  /\ fpos' \in {[fpos EXCEPT ![h] = p] : p \in 0..fsize[h]}
  /\ result' = [result EXCEPT ![h] = "none"]
  /\ placed' = [placed EXCEPT ![h] = <<>>]
  /\ UNCHANGED <<content, fsize, written, vec, stale>>

\* The contents with n cells; added ones are zero.
Resized(n) == [k \in 1..n |-> IF k <= Len(content) THEN content[k] ELSE <<>>]

\* File::truncate to n cells; an error leaves the file alone, and so may an Ok
\* when n is larger.
Truncate(h, n) ==
  /\ Begins(h, "idle")
  /\ content' \in {content, Resized(n)}
  /\ fsize' = [fsize EXCEPT ![h] = Len(content')]
  /\ fpos' \in {fpos, [fpos EXCEPT ![h] = Lesser(@, n)]}
  /\ result' = [result EXCEPT ![h] = "none"]
  /\ placed' = [placed EXCEPT ![h] = <<>>]
  /\ Outdates(h)
  /\ UNCHANGED <<written, vec>>

-----------------------------------------------------------------------------
Loop(h) == WriteSome(h) \/ EndWriteAll(h) \/ Rewind(h) \/ ReadSome(h)

Next ==
  /\ UNCHANGED appending
  /\ \E h \in Handles :
       \/ BeginWriteAll(h) \/ BeginReadToEnd(h) \/ Seek(h)
       \/ \E n \in 0..MaxSize : Truncate(h, n)
       \/ Loop(h)
       \/ WriteFails(h) \/ ReadFails(h)

Spec == Init /\ [][Next]_vars

\* C calls return, and the loops go on by themselves: a handle in a loop makes
\* its next round, unless an error ends the loop.
FairSpec == Spec /\ \A h \in Handles : WF_vars(Loop(h) /\ UNCHANGED appending)

-----------------------------------------------------------------------------
(* Properties *)

\* A write_all that returned Ok put every cell of its buffer into the file
\* once and in order, however short the single writes were and whatever other
\* handles did in between; without APPEND, to consecutive positions.
WriteAllWhole ==
  \A h \in Handles : result[h] = "wrote" =>
    /\ Len(placed[h]) = WriteLen
    /\ \A k \in 1..WriteLen : placed[h][k].idx = k
    /\ h \notin appending =>
         \A k \in 1..WriteLen : placed[h][k].pos = placed[h][1].pos + k - 1

\* What write_all got accepted over its rounds is the beginning of its buffer and
\* lies in the file where it was put, whether the call goes on, ended with Ok,
\* with WriteZero or with an error half way: no round overwrites an earlier one,
\* and only another handle or the handle's next call can take it away again.
AcceptedStays ==
  \A h \in Handles \ stale : \A k \in 1..Len(placed[h]) :
    /\ placed[h][k].pos \in 1..Len(content)
    /\ content[placed[h][k].pos] = Cell(h, k)

\* A read_to_end or read_to_string that returned Ok while no other handle
\* changed the file has the whole file, wherever the handle's position was; and
\* read_to_string takes it for text exactly when all of it is.
ReadToEndWhole ==
  \A h \in Handles \ stale :
    /\ result[h] \in {"read", "string"} => vec[h] = content
    /\ result[h] = "string" => IsUtf8(content)
    /\ result[h] = "NotUtf8" => ~IsUtf8(content)

\* The loops of write_all and read_to_end end without the help of an error,
\* also while other handles write to or cut the file and when the device is full.
LoopsEnd == \A h \in Handles : pc[h] # "idle" ~> pc[h] = "idle"
=============================================================================
