-------------------------- MODULE FileHandlesProofs --------------------------
(***************************************************************************)
(* What write_all, read_to_end and read_to_string promise holds for every  *)
(* number of handles, every buffer and chunk size and every device, and    *)
(* each of their calls has finitely many rounds.                           *)
(***************************************************************************)
EXTENDS FileHandles, SequenceTheorems, TLAPS

-----------------------------------------------------------------------------
(* The operators of the model. *)

\* A cell of a write_all's buffer is a cell of a file.
LEMMA CellOK ==
  ASSUME NEW h \in Handles, NEW k \in 1..WriteLen
  PROVE  Cell(h, k) \in Cells
BY DEF Cell, Cells

LEMMA LesserOK ==
  ASSUME NEW a \in Nat, NEW b \in Nat
  PROVE  Lesser(a, b) \in Nat /\ Lesser(a, b) <= a /\ Lesser(a, b) <= b
BY DEF Lesser

\* A transfer moves no more than it was asked to and than there is; it moves
\* nothing only if one of the two is 0.
LEMMA MovedOK ==
  ASSUME NEW len \in Nat, NEW available \in Nat, NEW n \in Moved(len, available)
  PROVE  n \in Nat /\ n <= len /\ n <= available /\ (n = 0 => len = 0 \/ available = 0)
BY LesserOK DEF Moved, Lesser

\* c is the contents after n cells of h's buffer, from cell first on, were put
\* at an offset: the other cells are where they were.
IsPut(c, h, at, first, n) ==
  /\ c \in Seq(Cells)
  /\ Len(c) = IF n > 0 /\ at + n > Len(content) THEN at + n ELSE Len(content)
  /\ \A k \in 1..n : c[at + k] = Cell(h, first + k - 1)
  /\ \A k \in 1..Len(content) : k \notin at + 1 .. at + n => c[k] = content[k]

LEMMA PutOK ==
  ASSUME content \in Seq(Cells), NEW h \in Handles, NEW at \in Nat, NEW n \in Nat,
         NEW first \in Nat \ {0}, first + n - 1 <= WriteLen
  PROVE  IsPut(Put(h, at, first, n), h, at, first, n)
<1> DEFINE size == IF n > 0 /\ at + n > Len(content) THEN at + n ELSE Len(content)
           e(k) == IF k \in at + 1 .. at + n THEN Cell(h, first + (k - at) - 1)
                   ELSE IF k <= Len(content) THEN content[k] ELSE <<>>
           c == [k \in 1..size |-> e(k)]
<1>1. size \in Nat
  OBVIOUS
<1>2. ASSUME NEW k \in 1..size PROVE e(k) \in Cells
  <2>1. CASE k \in at + 1 .. at + n
    <3>1. first + (k - at) - 1 \in 1..WriteLen
      BY <2>1, HandleConstants
    <3> QED
      BY <2>1, <3>1, CellOK
  <2>2. CASE k \notin at + 1 .. at + n
    <3>1. <<>> \in Cells
      BY DEF Cells
    <3> QED
      BY <1>1, <1>2, <2>2, <3>1
  <2> QED
    BY <2>1, <2>2
<1>3. c \in Seq(Cells) /\ Len(c) = size
  <2> HIDE DEF e, size
  <2> QED
    BY <1>1, <1>2
<1>4. ASSUME NEW k \in 1..n PROVE c[at + k] = Cell(h, first + k - 1)
  <2>1. at + k \in 1..size /\ at + k \in at + 1 .. at + n /\ (at + k) - at = k
    OBVIOUS
  <2> HIDE DEF size
  <2> QED
    BY <2>1
<1>5. ASSUME NEW k \in 1..Len(content), k \notin at + 1 .. at + n PROVE c[k] = content[k]
  <2>1. k \in 1..size
    OBVIOUS
  <2> HIDE DEF size
  <2> QED
    BY <1>5, <2>1
<1>6. c = Put(h, at, first, n)
  BY DEF Put
<1> HIDE DEF c
<1>7. IsPut(c, h, at, first, n)
  BY <1>3, <1>4, <1>5 DEF IsPut
<1> QED
  BY <1>6, <1>7

\* So does resizing, for the cells that stay.
LEMMA ResizedOK ==
  ASSUME content \in Seq(Cells), NEW n \in Nat
  PROVE  /\ Resized(n) \in Seq(Cells) /\ Len(Resized(n)) = n
         /\ \A k \in 1..n : k <= Len(content) => Resized(n)[k] = content[k]
<1>1. <<>> \in Cells
  BY DEF Cells
<1> QED
  BY <1>1 DEF Resized

-----------------------------------------------------------------------------
(* The effects of lwext4's calls, and the types. *)

LEMMA PlacedOK ==
  ASSUME TypeOK, NEW h \in Handles
  PROVE  /\ Len(placed[h]) \in Nat
         /\ \A k \in 1..Len(placed[h]) : placed[h][k].pos \in Nat /\ placed[h][k].idx \in Nat
<1> DEFINE P == [pos : Nat, idx : Nat]
<1>1. placed[h] \in Seq(P)
  BY DEF TypeOK
<1>2. \A r \in P : r.pos \in Nat /\ r.idx \in Nat
  OBVIOUS
<1> HIDE DEF P
<1> QED
  BY <1>1, <1>2

LEMMA WriteAtOK ==
  ASSUME TypeOK, NEW h \in Handles
  PROVE  Left(h) \in Nat /\ \A at \in WriteAt(h) : at \in Nat /\ Room(at) \in Nat
BY HandleConstants DEF WriteAt, Room, Left, TypeOK

\* What ext4_fwrite leaves in the file.
LEMMA FwriteContent ==
  ASSUME TypeOK, NEW h \in Handles, NEW n \in Nat,
         NEW first \in Nat \ {0}, first + n - 1 <= WriteLen,
         NEW at \in Nat, Fwrite(h, at, first, n)
  PROVE  IsPut(content', h, at, first, n)
<1>1. content' = Put(h, at, first, n)
  BY DEF Fwrite
<1>2. content \in Seq(Cells)
  BY DEF TypeOK
<1> QED
  BY <1>1, <1>2, PutOK

\* What it leaves in the handle and in the ghosts.
IsPlaced(h, at, first, n) ==
  /\ fpos' \in [Handles -> Nat] /\ fpos'[h] = at + n
  /\ fsize' \in [Handles -> Nat]
  /\ placed' \in [Handles -> Seq([pos : Nat, idx : Nat])]
  /\ Len(placed'[h]) = Len(placed[h]) + n
  /\ \A k \in 1..Len(placed[h]) : placed'[h][k] = placed[h][k]
  /\ \A k \in 1..n : placed'[h][Len(placed[h]) + k] = [pos |-> at + k, idx |-> first + k - 1]

LEMMA FwriteHandle ==
  ASSUME TypeOK, NEW h \in Handles, NEW n \in Nat,
         NEW first \in Nat \ {0}, first + n - 1 <= WriteLen,
         NEW at \in Nat, Fwrite(h, at, first, n)
  PROVE  IsPlaced(h, at, first, n)
<1> DEFINE P == [pos : Nat, idx : Nat]
           e(k) == [pos |-> at + k, idx |-> first + k - 1]
           new == [k \in 1..n |-> e(k)]
<1>1. Len(content') \in Nat
  BY FwriteContent DEF IsPut
<1>2. /\ fpos' \in [Handles -> Nat] /\ fpos'[h] = at + n
      /\ fsize' \in [Handles -> Nat]
  <2>1. fpos' = [fpos EXCEPT ![h] = at + n] /\ fsize' = [fsize EXCEPT ![h] = Len(content')]
    BY DEF Fwrite
  <2> QED
    BY <1>1, <2>1 DEF TypeOK
<1>3. new \in Seq(P) /\ Len(new) = n /\ placed[h] \in Seq(P)
  <2>1. \A k \in 1..n : e(k) \in P
    OBVIOUS
  <2> HIDE DEF e, P
  <2>2. new \in Seq(P) /\ Len(new) = n
    BY <2>1
  <2>3. placed[h] \in Seq(P)
    BY DEF TypeOK, P
  <2> QED
    BY <2>2, <2>3
<1>4. placed' = [placed EXCEPT ![h] = placed[h] \o new]
  BY DEF Fwrite
<1> HIDE DEF P, e
<1>5. /\ placed[h] \o new \in Seq(P)
      /\ Len(placed[h] \o new) = Len(placed[h]) + n
      /\ \A k \in 1..Len(placed[h]) : (placed[h] \o new)[k] = placed[h][k]
      /\ \A k \in 1..n : (placed[h] \o new)[Len(placed[h]) + k] = e(k)
  BY <1>3
<1>6. placed'[h] = placed[h] \o new /\ placed' \in [Handles -> Seq(P)]
  BY <1>4, <1>5 DEF TypeOK, P
<1> QED
  BY <1>2, <1>5, <1>6 DEF e, P, IsPlaced

\* What ext4_fread adds to the vector, when the handle is inside the file.
LEMMA FreadOK ==
  ASSUME TypeOK, NEW h \in Handles, NEW n \in Nat, n <= Left(h), Fread(h, n)
  PROVE  /\ vec' \in [Handles -> Seq(Cells)]
         /\ vec'[h] = vec[h] \o SubSeq(content, fpos[h] + 1, fpos[h] + n)
         /\ fpos' \in [Handles -> Nat] /\ fpos'[h] = fpos[h] + n
         /\ fsize' \in [Handles -> Nat]
<1> DEFINE s == SubSeq(content, fpos[h] + 1, fpos[h] + n)
<1>1. fpos[h] \in Nat /\ content \in Seq(Cells) /\ vec[h] \in Seq(Cells)
  BY DEF TypeOK
<1>2. s \in Seq(Cells)
  <2>1. \A i \in fpos[h] + 1 .. fpos[h] + n : i \in 1..Len(content)
    BY <1>1 DEF Left
  <2> QED
    BY <1>1, <2>1, SubSeqProperties
<1>3. vec' = [vec EXCEPT ![h] = vec[h] \o s]
  BY DEF Fread
<1> HIDE DEF s
<1>4. vec[h] \o s \in Seq(Cells)
  BY <1>1, <1>2
<1>5. vec' \in [Handles -> Seq(Cells)] /\ vec'[h] = vec[h] \o s
  BY <1>3, <1>4 DEF TypeOK
<1>6. /\ fpos' \in [Handles -> Nat] /\ fpos'[h] = fpos[h] + n
      /\ fsize' \in [Handles -> Nat]
  <2>1. /\ fpos' = [fpos EXCEPT ![h] = fpos[h] + n]
        /\ fsize' = [fsize EXCEPT ![h] = Len(content)]
    BY DEF Fread
  <2>2. fpos \in [Handles -> Nat] /\ fsize \in [Handles -> Nat]
    BY DEF TypeOK
  <2>3. PICK l \in Nat : l = Len(content)
    BY <1>1
  <2>4. PICK p \in Nat : p = fpos[h] + n
    BY <1>1
  <2>5. fpos' = [fpos EXCEPT ![h] = p] /\ fsize' = [fsize EXCEPT ![h] = l]
    BY <2>1, <2>3, <2>4
  <2>6. fpos' \in [Handles -> Nat] /\ fpos'[h] = p
    BY <2>2, <2>5
  <2>7. fsize' \in [Handles -> Nat]
    BY <2>2, <2>5
  <2> QED
    BY <2>4, <2>6, <2>7
<1> QED
  BY <1>5, <1>6 DEF s

-----------------------------------------------------------------------------
(* The inductive invariant. *)

\* What a write_all has got accepted so far is the beginning of its buffer and,
\* without APPEND, a range of the file that ends at the handle's position.
Placing(h) ==
  /\ \A k \in 1..Len(placed[h]) : placed[h][k].idx = k
  /\ h \notin appending =>
       \A k \in 1..Len(placed[h]) : placed[h][k].pos = placed[h][1].pos + k - 1
  /\ pc[h] = "write_all" =>
       /\ Len(placed[h]) = written[h]
       /\ h \notin appending /\ written[h] > 0 => fpos[h] = placed[h][1].pos + written[h] - 1
  /\ result[h] = "wrote" => Len(placed[h]) = WriteLen
  /\ pc[h] # "idle" => result[h] = "none"

\* What a read_to_end has in its vector is the file up to the position, unless
\* another handle changed the file.
Reading(h) ==
  h \notin stale =>
    /\ pc[h] = "rewind" => vec[h] = <<>>
    /\ pc[h] = "read_to_end" =>
         fpos[h] <= Len(content) /\ vec[h] = SubSeq(content, 1, fpos[h])
    /\ result[h] \in {"read", "string", "NotUtf8"} => vec[h] = content
    /\ result[h] = "string" => IsUtf8(content)
    /\ result[h] = "NotUtf8" => ~IsUtf8(content)

\* The cells it placed lie inside the file, where they were put and, while the
\* call goes on, before the handle's position, unless another handle changed the
\* file.  A write at the position or at the end then spares them all.
Standing(h) ==
  h \notin stale =>
    \A k \in 1..Len(placed[h]) :
      /\ placed[h][k].pos \in 1..Len(content)
      /\ content[placed[h][k].pos] = Cell(h, k)
      /\ pc[h] = "write_all" => placed[h][k].pos <= fpos[h]

HandlesInv ==
  /\ TypeOK
  /\ \A h \in Handles : Placing(h) /\ Standing(h) /\ Reading(h)

-----------------------------------------------------------------------------
(* What a step of one handle leaves alone. *)

\* The other handles' calls are not touched; if the contents changed, they are
\* outdated.
Foreign(h) ==
  \A v \in Handles \ {h} :
    /\ UNCHANGED <<fpos[v], pc[v], written[v], vec[v], result[v], placed[v]>>
    /\ v \in stale => v \in stale'
    /\ content' = content \/ v \in stale'

LEMMA ForeignInv ==
  ASSUME HandlesInv, UNCHANGED appending, NEW h \in Handles, Foreign(h),
         NEW v \in Handles \ {h}
  PROVE  Placing(v)' /\ Standing(v)' /\ Reading(v)'
<1>1. /\ UNCHANGED <<fpos[v], pc[v], written[v], vec[v], result[v], placed[v]>>
      /\ v \in stale => v \in stale'
      /\ content' = content \/ v \in stale'
  BY DEF Foreign
<1>2. Placing(v) /\ Standing(v) /\ Reading(v)
  BY DEF HandlesInv
<1>3. Placing(v)'
  BY <1>1, <1>2 DEF Placing
<1>4. ASSUME v \notin stale' PROVE Standing(v)' /\ Reading(v)'
  <2>1. v \notin stale /\ content' = content
    BY <1>1, <1>4
  <2>2. Standing(v)'
    BY <1>1, <1>2, <2>1 DEF Standing
  <2>3. Reading(v)'
    BY <1>1, <1>2, <2>1 DEF Reading, IsUtf8
  <2> QED
    BY <2>2, <2>3
<1>5. v \in stale' => Standing(v)' /\ Reading(v)'
  BY DEF Standing, Reading
<1> QED
  BY <1>3, <1>4, <1>5

-----------------------------------------------------------------------------
(* write_all *)

\* A call of ext4_fwrite, whole or cut short, goes on with the buffer.
Continues(h, w, n, at) ==
  /\ content' \in Seq(Cells) /\ fpos' \in [Handles -> Nat] /\ fsize' \in [Handles -> Nat]
  /\ placed' \in [Handles -> Seq([pos : Nat, idx : Nat])]
  /\ fpos'[h] = at + n
  /\ Len(placed[h]) = w /\ Len(placed'[h]) = w + n
  /\ \A k \in 1..w : placed'[h][k] = placed[h][k]
  /\ \A k \in w + 1 .. w + n : placed'[h][k].pos = at + (k - w) /\ placed'[h][k].idx = k

LEMMA FwritePlaces ==
  ASSUME HandlesInv, NEW h \in Handles, pc[h] = "write_all",
         NEW w \in Nat, w = written[h], NEW n \in Nat, w + n <= WriteLen,
         NEW first \in Nat \ {0}, first = w + 1, NEW at \in Nat, Fwrite(h, at, first, n)
  PROVE  Continues(h, w, n, at)
<1>0. TypeOK /\ WriteLen \in Nat
  BY HandleConstants DEF HandlesInv
<1>1. Len(placed[h]) = w
  BY DEF HandlesInv, Placing
<1>2. first + n - 1 <= WriteLen
  BY <1>0
<1>3. IsPut(content', h, at, first, n)
  BY <1>0, <1>2, FwriteContent
<1>4. IsPlaced(h, at, first, n)
  BY <1>0, <1>2, FwriteHandle
<1>5. ASSUME NEW k \in w + 1 .. w + n
      PROVE  placed'[h][k].pos = at + (k - w) /\ placed'[h][k].idx = k
  <2>1. PICK i \in 1..n : i = k - w
    OBVIOUS
  <2>2. placed'[h][w + i] = [pos |-> at + i, idx |-> first + i - 1]
    BY <1>1, <1>4 DEF IsPlaced
  <2>3. w + i = k /\ first + i - 1 = k
    BY <2>1
  <2> QED
    BY <2>1, <2>2, <2>3
<1> QED
  BY <1>1, <1>3, <1>4, <1>5 DEF IsPut, IsPlaced, Continues

\* Without APPEND, it continues the range.
IsRange(h, m) ==
  /\ \A k \in 1..m : placed'[h][k].pos = placed'[h][1].pos + k - 1
  /\ m > 0 => fpos'[h] = placed'[h][1].pos + m - 1

LEMMA FwriteRange ==
  ASSUME HandlesInv, NEW h \in Handles, pc[h] = "write_all", h \notin appending,
         NEW w \in Nat, w = written[h], NEW n \in Nat,
         NEW at \in Nat, at \in WriteAt(h), Continues(h, w, n, at),
         NEW m \in Nat, m = w + n
  PROVE  IsRange(h, m)
<1>1. /\ at = fpos[h] /\ Len(placed[h]) = w
      /\ \A k \in 1..w : placed[h][k].pos = placed[h][1].pos + k - 1
      /\ w > 0 => fpos[h] = placed[h][1].pos + w - 1
  BY DEF HandlesInv, Placing, WriteAt
<1>2. \A k \in 1..w : placed[h][k].pos \in Nat
  BY <1>1, PlacedOK DEF HandlesInv
<1>3. /\ fpos'[h] = at + n
      /\ \A k \in 1..w : placed'[h][k] = placed[h][k]
      /\ \A k \in w + 1 .. w + n : placed'[h][k].pos = at + (k - w)
  BY DEF Continues
<1>4. CASE w = 0
  <2>1. PICK p \in Nat : p = at + 1
    OBVIOUS
  <2>2. \A k \in 1..m : placed'[h][k].pos = p + k - 1
    BY <1>3, <1>4, <2>1
  <2>3. fpos'[h] = p + m - 1
    BY <1>3, <1>4, <2>1
  <2> QED
    BY <2>2, <2>3 DEF IsRange
<1>5. CASE w > 0
  <2>1. PICK p \in Nat : p = placed[h][1].pos
    BY <1>2, <1>5
  <2>2. placed'[h][1].pos = p
    BY <1>3, <1>5, <2>1
  <2>3. at = p + w - 1
    BY <1>1, <1>5, <2>1
  <2>4. ASSUME NEW k \in 1..m PROVE placed'[h][k].pos = p + k - 1
    <3>1. CASE k <= w
      <4>1. k \in 1..w
        BY <3>1
      <4> QED
        BY <1>1, <1>3, <2>1, <4>1
    <3>2. CASE k > w
      <4>1. k \in w + 1 .. w + n
        BY <3>2
      <4>2. placed'[h][k].pos = at + (k - w)
        BY <1>3, <4>1
      <4> QED
        BY <2>3, <4>2
    <3> QED
      BY <3>1, <3>2
  <2>5. fpos'[h] = p + m - 1
    BY <1>3, <2>3
  <2> QED
    BY <2>2, <2>4, <2>5 DEF IsRange
<1> QED
  BY <1>4, <1>5

\* At the position or at the end, it spares what this write_all placed before.
LEMMA FwriteStands ==
  ASSUME HandlesInv, NEW h \in Handles, pc[h] = "write_all",
         NEW w \in Nat, NEW n \in Nat, NEW first \in Nat \ {0}, first = w + 1,
         NEW at \in Nat, at \in WriteAt(h), IsPut(content', h, at, first, n),
         Continues(h, w, n, at), h \in stale => h \in stale'
  PROVE  Standing(h)'
<1> SUFFICES ASSUME h \notin stale, NEW k \in 1..Len(placed'[h])
             PROVE  /\ placed'[h][k].pos \in 1..Len(content')
                    /\ content'[placed'[h][k].pos] = Cell(h, k)
                    /\ placed'[h][k].pos <= fpos'[h]
  BY DEF Standing
<1>0. PICK len \in Nat, p \in Nat : len = Len(content) /\ p = fpos[h] /\ at \in {p, len}
  BY DEF HandlesInv, TypeOK, WriteAt
<1>1. /\ Len(content') = IF n > 0 /\ at + n > len THEN at + n ELSE len
      /\ \A i \in 1..n : content'[at + i] = Cell(h, first + i - 1)
      /\ \A i \in 1..len : i \notin at + 1 .. at + n => content'[i] = content[i]
  BY <1>0 DEF IsPut
<1>2. /\ Len(placed[h]) = w /\ Len(placed'[h]) = w + n /\ fpos'[h] = at + n
      /\ \A i \in 1..w : placed'[h][i] = placed[h][i]
      /\ \A i \in w + 1 .. w + n : placed'[h][i].pos = at + (i - w)
  BY DEF Continues
<1>3. CASE k <= w
  <2>1. k \in 1..w /\ placed'[h][k] = placed[h][k]
    BY <1>2, <1>3
  <2>a. /\ placed[h][k].pos \in 1..Len(content) /\ placed[h][k].pos <= fpos[h]
        /\ content[placed[h][k].pos] = Cell(h, k)
    BY <1>2, <2>1 DEF HandlesInv, Standing
  <2>2. PICK q \in 1..len : q = placed[h][k].pos /\ q <= p /\ content[q] = Cell(h, k)
    BY <1>0, <2>a
  <2>3. q <= at /\ q \notin at + 1 .. at + n
    BY <1>0, <2>2
  <2>4. content'[q] = Cell(h, k) /\ q \in 1..Len(content') /\ q <= at + n
    BY <1>1, <2>2, <2>3, SMTT(30)
  <2> QED
    BY <1>2, <2>1, <2>2, <2>4
<1>4. CASE k > w
  <2>1. k \in w + 1 .. w + n
    BY <1>2, <1>4
  <2>2. PICK i \in 1..n : i = k - w
    BY <2>1
  <2>3. placed'[h][k].pos = at + i
    BY <1>2, <2>1, <2>2
  <2>4. content'[at + i] = Cell(h, k)
    <3>1. first + i - 1 = k
      BY <2>1, <2>2
    <3> QED
      BY <1>1, <3>1
  <2>5. at + i \in 1..Len(content')
    BY <1>1
  <2> QED
    BY <1>2, <2>3, <2>4, <2>5
<1> QED
  BY <1>2, <1>3, <1>4

\* The new values of Placing and Standing, whatever the handle does next.
LEMMA FwriteInv ==
  ASSUME HandlesInv, NEW h \in Handles, pc[h] = "write_all",
         NEW w \in Nat, w = written[h], NEW n \in Nat, w + n <= WriteLen,
         NEW at \in WriteAt(h), Fwrite(h, at, w + 1, n)
  PROVE  /\ content' \in Seq(Cells) /\ fpos' \in [Handles -> Nat] /\ fsize' \in [Handles -> Nat]
         /\ placed' \in [Handles -> Seq([pos : Nat, idx : Nat])]
         /\ Standing(h)'
         /\ Len(placed'[h]) = w + n
         /\ \A k \in 1..w + n : placed'[h][k].idx = k
         /\ h \notin appending => IsRange(h, w + n)
<1>0. TypeOK /\ WriteLen \in Nat
  BY HandleConstants DEF HandlesInv
<1>1. at \in Nat
  BY <1>0, WriteAtOK
<1>2. PICK first \in Nat \ {0} : first = w + 1
  OBVIOUS
<1>3. first + n - 1 <= WriteLen /\ Fwrite(h, at, first, n)
  BY <1>0, <1>2
<1>4. IsPut(content', h, at, first, n)
  BY <1>0, <1>1, <1>3, FwriteContent
<1>5. Continues(h, w, n, at)
  BY <1>1, <1>2, <1>3, FwritePlaces
<1>6. Standing(h)'
  <2>1. h \in stale => h \in stale'
    BY <1>3 DEF Fwrite, Outdates
  <2> QED
    BY <1>1, <1>2, <1>4, <1>5, <2>1, FwriteStands
<1>7. h \notin appending => IsRange(h, w + n)
  <2>1. PICK m \in Nat : m = w + n
    OBVIOUS
  <2>2. h \notin appending => IsRange(h, m)
    BY <1>1, <1>5, <2>1, FwriteRange
  <2> QED
    BY <2>1, <2>2
<1>8. \A k \in 1..w + n : placed'[h][k].idx = k
  <2> SUFFICES ASSUME NEW k \in 1..w + n PROVE placed'[h][k].idx = k
    OBVIOUS
  <2>1. CASE k <= w
    <3>1. k \in 1..Len(placed[h]) /\ placed'[h][k] = placed[h][k]
      BY <1>5, <2>1 DEF Continues
    <3> QED
      BY <3>1 DEF HandlesInv, Placing
  <2>2. CASE k > w
    <3>1. k \in w + 1 .. w + n
      BY <2>2
    <3> QED
      BY <1>5, <3>1 DEF Continues
  <2> QED
    BY <2>1, <2>2
<1> QED
  BY <1>5, <1>6, <1>7, <1>8 DEF Continues

-----------------------------------------------------------------------------
(* The steps. *)

LEMMA HandlesInit == Init => HandlesInv
<1> SUFFICES ASSUME Init PROVE HandlesInv
  OBVIOUS
<1>1. TypeOK
  <2>1. <<>> \in Seq(Cells) /\ Len(<<>>) \in Nat /\ <<>> \in Seq([pos : Nat, idx : Nat])
    OBVIOUS
  <2>2. 0 \in 0..WriteLen
    BY HandleConstants
  <2>3. fsize \in [Handles -> Nat] /\ fpos \in [Handles -> Nat] /\ calls \in Nat
    BY <2>1 DEF Init
  <2>4. content \in Seq(Cells) /\ vec \in [Handles -> Seq(Cells)]
    BY <2>1 DEF Init
  <2>5. placed \in [Handles -> Seq([pos : Nat, idx : Nat])]
    BY <2>1 DEF Init
  <2>6. written \in [Handles -> 0..WriteLen]
    BY <2>2 DEF Init
  <2> QED
    BY <2>3, <2>4, <2>5, <2>6 DEF Init, TypeOK
<1> QED
  BY <1>1 DEF Init, HandlesInv, Placing, Standing, Reading

\* What one step of a handle has to show.
LEMMA OneHandle ==
  ASSUME HandlesInv, UNCHANGED appending, NEW h \in Handles, Foreign(h),
         TypeOK', Placing(h)', Standing(h)', Reading(h)'
  PROVE  HandlesInv'
<1>1. \A v \in Handles \ {h} : Placing(v)' /\ Standing(v)' /\ Reading(v)'
  BY ForeignInv
<1> QED
  BY <1>1 DEF HandlesInv

\* ext4_fwrite outdates what the others have read, if it changes anything.
LEMMA WriteForeign ==
  ASSUME TypeOK, NEW h \in Handles, NEW n \in Nat, NEW first \in Nat, NEW at,
         Fwrite(h, at, first, n), UNCHANGED vec,
         \A v \in Handles \ {h} : UNCHANGED <<pc[v], written[v], result[v]>>
  PROVE  Foreign(h) /\ stale' \subseteq Handles
<1>1. /\ fpos' = [fpos EXCEPT ![h] = at + n]
      /\ placed' = [placed EXCEPT ![h] =
           @ \o [k \in 1..n |-> [pos |-> at + k, idx |-> first + k - 1]]]
      /\ stale' = IF content' = content THEN stale ELSE stale \cup (Handles \ {h})
  BY DEF Fwrite, Outdates
<1>2. \A v \in Handles \ {h} : fpos'[v] = fpos[v] /\ placed'[v] = placed[v]
  BY <1>1 DEF TypeOK
<1>3. stale' \subseteq Handles /\ stale \subseteq stale'
      /\ (content' # content => Handles \ {h} \subseteq stale')
  BY <1>1 DEF TypeOK
<1> QED
  BY <1>2, <1>3 DEF Foreign

LEMMA BeginWriteAllInv ==
  ASSUME HandlesInv, UNCHANGED appending, NEW h \in Handles, BeginWriteAll(h)
  PROVE  HandlesInv'
<1>0. TypeOK
  BY DEF HandlesInv
<1>1. /\ pc' = [pc EXCEPT ![h] = "write_all"] /\ calls' = calls + 1
      /\ written' = [written EXCEPT ![h] = 0]
      /\ placed' = [placed EXCEPT ![h] = <<>>]
      /\ result' = [result EXCEPT ![h] = "none"]
      /\ stale' = stale \ {h}
      /\ UNCHANGED <<content, fpos, fsize, vec>>
  BY DEF BeginWriteAll, Begins
<1>2. TypeOK'
  BY <1>0, <1>1, HandleConstants DEF TypeOK
<1>3. Foreign(h)
  BY <1>0, <1>1 DEF Foreign, TypeOK
<1>5. /\ pc'[h] = "write_all" /\ result'[h] = "none" /\ written'[h] = 0
      /\ Len(placed'[h]) = 0
  BY <1>0, <1>1 DEF TypeOK
<1>6. Placing(h)' /\ Standing(h)' /\ Reading(h)'
  BY <1>5 DEF Placing, Standing, Reading
<1> QED
  BY <1>2, <1>3, <1>6, OneHandle

LEMMA WriteSomeInv ==
  ASSUME HandlesInv, UNCHANGED appending, NEW h \in Handles, WriteSome(h)
  PROVE  HandlesInv'
<1>0. TypeOK /\ WriteLen \in Nat
  BY HandleConstants DEF HandlesInv
<1>1. PICK w \in Nat : w = written[h] /\ w < WriteLen
  BY <1>0 DEF WriteSome, TypeOK
<1>a. PICK at \in WriteAt(h) : \E n \in Moved(WriteLen - w, Room(at)) :
        /\ Fwrite(h, at, w + 1, n)
        /\ written' = [written EXCEPT ![h] = w + n]
        /\ IF n = 0 THEN Returns(h, "WriteZero") ELSE UNCHANGED <<pc, result>>
  BY <1>1 DEF WriteSome
<1>2. PICK n \in Moved(WriteLen - w, Room(at)) :
        /\ Fwrite(h, at, w + 1, n)
        /\ written' = [written EXCEPT ![h] = w + n]
        /\ IF n = 0 THEN Returns(h, "WriteZero") ELSE UNCHANGED <<pc, result>>
  BY <1>a
<1>3. n \in Nat /\ w + n <= WriteLen
  <2>1. PICK room \in Nat : room = Room(at)
    BY <1>0, WriteAtOK
  <2>2. PICK len \in Nat : len = WriteLen - w
    BY <1>0, <1>1
  <2>3. n \in Moved(len, room)
    BY <2>1, <2>2
  <2>4. n \in Nat /\ n <= len
    BY <2>3, MovedOK
  <2> QED
    BY <1>0, <1>1, <2>2, <2>4
<1>4. pc[h] = "write_all" /\ UNCHANGED <<vec, calls>>
  BY DEF WriteSome
<1>5. /\ content' \in Seq(Cells) /\ fpos' \in [Handles -> Nat] /\ fsize' \in [Handles -> Nat]
      /\ placed' \in [Handles -> Seq([pos : Nat, idx : Nat])]
      /\ Standing(h)'
      /\ Len(placed'[h]) = w + n
      /\ \A k \in 1..w + n : placed'[h][k].idx = k
      /\ h \notin appending => IsRange(h, w + n)
  BY <1>1, <1>2, <1>3, <1>4, FwriteInv
<1>6. /\ pc' \in [Handles -> {"idle", "write_all", "rewind", "read_to_end"}]
      /\ result' \in [Handles -> {"none", "read", "string", "NotUtf8", "wrote", "Err", "WriteZero"}]
      /\ \A v \in Handles \ {h} : UNCHANGED <<pc[v], written[v], result[v]>>
      /\ \/ pc'[h] = "idle" /\ result'[h] = "WriteZero"
         \/ pc'[h] = "write_all" /\ result'[h] = "none"
  <2>1. result[h] = "none"
    BY <1>4 DEF HandlesInv, Placing
  <2>2. CASE n = 0
    <3>1. Returns(h, "WriteZero")
      BY <1>2, <2>2
    <3> QED
      BY <1>0, <1>2, <3>1 DEF TypeOK, Returns
  <2>3. CASE n # 0
    <3>1. UNCHANGED <<pc, result>>
      BY <1>2, <2>3
    <3> QED
      BY <1>0, <1>2, <1>4, <2>1, <3>1 DEF TypeOK
  <2> QED
    BY <2>2, <2>3
<1>7. w + n \in 0..WriteLen /\ written' \in [Handles -> 0..WriteLen] /\ written'[h] = w + n
  <2>1. w + n \in 0..WriteLen
    BY <1>0, <1>1, <1>3
  <2> QED
    BY <1>0, <1>2, <2>1 DEF TypeOK
<1>8. Foreign(h) /\ stale' \subseteq Handles
  <2>1. PICK first \in Nat : first = w + 1
    BY <1>1
  <2>2. Fwrite(h, at, first, n) /\ UNCHANGED vec
    BY <1>2, <1>4, <2>1
  <2> QED
    BY <1>0, <1>3, <1>6, <2>2, WriteForeign
<1>9. TypeOK'
  BY <1>0, <1>4, <1>5, <1>6, <1>7, <1>8 DEF TypeOK
<1>10. Placing(h)'
  <2>0. PICK m \in Nat : m = w + n
    BY <1>3
  <2>1. /\ Len(placed'[h]) = m /\ written'[h] = m
        /\ \A k \in 1..m : placed'[h][k].idx = k
        /\ h \notin appending => IsRange(h, m)
    BY <1>5, <1>7, <2>0
  <2> QED
    BY <1>6, <2>1 DEF Placing, IsRange
<1>11. Reading(h)'
  BY <1>6 DEF Reading
<1> QED
  BY <1>5, <1>8, <1>9, <1>10, <1>11, OneHandle

LEMMA WriteFailsInv ==
  ASSUME HandlesInv, UNCHANGED appending, NEW h \in Handles, WriteFails(h)
  PROVE  HandlesInv'
<1>0. TypeOK /\ WriteLen \in Nat
  BY HandleConstants DEF HandlesInv
<1>1. PICK w \in Nat : w = written[h] /\ w < WriteLen
  BY <1>0 DEF WriteFails, TypeOK
<1>a. PICK at \in WriteAt(h) :
        \E n \in 0..Lesser(WriteLen - w, Room(at)) : Fwrite(h, at, w + 1, n)
  BY <1>1 DEF WriteFails
<1>2. PICK n \in 0..Lesser(WriteLen - w, Room(at)) : Fwrite(h, at, w + 1, n)
  BY <1>a
<1>3. n \in Nat /\ w + n <= WriteLen
  <2>1. PICK room \in Nat : room = Room(at)
    BY <1>0, WriteAtOK
  <2>2. PICK len \in Nat : len = WriteLen - w
    BY <1>0, <1>1
  <2>3. n \in 0..Lesser(len, room)
    BY <2>1, <2>2
  <2>4. n \in Nat /\ n <= len
    BY <2>3, LesserOK
  <2> QED
    BY <1>0, <1>1, <2>2, <2>4
<1>4. /\ pc[h] = "write_all" /\ UNCHANGED <<written, vec, calls>>
      /\ Returns(h, "Err")
  BY DEF WriteFails
<1>5. /\ content' \in Seq(Cells) /\ fpos' \in [Handles -> Nat] /\ fsize' \in [Handles -> Nat]
      /\ placed' \in [Handles -> Seq([pos : Nat, idx : Nat])]
      /\ Standing(h)'
      /\ Len(placed'[h]) = w + n
      /\ \A k \in 1..w + n : placed'[h][k].idx = k
      /\ h \notin appending => IsRange(h, w + n)
  BY <1>1, <1>2, <1>3, <1>4, FwriteInv
<1>6. /\ pc' \in [Handles -> {"idle", "write_all", "rewind", "read_to_end"}]
      /\ result' \in [Handles -> {"none", "read", "string", "NotUtf8", "wrote", "Err", "WriteZero"}]
      /\ \A v \in Handles \ {h} : UNCHANGED <<pc[v], written[v], result[v]>>
      /\ pc'[h] = "idle" /\ result'[h] = "Err"
  BY <1>0, <1>4 DEF TypeOK, Returns
<1>7. Foreign(h) /\ stale' \subseteq Handles
  <2>1. PICK first \in Nat : first = w + 1
    BY <1>1
  <2>2. Fwrite(h, at, first, n) /\ UNCHANGED vec
    BY <1>2, <1>4, <2>1
  <2> QED
    BY <1>0, <1>3, <1>6, <2>2, WriteForeign
<1>8. TypeOK'
  BY <1>0, <1>4, <1>5, <1>6, <1>7 DEF TypeOK
<1>9. Placing(h)'
  <2>0. PICK m \in Nat : m = w + n
    BY <1>3
  <2>1. /\ Len(placed'[h]) = m
        /\ \A k \in 1..m : placed'[h][k].idx = k
        /\ h \notin appending => IsRange(h, m)
    BY <1>5, <2>0
  <2> QED
    BY <1>6, <2>1 DEF Placing, IsRange
<1>10. Reading(h)'
  BY <1>6 DEF Reading
<1> QED
  BY <1>5, <1>7, <1>8, <1>9, <1>10, OneHandle

LEMMA EndWriteAllInv ==
  ASSUME HandlesInv, UNCHANGED appending, NEW h \in Handles, EndWriteAll(h)
  PROVE  HandlesInv'
<1>0. TypeOK
  BY DEF HandlesInv
<1>1. /\ pc[h] = "write_all" /\ written[h] = WriteLen
      /\ pc' = [pc EXCEPT ![h] = "idle"] /\ result' = [result EXCEPT ![h] = "wrote"]
      /\ UNCHANGED <<content, fpos, fsize, written, vec, calls, placed, stale>>
  BY DEF EndWriteAll, Returns
<1>2. TypeOK'
  BY <1>0, <1>1 DEF TypeOK
<1>3. Foreign(h)
  BY <1>0, <1>1 DEF Foreign, TypeOK
<1>4. Standing(h)'
  BY <1>0, <1>1 DEF HandlesInv, TypeOK, Standing
<1>5. pc'[h] = "idle" /\ result'[h] = "wrote"
  BY <1>0, <1>1 DEF TypeOK
<1>6. Placing(h)'
  BY <1>1, <1>5 DEF HandlesInv, Placing
<1>7. Reading(h)'
  BY <1>5 DEF Reading
<1> QED
  BY <1>2, <1>3, <1>4, <1>6, <1>7, OneHandle

LEMMA BeginReadToEndInv ==
  ASSUME HandlesInv, UNCHANGED appending, NEW h \in Handles, BeginReadToEnd(h)
  PROVE  HandlesInv'
<1>0. TypeOK
  BY DEF HandlesInv
<1>1. /\ pc[h] = "idle" /\ pc' = [pc EXCEPT ![h] = "rewind"] /\ calls' = calls + 1
      /\ vec' = [vec EXCEPT ![h] = <<>>] /\ stale' = stale \ {h}
      /\ result' = [result EXCEPT ![h] = "none"]
      /\ placed' = [placed EXCEPT ![h] = <<>>]
      /\ UNCHANGED <<content, fpos, fsize, written>>
  BY DEF BeginReadToEnd, Begins
<1>2. TypeOK'
  BY <1>0, <1>1 DEF TypeOK
<1>3. Foreign(h)
  BY <1>0, <1>1 DEF Foreign, TypeOK
<1>4. Standing(h)'
  BY <1>0, <1>1 DEF HandlesInv, TypeOK, Standing
<1>5. pc'[h] = "rewind" /\ result'[h] = "none" /\ vec'[h] = <<>>
  BY <1>0, <1>1 DEF TypeOK
<1>6. Placing(h)'
  BY <1>1, <1>5 DEF HandlesInv, Placing
<1>7. Reading(h)'
  BY <1>5 DEF Reading
<1> QED
  BY <1>2, <1>3, <1>4, <1>6, <1>7, OneHandle

LEMMA RewindInv ==
  ASSUME HandlesInv, UNCHANGED appending, NEW h \in Handles, Rewind(h)
  PROVE  HandlesInv'
<1>0. TypeOK
  BY DEF HandlesInv
<1>1. /\ pc[h] = "rewind" /\ pc' = [pc EXCEPT ![h] = "read_to_end"]
      /\ fpos' = [fpos EXCEPT ![h] = 0]
      /\ UNCHANGED <<content, fsize, written, vec, result, calls, placed, stale>>
  BY DEF Rewind
<1>2. TypeOK'
  BY <1>0, <1>1 DEF TypeOK
<1>3. Foreign(h)
  BY <1>0, <1>1 DEF Foreign, TypeOK
<1>4. Standing(h)'
  BY <1>0, <1>1 DEF HandlesInv, TypeOK, Standing
<1>5. /\ pc'[h] = "read_to_end" /\ fpos'[h] = 0
      /\ result'[h] = "none" /\ result[h] = "none"
  BY <1>0, <1>1 DEF TypeOK, HandlesInv, Placing
<1>6. Placing(h)'
  BY <1>1, <1>5 DEF HandlesInv, Placing
<1>7. ASSUME h \notin stale PROVE fpos'[h] <= Len(content) /\ vec'[h] = SubSeq(content, 1, fpos'[h])
  <2>1. vec[h] = <<>> /\ Len(content) \in Nat
    BY <1>0, <1>1, <1>7 DEF HandlesInv, Reading, TypeOK
  <2>2. SubSeq(content, 1, 0) = <<>>
    BY <1>0 DEF TypeOK
  <2> QED
    BY <1>1, <1>5, <2>1, <2>2
<1>8. Reading(h)'
  BY <1>1, <1>5, <1>7 DEF Reading
<1> QED
  BY <1>2, <1>3, <1>4, <1>6, <1>8, OneHandle

\* Reading on from where the vector ends.
LEMMA PrefixGrows ==
  ASSUME content \in Seq(Cells), NEW p \in Nat, NEW n \in Nat, p + n <= Len(content)
  PROVE  SubSeq(content, 1, p) \o SubSeq(content, p + 1, p + n) = SubSeq(content, 1, p + n)
<1>1. PICK m \in 1..Len(content) + 1 : m = 1
  OBVIOUS
<1>2. PICK k \in m - 1 .. Len(content) : k = p
  BY <1>1
<1>3. PICK q \in k..Len(content) : q = p + n
  BY <1>2
<1>4. SubSeq(content, m, k) \o SubSeq(content, k + 1, q) = SubSeq(content, m, q)
  BY ConcatAdjacentSubSeq
<1> QED
  BY <1>1, <1>2, <1>3, <1>4

LEMMA ReadSomeInv ==
  ASSUME HandlesInv, UNCHANGED appending, NEW h \in Handles, ReadSome(h)
  PROVE  HandlesInv'
<1>0. TypeOK /\ content \in Seq(Cells) /\ Len(content) \in Nat
  BY DEF HandlesInv, TypeOK
<1>1. PICK left \in Nat : left = Left(h)
  BY <1>0, WriteAtOK
<1>2. PICK n \in Moved(ChunkLen, left) :
        /\ Fread(h, n)
        /\ IF n = 0 THEN \E r \in Whole(h) : Returns(h, r) ELSE UNCHANGED <<pc, result>>
  BY <1>1 DEF ReadSome
<1>3. n \in Nat /\ n <= left /\ (n = 0 => left = 0)
  BY <1>1, HandleConstants, MovedOK
<1>4. PICK p \in Nat : p = fpos[h]
  BY <1>0 DEF TypeOK
<1>5. /\ pc[h] = "read_to_end"
      /\ UNCHANGED <<content, written, calls, placed, stale>>
  BY DEF ReadSome
<1>6. result[h] = "none"
  BY <1>5 DEF HandlesInv, Placing
<1>7. /\ vec' \in [Handles -> Seq(Cells)]
      /\ vec'[h] = vec[h] \o SubSeq(content, p + 1, p + n)
      /\ fpos' \in [Handles -> Nat] /\ fpos'[h] = p + n
      /\ fsize' \in [Handles -> Nat]
  BY <1>0, <1>1, <1>2, <1>3, <1>4, FreadOK
<1>8. /\ pc' \in [Handles -> {"idle", "write_all", "rewind", "read_to_end"}]
      /\ result' \in [Handles -> {"none", "read", "string", "NotUtf8", "wrote", "Err", "WriteZero"}]
      /\ \A v \in Handles \ {h} : UNCHANGED <<pc[v], result[v]>>
      /\ \/ n = 0 /\ pc'[h] = "idle" /\ result'[h] \in Whole(h)
         \/ n > 0 /\ pc'[h] = "read_to_end" /\ result'[h] = "none"
  <2>1. CASE n = 0
    <3>1. PICK r \in Whole(h) : Returns(h, r)
      BY <1>2, <2>1
    <3> QED
      BY <1>0, <2>1, <3>1 DEF TypeOK, Returns, Whole
  <2>2. CASE n > 0
    BY <1>0, <1>2, <1>3, <1>5, <1>6, <2>2 DEF TypeOK
  <2> QED
    BY <1>3, <2>1, <2>2
<1>9. \A v \in Handles \ {h} : UNCHANGED <<fpos[v], vec[v]>>
  BY <1>0, <1>2 DEF Fread, TypeOK
<1>10. TypeOK'
  BY <1>0, <1>5, <1>7, <1>8 DEF TypeOK
<1>11. Foreign(h)
  BY <1>5, <1>8, <1>9 DEF Foreign
<1>12. Standing(h)'
  <2>1. UNCHANGED <<content, stale, placed>> /\ pc'[h] # "write_all"
    BY <1>5, <1>8
  <2> QED
    BY <2>1 DEF HandlesInv, Standing
<1>13. Placing(h)'
  BY <1>5, <1>8 DEF HandlesInv, Placing, Whole
<1>14. ASSUME h \notin stale PROVE Reading(h)'
  <2>1. p <= Len(content) /\ vec[h] = SubSeq(content, 1, p)
    BY <1>4, <1>5, <1>14 DEF HandlesInv, Reading
  <2>2. left = Len(content) - p
    BY <1>0, <1>1, <1>4, <2>1 DEF Left
  <2>3. p + n <= Len(content) /\ (n = 0 => p = Len(content))
    BY <1>0, <1>3, <2>1, <2>2
  <2>4. vec'[h] = SubSeq(content, 1, p + n)
    <3>1. SubSeq(content, 1, p) \o SubSeq(content, p + 1, p + n) = SubSeq(content, 1, p + n)
      BY <1>0, <1>3, <2>3, PrefixGrows
    <3> QED
      BY <1>7, <2>1, <3>1
  <2>5. CASE n > 0
    <3>1. fpos'[h] <= Len(content) /\ vec'[h] = SubSeq(content, 1, fpos'[h])
      BY <1>7, <2>3, <2>4
    <3>2. pc'[h] = "read_to_end" /\ result'[h] = "none" /\ content' = content
      BY <1>5, <1>8, <2>5
    <3> QED
      BY <3>1, <3>2 DEF Reading
  <2>6. CASE n = 0
    <3>1. vec'[h] = content /\ vec[h] = content
      <4>1. SubSeq(content, 1, Len(content)) = content
        BY <1>0
      <4> QED
        BY <2>1, <2>3, <2>4, <2>6, <4>1
    <3>2. result'[h] \in {"read", IF IsUtf8(content) THEN "string" ELSE "NotUtf8"}
      BY <1>8, <2>6, <3>1 DEF Whole
    <3> QED
      BY <1>5, <1>8, <2>6, <3>1, <3>2 DEF Reading
  <2> QED
    BY <1>3, <2>5, <2>6
<1>15. Reading(h)'
  BY <1>5, <1>14 DEF Reading
<1> QED
  BY <1>10, <1>11, <1>12, <1>13, <1>15, OneHandle

LEMMA ReadFailsInv ==
  ASSUME HandlesInv, UNCHANGED appending, NEW h \in Handles, ReadFails(h)
  PROVE  HandlesInv'
<1>0. TypeOK
  BY DEF HandlesInv
<1>1. /\ pc' = [pc EXCEPT ![h] = "idle"] /\ result' = [result EXCEPT ![h] = "Err"]
      /\ UNCHANGED <<content, fpos, fsize, written, vec, calls, placed, stale>>
  BY DEF ReadFails, Returns
<1>2. TypeOK'
  BY <1>0, <1>1 DEF TypeOK
<1>3. Foreign(h)
  BY <1>0, <1>1 DEF Foreign, TypeOK
<1>4. Standing(h)'
  BY <1>0, <1>1 DEF HandlesInv, TypeOK, Standing
<1>5. pc'[h] = "idle" /\ result'[h] = "Err"
  BY <1>0, <1>1 DEF TypeOK
<1>6. Placing(h)' /\ Reading(h)'
  BY <1>1, <1>5 DEF HandlesInv, Placing, Reading
<1> QED
  BY <1>2, <1>3, <1>4, <1>6, OneHandle

LEMMA SeekInv ==
  ASSUME HandlesInv, UNCHANGED appending, NEW h \in Handles, Seek(h)
  PROVE  HandlesInv'
<1>0. TypeOK
  BY DEF HandlesInv
<1>1. /\ pc[h] = "idle" /\ pc' = [pc EXCEPT ![h] = "idle"] /\ calls' = calls + 1
      /\ result' = [result EXCEPT ![h] = "none"]
      /\ placed' = [placed EXCEPT ![h] = <<>>]
      /\ UNCHANGED <<content, fsize, written, vec, stale>>
  BY DEF Seek, Begins
<1>2. PICK p \in 0..fsize[h] : fpos' = [fpos EXCEPT ![h] = p]
  BY DEF Seek
<1>3. p \in Nat
  BY <1>0 DEF TypeOK
<1>4. TypeOK'
  BY <1>0, <1>1, <1>2, <1>3 DEF TypeOK
<1>5. Foreign(h)
  BY <1>0, <1>1, <1>2 DEF Foreign, TypeOK
<1>6. Standing(h)'
  BY <1>0, <1>1 DEF TypeOK, Standing
<1>7. pc'[h] = "idle" /\ result'[h] = "none"
  BY <1>0, <1>1 DEF TypeOK
<1>8. Placing(h)' /\ Reading(h)'
  BY <1>1, <1>7 DEF HandlesInv, Placing, Reading
<1> QED
  BY <1>4, <1>5, <1>6, <1>8, OneHandle

LEMMA TruncateInv ==
  ASSUME HandlesInv, UNCHANGED appending, NEW h \in Handles, NEW n \in Nat, Truncate(h, n)
  PROVE  HandlesInv'
<1>0. TypeOK /\ Len(content) \in Nat
  BY DEF HandlesInv, TypeOK
<1>1. /\ pc[h] = "idle" /\ pc' = [pc EXCEPT ![h] = "idle"] /\ calls' = calls + 1
      /\ result' = [result EXCEPT ![h] = "none"]
      /\ fsize' = [fsize EXCEPT ![h] = Len(content')]
      /\ fpos' \in {fpos, [fpos EXCEPT ![h] = Lesser(@, n)]}
      /\ stale' = IF content' = content THEN stale ELSE stale \cup (Handles \ {h})
      /\ placed' = [placed EXCEPT ![h] = <<>>]
      /\ UNCHANGED <<written, vec>>
  BY DEF Truncate, Begins, Outdates
<1>2. content' \in Seq(Cells) /\ Len(content') \in Nat
  BY <1>0, ResizedOK DEF Truncate, TypeOK
<1>3. fpos' \in [Handles -> Nat] /\ \A v \in Handles \ {h} : fpos'[v] = fpos[v]
  <2>1. fpos[h] \in Nat /\ fpos \in [Handles -> Nat]
    BY <1>0 DEF TypeOK
  <2>2. Lesser(fpos[h], n) \in Nat
    BY <2>1, LesserOK
  <2> QED
    BY <1>1, <2>1, <2>2
<1>4. TypeOK'
  <2>1. /\ pc' \in [Handles -> {"idle", "write_all", "rewind", "read_to_end"}]
        /\ result' \in [Handles -> {"none", "read", "string", "NotUtf8", "wrote", "Err", "WriteZero"}]
        /\ fsize' \in [Handles -> Nat] /\ calls' \in Nat
    BY <1>0, <1>1, <1>2 DEF TypeOK
  <2>2. stale' \subseteq Handles
    BY <1>0, <1>1 DEF TypeOK
  <2> QED
    BY <1>0, <1>1, <1>2, <1>3, <2>1, <2>2 DEF TypeOK
<1>5. Foreign(h)
  BY <1>0, <1>1, <1>3 DEF Foreign, TypeOK
<1>6. Standing(h)'
  BY <1>0, <1>1 DEF TypeOK, Standing
<1>7. pc'[h] = "idle" /\ result'[h] = "none"
  BY <1>0, <1>1 DEF TypeOK
<1>8. Placing(h)' /\ Reading(h)'
  BY <1>1, <1>7 DEF HandlesInv, Placing, Reading
<1> QED
  BY <1>4, <1>5, <1>6, <1>8, OneHandle

LEMMA HandlesStep == HandlesInv /\ [Next]_vars => HandlesInv'
<1> SUFFICES ASSUME HandlesInv, [Next]_vars PROVE HandlesInv'
  OBVIOUS
<1>1. ASSUME UNCHANGED appending, NEW h \in Handles, BeginWriteAll(h) PROVE HandlesInv'
  BY <1>1, BeginWriteAllInv
<1>2. ASSUME UNCHANGED appending, NEW h \in Handles, BeginReadToEnd(h) PROVE HandlesInv'
  BY <1>2, BeginReadToEndInv
<1>3. ASSUME UNCHANGED appending, NEW h \in Handles, Seek(h) PROVE HandlesInv'
  BY <1>3, SeekInv
<1>4. ASSUME UNCHANGED appending, NEW h \in Handles, NEW n \in 0..MaxSize, Truncate(h, n)
      PROVE  HandlesInv'
  BY <1>4, TruncateInv, HandleConstants
<1>5. ASSUME UNCHANGED appending, NEW h \in Handles, Loop(h) PROVE HandlesInv'
  BY <1>5, WriteSomeInv, EndWriteAllInv, RewindInv, ReadSomeInv DEF Loop
<1>6. ASSUME UNCHANGED appending, NEW h \in Handles, WriteFails(h) PROVE HandlesInv'
  BY <1>6, WriteFailsInv
<1>7. ASSUME UNCHANGED appending, NEW h \in Handles, ReadFails(h) PROVE HandlesInv'
  BY <1>7, ReadFailsInv
<1>8. CASE UNCHANGED vars
  <2>1. /\ content' = content /\ UNCHANGED appending
        /\ UNCHANGED <<fpos, fsize, pc, written, vec, result, calls, placed, stale>>
    BY <1>8 DEF vars
  <2> QED
    BY <2>1 DEF HandlesInv, TypeOK, Placing, Standing, Reading, IsUtf8
<1> QED
  BY <1>1, <1>2, <1>3, <1>4, <1>5, <1>6, <1>7, <1>8 DEF Next

LEMMA HandlesInvariance == Spec => []HandlesInv
BY HandlesInit, HandlesStep, PTL DEF Spec

-----------------------------------------------------------------------------
(* What follows from it. *)

\* The variables keep their types, whatever the loops of the handles do to the
\* file and to each other.
THEOREM HandlesTyped == Spec => []TypeOK
<1>1. HandlesInv => TypeOK
  BY DEF HandlesInv
<1> QED
  BY <1>1, HandlesInvariance, PTL

\* However short lwext4's writes are and however other handles interleave, a
\* write_all that returned Ok has put each cell of its buffer into the file once
\* and in order: "written" and the handle's position advance together.
THEOREM WriteAllIsWhole == Spec => []WriteAllWhole
<1>1. HandlesInv => WriteAllWhole
  BY DEF HandlesInv, Placing, WriteAllWhole
<1> QED
  BY <1>1, HandlesInvariance, PTL

\* The position goes on behind each accepted part, and a write starts there or
\* at the end of the file: what a write_all got accepted, its later rounds leave
\* alone, also when one of them fails.
THEOREM AcceptedIsKept == Spec => []AcceptedStays
<1>1. HandlesInv => AcceptedStays
  BY DEF HandlesInv, Standing, AcceptedStays
<1> QED
  BY <1>1, HandlesInvariance, PTL

\* The loop of read_to_end stops at the end of the file and not before, so what
\* it returns is the file, and read_to_string decides about all of it.
THEOREM ReadToEndIsWhole == Spec => []ReadToEndWhole
<1>1. HandlesInv => ReadToEndWhole
  BY DEF HandlesInv, Reading, ReadToEndWhole
<1> QED
  BY <1>1, HandlesInvariance, PTL

-----------------------------------------------------------------------------
(* What can be proved of LoopsEnd without fairness: the rounds that are     *)
(* left become fewer.                                                       *)

\* The rounds a loop may still make, its last one and the rewind included.
RoundsLeft(h) ==
  CASE pc[h] = "write_all" -> 1 + (WriteLen - written[h])
    [] pc[h] = "rewind" -> 2 + MaxSize
    [] pc[h] = "read_to_end" -> 1 + (MaxSize - fpos[h])
    [] OTHER -> 0

RoundsFall ==
  [][\A h \in Handles : Loop(h) =>
       /\ RoundsLeft(h)' < RoundsLeft(h)
       /\ \A v \in Handles \ {h} : RoundsLeft(v)' = RoundsLeft(v)]_vars

\* Neither the file nor a handle's idea of it goes beyond the device.
OnDevice ==
  /\ Len(content) <= MaxSize
  /\ \A h \in Handles : fpos[h] <= MaxSize /\ fsize[h] <= MaxSize

LEMMA FwriteOnDevice ==
  ASSUME TypeOK, OnDevice, NEW h \in Handles, NEW n \in Nat,
         NEW at \in WriteAt(h), n <= Room(at),
         NEW first \in Nat \ {0}, first + n - 1 <= WriteLen, Fwrite(h, at, first, n)
  PROVE  OnDevice'
<1>0. MaxSize \in Nat
  BY HandleConstants
<1>1. at \in Nat
  BY WriteAtOK
<1>2. PICK len \in Nat : len = Len(content)
  BY DEF TypeOK
<1>3. at <= MaxSize /\ len <= MaxSize
  BY <1>1, <1>2 DEF OnDevice, WriteAt, TypeOK
<1>4. at + n <= MaxSize
  BY <1>0, <1>1, <1>3 DEF Room
<1>5. PICK new \in Nat : new = Len(content') /\ new <= MaxSize
  <2>1. IsPut(content', h, at, first, n)
    BY <1>1, FwriteContent
  <2>2. Len(content') = IF n > 0 /\ at + n > len THEN at + n ELSE len
    BY <1>2, <2>1 DEF IsPut
  <2> QED
    BY <1>2, <1>3, <1>4, <2>2
<1>6. fpos' = [fpos EXCEPT ![h] = at + n] /\ fsize' = [fsize EXCEPT ![h] = new]
  BY <1>1, <1>5 DEF Fwrite
<1>7. \A v \in Handles : fpos'[v] <= MaxSize /\ fsize'[v] <= MaxSize
  BY <1>4, <1>5, <1>6 DEF OnDevice, TypeOK
<1> QED
  BY <1>5, <1>7 DEF OnDevice

LEMMA FreadOnDevice ==
  ASSUME TypeOK, OnDevice, NEW h \in Handles, NEW n \in Nat, n <= Left(h), Fread(h, n),
         UNCHANGED content
  PROVE  OnDevice' /\ fpos'[h] = fpos[h] + n /\ \A v \in Handles \ {h} : fpos'[v] = fpos[v]
<1>1. MaxSize \in Nat /\ fpos \in [Handles -> Nat] /\ fsize \in [Handles -> Nat]
  BY HandleConstants DEF TypeOK
<1>2. PICK len \in Nat : len = Len(content) /\ len <= MaxSize
  BY DEF TypeOK, OnDevice
<1>3. PICK p \in Nat : p = fpos[h] + n /\ p <= MaxSize
  BY <1>1, <1>2 DEF OnDevice, Left
<1>4. fpos' = [fpos EXCEPT ![h] = p] /\ fsize' = [fsize EXCEPT ![h] = len]
  BY <1>2, <1>3 DEF Fread
<1>5. /\ \A v \in Handles : fpos'[v] <= MaxSize /\ fsize'[v] <= MaxSize
      /\ fpos'[h] = p /\ \A v \in Handles \ {h} : fpos'[v] = fpos[v]
  BY <1>1, <1>2, <1>3, <1>4 DEF OnDevice
<1> QED
  BY <1>3, <1>5 DEF OnDevice

\* A round writes from the first cell that was not accepted yet.
LEMMA RoundOK ==
  ASSUME TypeOK, NEW h \in Handles, NEW n \in Nat, n <= WriteLen - written[h]
  PROVE  written[h] + 1 \in Nat \ {0} /\ (written[h] + 1) + n - 1 <= WriteLen
BY HandleConstants DEF TypeOK

LEMMA OnDeviceStep == TypeOK /\ OnDevice /\ [Next]_vars => OnDevice'
<1> SUFFICES ASSUME TypeOK, OnDevice, [Next]_vars PROVE OnDevice'
  OBVIOUS
<1>1. ASSUME NEW h \in Handles, WriteSome(h) PROVE OnDevice'
  <2>a. PICK at \in WriteAt(h) :
          \E n \in Moved(WriteLen - written[h], Room(at)) : Fwrite(h, at, written[h] + 1, n)
    BY <1>1 DEF WriteSome
  <2>1. PICK n \in Moved(WriteLen - written[h], Room(at)) : Fwrite(h, at, written[h] + 1, n)
    BY <2>a
  <2>2. WriteLen - written[h] \in Nat
    BY HandleConstants DEF TypeOK
  <2>3. n \in Nat /\ n <= WriteLen - written[h] /\ n <= Room(at)
    BY <2>2, WriteAtOK, MovedOK
  <2>4. written[h] + 1 \in Nat \ {0} /\ (written[h] + 1) + n - 1 <= WriteLen
    BY <2>3, RoundOK
  <2> QED
    BY <2>1, <2>3, <2>4, FwriteOnDevice
<1>2. ASSUME NEW h \in Handles, WriteFails(h) PROVE OnDevice'
  <2>a. PICK at \in WriteAt(h) :
          \E n \in 0..Lesser(WriteLen - written[h], Room(at)) : Fwrite(h, at, written[h] + 1, n)
    BY <1>2 DEF WriteFails
  <2>1. PICK n \in 0..Lesser(WriteLen - written[h], Room(at)) : Fwrite(h, at, written[h] + 1, n)
    BY <2>a
  <2>2. WriteLen - written[h] \in Nat
    BY HandleConstants DEF TypeOK
  <2>3. n \in Nat /\ n <= WriteLen - written[h] /\ n <= Room(at)
    <3>1. PICK a \in Nat, b \in Nat : a = WriteLen - written[h] /\ b = Room(at)
      BY <2>2, WriteAtOK
    <3> QED
      BY <3>1 DEF Lesser
  <2>4. written[h] + 1 \in Nat \ {0} /\ (written[h] + 1) + n - 1 <= WriteLen
    BY <2>3, RoundOK
  <2> QED
    BY <2>1, <2>3, <2>4, FwriteOnDevice
<1>3. ASSUME NEW h \in Handles, ReadSome(h) PROVE OnDevice'
  <2>1. PICK n \in Moved(ChunkLen, Left(h)) : Fread(h, n)
    BY <1>3 DEF ReadSome
  <2>2. UNCHANGED content
    BY <1>3 DEF ReadSome
  <2>3. n \in Nat /\ n <= Left(h)
    BY WriteAtOK, MovedOK, HandleConstants
  <2> QED
    BY <2>1, <2>2, <2>3, FreadOnDevice
<1>4. ASSUME NEW h \in Handles, Rewind(h) \/ Seek(h) PROVE OnDevice'
  <2>1. PICK p \in Nat : fpos' = [fpos EXCEPT ![h] = p] /\ p <= MaxSize
    <3>1. CASE Rewind(h)
      <4>1. fpos' = [fpos EXCEPT ![h] = 0] /\ 0 <= MaxSize
        BY <3>1, HandleConstants DEF Rewind
      <4> QED
        BY <4>1
    <3>2. CASE Seek(h)
      BY <3>2, HandleConstants DEF Seek, OnDevice, TypeOK
    <3> QED
      BY <1>4, <3>1, <3>2
  <2>2. UNCHANGED <<content, fsize>>
    BY <1>4 DEF Rewind, Seek
  <2> QED
    BY <2>1, <2>2 DEF OnDevice, TypeOK
<1>5. ASSUME NEW h \in Handles, NEW n \in 0..MaxSize, Truncate(h, n) PROVE OnDevice'
  <2>0. n \in Nat /\ n <= MaxSize /\ MaxSize \in Nat
    BY HandleConstants
  <2>1. PICK len \in Nat : len = Len(content') /\ len <= MaxSize
    <3>1. CASE content' = Resized(n)
      <4>1. Len(Resized(n)) = n
        BY <2>0, ResizedOK DEF TypeOK
      <4> QED
        BY <2>0, <3>1, <4>1
    <3>2. CASE content' = content
      <4>1. Len(content) \in Nat
        BY DEF TypeOK
      <4> QED
        BY <3>2, <4>1 DEF OnDevice
    <3> QED
      BY <1>5, <3>1, <3>2 DEF Truncate
  <2>2. fsize' = [fsize EXCEPT ![h] = len]
    BY <1>5, <2>1 DEF Truncate
  <2>3. PICK p \in Nat : p <= MaxSize /\ fpos' \in {fpos, [fpos EXCEPT ![h] = p]}
    <3>1. PICK q \in Nat : q = fpos[h] /\ q <= MaxSize
      BY DEF TypeOK, OnDevice
    <3>2. Lesser(fpos[h], n) \in Nat /\ Lesser(fpos[h], n) <= MaxSize
      BY <2>0, <3>1 DEF Lesser
    <3> QED
      BY <1>5, <3>2 DEF Truncate
  <2>4. \A v \in Handles : fpos'[v] <= MaxSize /\ fsize'[v] <= MaxSize
    BY <2>1, <2>2, <2>3 DEF OnDevice, TypeOK
  <2> QED
    BY <2>1, <2>4 DEF OnDevice
<1>6. ASSUME UNCHANGED <<content, fpos, fsize>> PROVE OnDevice'
  BY <1>6 DEF OnDevice
<1> QED
  BY <1>1, <1>2, <1>3, <1>4, <1>5, <1>6
     DEF Next, Loop, BeginWriteAll, BeginReadToEnd, EndWriteAll, ReadFails, vars

LEMMA RoundsFallStep ==
  ASSUME TypeOK, OnDevice, NEW h \in Handles, Loop(h)
  PROVE  /\ RoundsLeft(h)' < RoundsLeft(h)
         /\ \A v \in Handles \ {h} : RoundsLeft(v)' = RoundsLeft(v)
<1>0. /\ WriteLen \in Nat /\ MaxSize \in Nat
      /\ pc \in [Handles -> {"idle", "write_all", "rewind", "read_to_end"}]
      /\ written \in [Handles -> 0..WriteLen] /\ fpos \in [Handles -> Nat]
      /\ fpos[h] <= MaxSize
  BY HandleConstants DEF TypeOK, OnDevice
<1>1. ASSUME UNCHANGED written, \A v \in Handles \ {h} : pc'[v] = pc[v] /\ fpos'[v] = fpos[v]
      PROVE  \A v \in Handles \ {h} : RoundsLeft(v)' = RoundsLeft(v)
  BY <1>1 DEF RoundsLeft
<1>2. ASSUME pc[h] # "idle", pc'[h] = "idle"
      PROVE  RoundsLeft(h)' < RoundsLeft(h)
  <2>1. RoundsLeft(h)' = 0
    BY <1>2 DEF RoundsLeft
  <2>2. RoundsLeft(h) > 0
    BY <1>0, <1>2 DEF RoundsLeft
  <2> QED
    BY <2>1, <2>2
<1>3. CASE WriteSome(h)
  <2>a. PICK at \in WriteAt(h) : \E n \in Moved(WriteLen - written[h], Room(at)) :
          /\ Fwrite(h, at, written[h] + 1, n)
          /\ written' = [written EXCEPT ![h] = @ + n]
          /\ IF n = 0 THEN Returns(h, "WriteZero") ELSE UNCHANGED <<pc, result>>
    BY <1>3 DEF WriteSome
  <2>1. PICK n \in Moved(WriteLen - written[h], Room(at)) :
          /\ Fwrite(h, at, written[h] + 1, n)
          /\ written' = [written EXCEPT ![h] = @ + n]
          /\ IF n = 0 THEN Returns(h, "WriteZero") ELSE UNCHANGED <<pc, result>>
    BY <2>a
  <2>2. pc[h] = "write_all" /\ WriteLen - written[h] \in Nat
    BY <1>0, <1>3 DEF WriteSome
  <2>3. n \in Nat /\ n <= WriteLen - written[h]
    BY <2>2, WriteAtOK, MovedOK
  <2>4. /\ written'[h] = written[h] + n
        /\ \A v \in Handles \ {h} : /\ written'[v] = written[v] /\ pc'[v] = pc[v]
                                     /\ fpos'[v] = fpos[v]
    BY <1>0, <2>1 DEF Fwrite, Returns
  <2>5. \A v \in Handles \ {h} : RoundsLeft(v)' = RoundsLeft(v)
    BY <2>4 DEF RoundsLeft
  <2>6. CASE n = 0
    <3>1. pc'[h] = "idle"
      BY <1>0, <2>1, <2>6 DEF Returns
    <3> QED
      BY <1>2, <2>2, <2>5, <3>1
  <2>7. CASE n # 0
    <3>1. pc'[h] = "write_all"
      BY <2>1, <2>2, <2>7
    <3>2. RoundsLeft(h)' = 1 + (WriteLen - (written[h] + n))
      BY <2>4, <3>1 DEF RoundsLeft
    <3>3. RoundsLeft(h) = 1 + (WriteLen - written[h])
      BY <2>2 DEF RoundsLeft
    <3>4. written[h] \in Nat
      BY <1>0
    <3> QED
      BY <1>0, <2>3, <2>5, <2>7, <3>2, <3>3, <3>4
  <2> QED
    BY <2>6, <2>7
<1>4. CASE EndWriteAll(h)
  <2>1. /\ pc[h] # "idle" /\ pc'[h] = "idle" /\ UNCHANGED <<written, fpos>>
        /\ \A v \in Handles \ {h} : pc'[v] = pc[v]
    BY <1>0, <1>4 DEF EndWriteAll, Returns
  <2> QED
    BY <1>1, <1>2, <2>1
<1>5. CASE Rewind(h)
  <2>1. /\ pc[h] = "rewind" /\ pc'[h] = "read_to_end" /\ fpos'[h] = 0 /\ UNCHANGED written
        /\ \A v \in Handles \ {h} : pc'[v] = pc[v] /\ fpos'[v] = fpos[v]
    BY <1>0, <1>5 DEF Rewind
  <2>2. RoundsLeft(h) = 2 + MaxSize /\ RoundsLeft(h)' = 1 + (MaxSize - 0)
    BY <2>1 DEF RoundsLeft
  <2> QED
    BY <1>0, <1>1, <2>1, <2>2
<1>6. CASE ReadSome(h)
  <2>1. PICK n \in Moved(ChunkLen, Left(h)) :
          /\ Fread(h, n)
          /\ IF n = 0 THEN \E r \in Whole(h) : Returns(h, r) ELSE UNCHANGED <<pc, result>>
    BY <1>6 DEF ReadSome
  <2>2. pc[h] = "read_to_end" /\ UNCHANGED <<content, written>>
    BY <1>6 DEF ReadSome
  <2>3. n \in Nat /\ n <= Left(h)
    BY WriteAtOK, MovedOK, HandleConstants
  <2>4. /\ OnDevice' /\ fpos'[h] = fpos[h] + n
        /\ \A v \in Handles \ {h} : fpos'[v] = fpos[v]
    BY <2>1, <2>2, <2>3, FreadOnDevice
  <2>5. \A v \in Handles \ {h} : pc'[v] = pc[v]
    BY <1>0, <2>1 DEF Returns
  <2>6. \A v \in Handles \ {h} : RoundsLeft(v)' = RoundsLeft(v)
    BY <1>1, <2>2, <2>4, <2>5
  <2>7. CASE n = 0
    <3>1. pc'[h] = "idle"
      BY <1>0, <2>1, <2>7 DEF Returns
    <3> QED
      BY <1>2, <2>2, <2>6, <3>1
  <2>8. CASE n # 0
    <3>1. pc'[h] = "read_to_end"
      BY <2>1, <2>2, <2>8
    <3>2. RoundsLeft(h)' = 1 + (MaxSize - (fpos[h] + n))
      BY <2>4, <3>1 DEF RoundsLeft
    <3>3. RoundsLeft(h) = 1 + (MaxSize - fpos[h])
      BY <2>2 DEF RoundsLeft
    <3>4. fpos[h] \in Nat
      BY <1>0
    <3> QED
      BY <1>0, <2>3, <2>6, <2>8, <3>2, <3>3, <3>4
  <2> QED
    BY <2>7, <2>8
<1> QED
  BY <1>3, <1>4, <1>5, <1>6 DEF Loop

LEMMA RoundsAreLeft == TypeOK /\ OnDevice => \A h \in Handles : RoundsLeft(h) \in Nat
<1> SUFFICES ASSUME TypeOK, OnDevice, NEW h \in Handles PROVE RoundsLeft(h) \in Nat
  OBVIOUS
<1>1. /\ WriteLen - written[h] \in Nat /\ MaxSize \in Nat
      /\ MaxSize - fpos[h] \in Nat
  BY HandleConstants DEF TypeOK, OnDevice
<1> QED
  BY <1>1 DEF RoundsLeft

\* Every round of write_all and of read_to_end brings its loop nearer to its
\* end, also while other handles write to or cut the file: the first by the
\* cells it got accepted, the second by those it read of a file that never
\* outgrows the device, and a transfer of nothing ends either.
THEOREM RoundsEnd == Spec => [](\A h \in Handles : RoundsLeft(h) \in Nat) /\ RoundsFall
<1>1. Spec => [](TypeOK /\ OnDevice)
  <2>1. Init => OnDevice
    BY HandleConstants DEF Init, OnDevice
  <2> QED
    BY <2>1, OnDeviceStep, HandlesTyped, PTL DEF Spec
<1>2. TypeOK /\ OnDevice /\ [Next]_vars =>
        [\A h \in Handles : Loop(h) =>
           /\ RoundsLeft(h)' < RoundsLeft(h)
           /\ \A v \in Handles \ {h} : RoundsLeft(v)' = RoundsLeft(v)]_vars
  BY RoundsFallStep
<1> QED
  BY <1>1, <1>2, RoundsAreLeft, PTL DEF Spec, RoundsFall
=============================================================================
