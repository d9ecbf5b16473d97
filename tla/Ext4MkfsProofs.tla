--------------------------- MODULE Ext4MkfsProofs ---------------------------
(***************************************************************************)
(* The conversions between the Rust API and lwext4's C types keep what     *)
(* they convert, for every width of the machine integers, every size of    *)
(* device and of blocks, every mount number and path, and every label;     *)
(* and a filesystem is made as it was asked for, in any number of steps.   *)
(***************************************************************************)
EXTENDS Ext4Mkfs, SequenceTheorems, FiniteSetTheorems, WellFoundedInduction, TLAPS

-----------------------------------------------------------------------------
(* Arithmetic *)

\* Reducing a number that fits changes nothing.
LEMMA ModFits == ASSUME NEW x \in Nat, NEW m \in Nat, x < m PROVE x % m = x
OBVIOUS

\* Whole blocks fit into what was divided.
LEMMA DivFits ==
  ASSUME NEW x \in Nat, NEW b \in Nat \ {0}
  PROVE  x \div b \in Nat /\ (x \div b) * b <= x
<1>1. PICK q \in Nat : q = x \div b
  OBVIOUS
<1>2. q * b <= x
  BY <1>1
<1> QED
  BY <1>1, <1>2

\* So does each of them.
LEMMA BlockFits ==
  ASSUME NEW k \in Nat, NEW q \in Nat, NEW b \in Nat \ {0}, k < q
  PROVE  k * b \in Nat /\ k * b + b <= q * b
OBVIOUS

-----------------------------------------------------------------------------
(* The inputs *)

InputsOK == in \in Inputs \cup [kind : {"mkfs"}]

LEMMA InputsInvariance == MSpec => []InputsOK
<1>1. MInit => InputsOK
  BY DEF MInit, InputsOK
<1>2. InputsOK /\ [MNext]_<<in, mkfsVars>> => InputsOK'
  BY DEF InputsOK, MNext, Next, Inputs
<1> QED
  BY <1>1, <1>2, PTL DEF MSpec

LEMMA InputKinds ==
  ASSUME InputsOK
  PROVE  /\ in.kind = "flags" => in.value \in SUBSET Flags
         /\ in.kind = "seek" =>
              /\ in.fpos \in 0..3 /\ in.fsize \in 0..3
              /\ in.value \in [from : {"Start"}, n : U64] \cup [from : {"Current", "End"}, n : I64]
         /\ in.kind = "type" => in.value \in FileType
         /\ in.kind = "inode" => in.value \in Pairs
         /\ in.kind = "errno" => in.value \in {0} \cup {ErrnoOf[n] : n \in DOMAIN ErrnoOf}
         /\ in.kind = "host" =>
              in.value \in [ok : BOOLEAN, os : {-1, 0} \cup {ErrnoOf[n] : n \in DOMAIN ErrnoOf}]
         /\ in.kind = "device" =>
              in.value \in [size : 0..MaxDevice, bs : BlockSizes, of : {"file", "memory", "vec"}]
         /\ in.kind = "path" =>
              /\ in.id \in 0..MaxId
              /\ in.value \in UNION {[1..n -> {"/", "1", "a", "NUL"}] : n \in 0..MaxPath}
BY DEF InputsOK, Inputs

-----------------------------------------------------------------------------
(* The conversions *)

\* The raw flags are a sum of numbers that share no bits.
LEMMA BitsRead ==
  ASSUME NEW a \in 0..2, NEW c \in {0, 64}, NEW t \in {0, 512}, NEW p \in {0, 1024},
         NEW e \in {0, 128}, NEW raw \in Nat, raw = a + c + t + p + e
  PROVE  /\ raw % 4 = a
         /\ (raw \div 64) % 2 = 1 <=> c = 64
         /\ (raw \div 512) % 2 = 1 <=> t = 512
         /\ (raw \div 1024) % 2 = 1 <=> p = 1024
         /\ (raw \div 128) % 2 = 1 <=> e = 128
OBVIOUS

\* OpenFlags::to_raw: lwext4 reads the requested access and flags from the bits.
THEOREM FlagsSafe == MSpec => []FlagsKept
<1>1. ASSUME InputsOK, in.kind = "flags" PROVE FlagsKept
  <2>1. PICK f \in SUBSET Flags : f = in.value
    BY <1>1, InputKinds
  <2>2. PICK a \in 0..2 : a = Access(f)
    BY DEF Access, O_RDWR, O_WRONLY, O_RDONLY
  <2>3. PICK c \in {0, 64} : c = Bit(f, "CREATE", O_CREAT)
    BY DEF Bit, O_CREAT
  <2>4. PICK t \in {0, 512} : t = Bit(f, "TRUNCATE", O_TRUNC)
    BY DEF Bit, O_TRUNC
  <2>5. PICK p \in {0, 1024} : p = Bit(f, "APPEND", O_APPEND)
    BY DEF Bit, O_APPEND
  <2>6. PICK e \in {0, 128} : e = Bit(f, "EXCLUSIVE", O_EXCL)
    BY DEF Bit, O_EXCL
  <2>7. PICK raw \in Nat : raw = a + c + t + p + e
    OBVIOUS
  <2>8. raw = FlagsToRaw(f)
    BY <2>2, <2>3, <2>4, <2>5, <2>6, <2>7 DEF FlagsToRaw
  <2>9. /\ raw % 4 = a
        /\ (raw \div 64) % 2 = 1 <=> c = 64
        /\ (raw \div 512) % 2 = 1 <=> t = 512
        /\ (raw \div 1024) % 2 = 1 <=> p = 1024
        /\ (raw \div 128) % 2 = 1 <=> e = 128
    BY <2>7, BitsRead
  <2>10. /\ "WRITE" \in f <=> a \in {1, 2}
         /\ "READ" \in f => a \in {0, 2}
    BY <2>2 DEF Access, O_RDWR, O_WRONLY, O_RDONLY
  <2>11. /\ "CREATE" \in f <=> c = 64
         /\ "TRUNCATE" \in f <=> t = 512
         /\ "APPEND" \in f <=> p = 1024
         /\ "EXCLUSIVE" \in f <=> e = 128
    BY <2>3, <2>4, <2>5, <2>6 DEF Bit, O_CREAT, O_TRUNC, O_APPEND, O_EXCL
  <2> QED
    BY <2>1, <2>8, <2>9, <2>10, <2>11
       DEF FlagsKept, O_RDWR, O_WRONLY, O_RDONLY, O_CREAT, O_TRUNC, O_APPEND, O_EXCL
<1>2. InputsOK => FlagsKept
  BY <1>1 DEF FlagsKept
<1> QED
  BY <1>2, InputsInvariance, PTL

\* SeekFrom::to_raw: "as i64" turns a Start too large for it into a negative
\* offset, which ext4_fseek refuses; it never lands anywhere else.
THEOREM SeekSafe == MSpec => []SeekExact
<1>1. ASSUME InputsOK, in.kind = "seek", in.value.from = "Start" PROVE SeekExact
  <2>1. PICK n \in Int, fpos \in Nat, fsize \in Nat :
          n = in.value.n /\ fpos = in.fpos /\ fsize = in.fsize
    BY <1>1, InputKinds, ConvertConstants DEF U64, I64
  <2>2. n >= 0 /\ n < 2^Width
    BY <1>1, <2>1, InputKinds, ConvertConstants DEF U64
  <2>3. AsI64(n) = n \/ (AsI64(n) = n - 2^Width /\ n - 2^Width < 0)
    BY <2>2, ConvertConstants DEF AsI64
  <2>4. AsI64(n) = n \/ AsI64(n) \notin 0..fsize
    BY <2>3, ConvertConstants
  <2>5. Fseek(SeekToRaw(in.value), fpos, fsize) = {-1} \cup ({AsI64(n)} \cap 0..fsize)
    BY <1>1, <2>1 DEF SeekToRaw, Fseek
  <2> QED
    BY <2>1, <2>4, <2>5 DEF SeekExact
<1>2. InputsOK => SeekExact
  BY <1>1 DEF SeekExact
<1> QED
  BY <1>2, InputsInvariance, PTL

\* FileType::from_raw and to_raw undo each other, and the mode of an inode gives
\* the type that its directory entry gives.
THEOREM TypesSafe == MSpec => []TypesAgree
<1>1. \A t \in FileType : FromRaw(DE[t]) = t
  <2>1. FileType = {"RegularFile", "Directory", "CharDevice", "BlockDevice",
                    "Fifo", "Socket", "Symlink", "Unknown"}
    BY DEF FileType, DE
  <2>2. \A t, u \in FileType : DE[t] = DE[u] => t = u
    BY <2>1 DEF DE
  <2> QED
    BY <2>2 DEF FromRaw
<1>2. ASSUME InputsOK, in.kind = "type" PROVE FromRaw(ToRaw(in.value)) = in.value
  BY <1>1, <1>2, InputKinds DEF ToRaw
<1>3. ASSUME NEW p \in Pairs PROVE OfMode(p[1]) = FromRaw(p[2])
  <2>1. \E t \in FileType : DE[t] = p[2] /\ OfMode(p[1]) = t
    BY DEF Pairs, OfMode, DE, FileType
  <2> QED
    BY <1>1, <2>1
<1>4. InputsOK => TypesAgree
  BY <1>2, <1>3, InputKinds DEF TypesAgree
<1> QED
  BY <1>4, InputsInvariance, PTL

\* check_errno and check_errno_with_path take the same code for the same error,
\* and a failed callback of a device looks to lwext4 as if it had worked exactly
\* when the device's own I/O error carries the number 0.
THEOREM ErrorsSafe == MSpec => []ErrorsAgree
<1>2. ASSUME NEW n \in DOMAIN ErrnoOf
      PROVE  /\ n = "ENOENT" => ErrorFrom(ErrnoOf[n]) = "NotFound"
             /\ n = "EEXIST" => ErrorFrom(ErrnoOf[n]) = "AlreadyExists"
             /\ n = "ENOTDIR" => ErrorFrom(ErrnoOf[n]) = "NotADirectory"
             /\ n = "EISDIR" => ErrorFrom(ErrnoOf[n]) = "IsADirectory"
             /\ n = "ENOTEMPTY" => ErrorFrom(ErrnoOf[n]) = "NotEmpty"
             /\ ErrorFrom(ErrnoOf[n]) \notin {"Ok", "panic"}
  BY ErrnoConstants DEF ErrorFrom
<1>3. ASSUME NEW e, e = 0 \/ \E n \in DOMAIN ErrnoOf : e = ErrnoOf[n]
      PROVE  /\ CheckErrno(e) = CheckErrnoWithPath(e) /\ CheckErrno(e) # "panic"
             /\ CheckErrno(e) = "Ok" <=> e = 0
  BY <1>2, <1>3, ErrnoConstants DEF CheckErrno, CheckErrnoWithPath
<1>4. ASSUME NEW r \in [ok : BOOLEAN, os : {-1, 0} \cup {ErrnoOf[n] : n \in DOMAIN ErrnoOf}]
      PROVE  CallbackErrno(r) = 0 <=> r.ok \/ r.os = 0
  BY ErrnoConstants DEF CallbackErrno
<1>5. InputsOK => ErrorsAgree
  BY <1>3, <1>4, InputKinds DEF ErrorsAgree
<1> QED
  BY <1>5, InputsInvariance, PTL

\* Whole blocks of a device, counted by dividing and multiplied out in u64, are
\* the part that lwext4 gets, and each of them lies in it and in what there is.
THEOREM BlocksSafe == MSpec => []BlocksInside
<1>1. ASSUME InputsOK, in.kind = "device", Constructed(in.value) PROVE BlocksInside
  <2>1. PICK size \in Nat, bs \in Nat \ {0} : size = in.value.size /\ bs = in.value.bs
    <3>1. in.value.size \in 0..MaxDevice /\ in.value.bs \in BlockSizes /\ in.value.bs # 0
      BY <1>1, InputKinds DEF Constructed
    <3>2. 2^Width - 1 \in Int
      BY ConvertConstants
    <3>3. \A x \in 0..(2^Width - 1) : x \in Nat
      BY <3>2
    <3>4. in.value.size \in Nat
      BY <3>1, <3>3, ConvertConstants
    <3>5. in.value.bs \in Nat
      BY <3>1, <3>3, ConvertConstants
    <3> QED
      BY <3>1, <3>4, <3>5
  <2>2. size < 2^Width /\ 2^Width \in Nat
    BY <1>1, <2>1, InputKinds, ConvertConstants
  <2>3. PICK q \in Nat : q = BlockCount(size, bs) /\ q * bs <= size /\ q * bs \in Nat
    BY DivFits DEF BlockCount
  <2>4. (q * bs) % 2^Width = q * bs
    <3>1. PICK x \in Nat : x = q * bs /\ x < 2^Width
      BY <2>2, <2>3
    <3> QED
      BY <2>2, <3>1, ModFits
  <2>5. PartSize(size, bs) = q * bs /\ Allocated(size, bs, in.value.of) \in {q * bs, size}
    BY <2>3, <2>4 DEF PartSize, Allocated
  <2>6. ASSUME NEW blk \in U64, blk < q
        PROVE  /\ Offset(blk, bs) = blk * bs
               /\ Offset(blk, bs) + bs <= PartSize(size, bs)
               /\ Offset(blk, bs) + bs <= Allocated(size, bs, in.value.of)
    <3>1. blk \in Nat
      BY ConvertConstants DEF U64
    <3>2. PICK x \in Nat : x = blk * bs /\ x + bs <= q * bs
      BY <2>6, <3>1, BlockFits
    <3>3. x < 2^Width /\ x + bs <= size
      BY <2>2, <2>3, <3>2
    <3>4. x % 2^Width = x
      BY <2>2, <3>3, ModFits
    <3> QED
      BY <2>5, <3>2, <3>3, <3>4 DEF Offset
  <2> QED
    BY <2>1, <2>3, <2>6 DEF BlocksInside
<1>2. InputsOK => BlocksInside
  BY <1>1 DEF BlocksInside
<1> QED
  BY <1>2, InputsInvariance, PTL

-----------------------------------------------------------------------------
(* Paths *)

\* The characters there are: "mp" stands for two, the digits are in base 2.
Chars == {"/", "mp", "0", "1", "a", "NUL"}

LEMMA CharsAre ==
  {"/", "mp", "0", "1", "a", "NUL"} \subseteq Chars
BY DEF Chars

\* Sequences of one and of two elements, and what follows what.
LEMMA One ==
  ASSUME NEW S, NEW x \in S
  PROVE  <<x>> \in Seq(S) /\ Len(<<x>>) = 1 /\ <<x>>[1] = x
OBVIOUS

LEMMA Two ==
  ASSUME NEW S, NEW x \in S, NEW y \in S
  PROVE  <<x, y>> \in Seq(S) /\ Len(<<x, y>>) = 2 /\ <<x, y>>[1] = x /\ <<x, y>>[2] = y
OBVIOUS

\* c is a and then b.
IsJoined(c, a, b) ==
  /\ Len(c) = Len(a) + Len(b)
  /\ \A k \in 1..Len(a) : c[k] = a[k]
  /\ \A k \in 1..Len(b) : c[Len(a) + k] = b[k]

LEMMA Joined ==
  ASSUME NEW S, NEW a \in Seq(S), NEW b \in Seq(S)
  PROVE  a \o b \in Seq(S) /\ IsJoined(a \o b, a, b)
BY DEF IsJoined

LEMMA SameSeq ==
  ASSUME NEW S, NEW a \in Seq(S), NEW b \in Seq(S), Len(a) = Len(b),
         \A k \in 1..Len(a) : a[k] = b[k]
  PROVE  a = b
OBVIOUS

\* A sequence is its first element and the rest; after a comes b.
LEMMA FirstAndRest ==
  ASSUME NEW S, NEW x \in S, NEW s \in Seq(S), s # <<>>, s[1] = x
  PROVE  s = <<x>> \o Tail(s)
<1>0. /\ Tail(s) \in Seq(S) /\ Len(Tail(s)) = Len(s) - 1
      /\ \A k \in 1..Len(Tail(s)) : Tail(s)[k] = s[k + 1]
  BY HeadTailProperties, SMTT(30)
<1>1. PICK t \in Seq(S) :
        t = Tail(s) /\ Len(s) = 1 + Len(t) /\ \A k \in 1..Len(t) : t[k] = s[k + 1]
  <2> DEFINE t == Tail(s)
  <2>1. t \in Seq(S) /\ Len(t) = Len(s) - 1 /\ \A k \in 1..Len(t) : t[k] = s[k + 1]
    BY <1>0
  <2> HIDE DEF t
  <2>2. Len(s) = 1 + Len(t)
    BY <2>1
  <2>3. t = Tail(s)
    BY DEF t
  <2> QED
    BY <2>1, <2>2, <2>3
<1>2. PICK f \in Seq(S) : f = <<x>> /\ Len(f) = 1 /\ f[1] = x
  BY One
<1> DEFINE c == f \o t
<1>3. c \in Seq(S) /\ IsJoined(c, f, t)
  BY Joined
<1> HIDE DEF c
<1>4. Len(c) = Len(s) /\ Len(s) \in Nat
  BY <1>1, <1>2, <1>3 DEF IsJoined
<1>5. ASSUME NEW k \in 1..Len(s) PROVE s[k] = c[k]
  <2>1. CASE k = 1
    BY <1>2, <1>3, <2>1 DEF IsJoined
  <2>2. CASE k # 1
    <3>1. PICK l \in 1..Len(t) : k = l + 1
      <4>1. k - 1 \in 1..Len(t) /\ k = (k - 1) + 1
        BY <1>1, <2>2
      <4> QED
        BY <4>1
    <3>2. s[k] = t[l]
      BY <1>1, <3>1
    <3>3. c[Len(f) + l] = t[l]
      BY <1>3, <3>1 DEF IsJoined
    <3> QED
      BY <1>2, <3>1, <3>2, <3>3
  <2> QED
    BY <2>1, <2>2
<1>6. s = c
  BY <1>3, <1>4, <1>5, SameSeq
<1> QED
  BY <1>1, <1>2, <1>6 DEF c

LEMMA AfterJoin ==
  ASSUME NEW S, NEW a \in Seq(S), NEW b \in Seq(S), NEW c \in Seq(S), IsJoined(c, a, b)
  PROVE  SubSeq(c, Len(a) + 1, Len(c)) = b
<1>1. PICK n \in Nat, l \in Nat : n = Len(a) /\ l = Len(b) /\ Len(c) = n + l
  BY DEF IsJoined
<1> DEFINE s == SubSeq(c, n + 1, n + l)
<1>2. \A k \in n + 1..n + l : c[k] \in S
  BY <1>1
<1>3. /\ s \in Seq(S) /\ Len(s) = IF n + 1 <= n + l THEN (n + l) - (n + 1) + 1 ELSE 0
      /\ \A k \in 1..(n + l) - (n + 1) + 1 : s[k] = c[(n + 1) + k - 1]
  BY <1>1, <1>2, SubSeqProperties
<1> HIDE DEF s
<1>4. Len(s) = l /\ \A k \in 1..l : s[k] = c[n + k]
  BY <1>3
<1>5. \A k \in 1..l : c[n + k] = b[k]
  BY <1>1 DEF IsJoined
<1>6. s = b
  BY <1>1, <1>3, <1>4, <1>5, SameSeq
<1> QED
  BY <1>1, <1>6 DEF s

\* The digits of the four numbers.
DigitsOf(id, d) ==
  /\ id < 2 => Len(d) = 1
  /\ id >= 2 => Len(d) = 2 /\ d[2] \in {"0", "1"}
  /\ d[1] = IF id = 0 THEN "0" ELSE "1"
  /\ id = 2 => d[2] = "0"
  /\ id = 3 => d[2] = "1"

LEMMA DigitsAre ==
  ASSUME NEW id \in 0..3
  PROVE  Digits[id] \in Seq(Chars) /\ DigitsOf(id, Digits[id])
<1>1. /\ id = 0 => Digits[id] = <<"0">>
      /\ id = 1 => Digits[id] = <<"1">>
      /\ id = 2 => Digits[id] = <<"1", "0">>
      /\ id = 3 => Digits[id] = <<"1", "1">>
  BY DEF Digits
<1>2. id \in {0, 1, 2, 3}
  OBVIOUS
<1>3. "0" \in Chars /\ "1" \in Chars
  BY CharsAre
<1>4. CASE id \in {0, 1}
  <2>1. PICK x \in Chars : x = (IF id = 0 THEN "0" ELSE "1") /\ Digits[id] = <<x>>
    BY <1>1, <1>3, <1>4
  <2>2. <<x>> \in Seq(Chars) /\ Len(<<x>>) = 1 /\ <<x>>[1] = x
    BY One
  <2> QED
    BY <1>4, <2>1, <2>2 DEF DigitsOf
<1>5. CASE id \in {2, 3}
  <2>1. PICK x \in Chars, y \in Chars :
          x = "1" /\ y = (IF id = 2 THEN "0" ELSE "1") /\ Digits[id] = <<x, y>>
    BY <1>1, <1>3, <1>5
  <2>2. <<x, y>> \in Seq(Chars) /\ Len(<<x, y>>) = 2 /\ <<x, y>>[1] = x /\ <<x, y>>[2] = y
    BY Two
  <2> QED
    BY <1>5, <2>1, <2>2 DEF DigitsOf
<1> QED
  BY <1>2, <1>4, <1>5

\* A mount point is a slash, two letters (one cell here), the digits and a slash.
IsPoint(p, d) ==
  /\ Len(p) = Len(d) + 3
  /\ p[1] = "/" /\ p[2] = "mp"
  /\ \A k \in 1..Len(d) : p[2 + k] = d[k]
  /\ p[Len(d) + 3] = "/"

LEMMA MountPointIs ==
  ASSUME NEW id \in 0..3
  PROVE  MountPoint(id) \in Seq(Chars) /\ IsPoint(MountPoint(id), Digits[id])
<1>1. PICK d \in Seq(Chars) : d = Digits[id]
  BY DigitsAre
<1>0. PICK n \in Nat : n = Len(d)
  OBVIOUS
<1>2. PICK slash \in Chars, mp \in Chars : slash = "/" /\ mp = "mp"
  BY CharsAre
<1> DEFINE front == <<slash, mp>>
           back == <<slash>>
           fd == front \o d
           all == fd \o back
<1>3. front \in Seq(Chars) /\ Len(front) = 2 /\ front[1] = slash /\ front[2] = mp
  BY Two
<1>4. back \in Seq(Chars) /\ Len(back) = 1 /\ back[1] = slash
  BY One
<1>5. MountPoint(id) = all
  BY <1>1, <1>2 DEF MountPoint
<1> HIDE DEF front, back
<1>6. fd \in Seq(Chars) /\ IsJoined(fd, front, d)
  BY <1>3, Joined
<1> HIDE DEF fd
<1>7. all \in Seq(Chars) /\ IsJoined(all, fd, back)
  BY <1>4, <1>6, Joined
<1> HIDE DEF all
<1>8. /\ Len(fd) = n + 2 /\ fd[1] = "/" /\ fd[2] = "mp"
      /\ \A k \in 1..n : fd[2 + k] = d[k]
  BY <1>0, <1>2, <1>3, <1>6 DEF IsJoined
<1>9. Len(all) = n + 3 /\ all[1] = "/" /\ all[2] = "mp"
  BY <1>0, <1>4, <1>7, <1>8 DEF IsJoined
<1>10. ASSUME NEW k \in 1..n PROVE all[2 + k] = d[k]
  <2>1. 2 + k \in 1..n + 2
    OBVIOUS
  <2> QED
    BY <1>7, <1>8, <2>1 DEF IsJoined
<1>11. all[n + 3] = "/"
  <2>1. all[Len(fd) + 1] = back[1]
    BY <1>4, <1>7 DEF IsJoined
  <2> QED
    BY <1>2, <1>4, <1>8, <2>1
<1> QED
  BY <1>0, <1>1, <1>5, <1>7, <1>9, <1>10, <1>11 DEF IsPoint

LEMMA MountPointOK ==
  ASSUME NEW id \in 0..3
  PROVE  /\ MountPoint(id) \in Seq(Chars) /\ Len(MountPoint(id)) \in Nat
         /\ \A k \in 1..Len(MountPoint(id)) : MountPoint(id)[k] # "NUL"
<1>1. PICK d \in Seq(Chars) : d = Digits[id] /\ DigitsOf(id, d)
  BY DigitsAre
<1>2. PICK p \in Seq(Chars) : p = MountPoint(id) /\ IsPoint(p, d)
  BY <1>1, MountPointIs
<1>3. PICK n \in {1, 2} : n = Len(d)
  BY <1>1 DEF DigitsOf
<1>4. ASSUME NEW k \in 1..n + 3 PROVE p[k] # "NUL"
  <2>1. CASE k \in {1, 2, n + 3}
    BY <1>2, <1>3, <2>1 DEF IsPoint
  <2>2. CASE k \notin {1, 2, n + 3}
    <3>1. PICK l \in 1..n : k = 2 + l
      <4>1. k - 2 \in 1..n /\ k = 2 + (k - 2)
        BY <2>2
      <4> QED
        BY <4>1
    <3>2. d[l] # "NUL"
      BY <1>1, <1>3 DEF DigitsOf
    <3> QED
      BY <1>2, <1>3, <3>1, <3>2 DEF IsPoint
  <2> QED
    BY <2>1, <2>2
<1>5. Len(p) = n + 3
  BY <1>2, <1>3 DEF IsPoint
<1> QED
  BY <1>2, <1>4, <1>5

\* A prefix agrees with the sequence wherever it is defined.
Agree(m, s) == Len(m) <= Len(s) /\ \A k \in 1..Len(m) : m[k] = s[k]

LEMMA PrefixAgrees ==
  ASSUME NEW m \in Seq(Chars), NEW s \in Seq(Chars)
  PROVE  IsPrefix(m, s) <=> Agree(m, s)
<1> DEFINE a == SubSeq(m, 1, Len(m))
           b == SubSeq(s, 1, Len(m))
<1>1. Len(a) = Len(m) /\ \A k \in 1..Len(m) : a[k] = m[k]
  OBVIOUS
<1>2. ASSUME Len(m) <= Len(s)
      PROVE  b \in Seq(Chars) /\ Len(b) = Len(m) /\ \A k \in 1..Len(m) : b[k] = s[k]
  BY <1>2
<1>3. a \in Seq(Chars)
  OBVIOUS
<1> HIDE DEF a, b
<1>4. ASSUME Len(m) <= Len(s) PROVE a = b <=> \A k \in 1..Len(m) : m[k] = s[k]
  <2>1. ASSUME \A k \in 1..Len(m) : m[k] = s[k] PROVE a = b
    BY <1>1, <1>2, <1>3, <1>4, <2>1
  <2> QED
    BY <1>1, <1>2, <1>4, <2>1
<1>5. IsPrefix(m, s) <=> Len(m) <= Len(s) /\ a = b
  BY DEF IsPrefix, a, b
<1> QED
  BY <1>4, <1>5 DEF Agree

\* Two mount points differ before either ends.
LEMMA MountPointsDiffer ==
  ASSUME NEW i \in 0..3, NEW j \in 0..3, i # j
  PROVE  \E k \in 1..4 : /\ k <= Len(MountPoint(i)) /\ k <= Len(MountPoint(j))
                         /\ MountPoint(i)[k] # MountPoint(j)[k]
<1>1. ASSUME NEW id \in 0..3
      PROVE  /\ Len(MountPoint(id)) >= 4
             /\ MountPoint(id)[3] = IF id = 0 THEN "0" ELSE "1"
             /\ MountPoint(id)[4] = IF id < 2 THEN "/" ELSE IF id = 2 THEN "0" ELSE "1"
  <2>1. PICK d \in Seq(Chars) : d = Digits[id] /\ DigitsOf(id, d)
    BY DigitsAre
  <2>2. PICK p \in Seq(Chars) : p = MountPoint(id) /\ IsPoint(p, d)
    BY <2>1, MountPointIs
  <2>3. PICK n \in {1, 2} : n = Len(d) /\ (n = 1 <=> id < 2)
    BY <2>1 DEF DigitsOf
  <2>4. Len(p) = n + 3 /\ p[3] = d[1]
    BY <2>2, <2>3 DEF IsPoint
  <2>5. p[4] = IF n = 1 THEN "/" ELSE d[2]
    BY <2>2, <2>3 DEF IsPoint
  <2>6. /\ d[1] = IF id = 0 THEN "0" ELSE "1"
        /\ id >= 2 => d[2] = IF id = 2 THEN "0" ELSE "1"
    BY <2>1 DEF DigitsOf
  <2> QED
    BY <2>2, <2>3, <2>4, <2>5, <2>6
<1>2. CASE i = 0 \/ j = 0
  <2>1. MountPoint(i)[3] # MountPoint(j)[3] /\ 3 <= Len(MountPoint(i)) /\ 3 <= Len(MountPoint(j))
    BY <1>1, <1>2, MountPointOK
  <2> QED
    BY <2>1
<1>3. CASE i # 0 /\ j # 0
  <2>1. MountPoint(i)[4] # MountPoint(j)[4]
    BY <1>1, <1>3
  <2>2. 4 <= Len(MountPoint(i)) /\ 4 <= Len(MountPoint(j))
    BY <1>1, MountPointOK
  <2> QED
    BY <2>1, <2>2
<1> QED
  BY <1>2, <1>3

\* No mount point is the beginning of another one, whatever follows it.
LEMMA FindsOwn ==
  ASSUME NEW i \in 0..3, NEW j \in 0..3, NEW r \in Seq(Chars)
  PROVE  Finds(i, MountPoint(j) \o r) <=> i = j
<1>1. PICK m \in Seq(Chars), o \in Seq(Chars) : m = MountPoint(i) /\ o = MountPoint(j)
  BY MountPointOK
<1> DEFINE full == o \o r
<1>2. full \in Seq(Chars)
  OBVIOUS
<1>3. Len(full) = Len(o) + Len(r) /\ \A k \in 1..Len(o) : full[k] = o[k]
  OBVIOUS
<1> HIDE DEF full
<1>4. Finds(i, full) <=> Len(m) <= Len(full) /\ \A k \in 1..Len(m) : m[k] = full[k]
  <2>1. IsPrefix(m, full) <=> Agree(m, full)
    BY <1>2, PrefixAgrees
  <2> QED
    BY <1>1, <2>1 DEF Finds, Agree
<1>5. ASSUME i = j PROVE Finds(i, full)
  <2>1. m = o
    BY <1>1, <1>5
  <2>2. Len(o) \in Nat /\ Len(r) \in Nat
    OBVIOUS
  <2> QED
    BY <1>1, <1>2, <1>3, <1>4, <1>5, <2>1, <2>2
<1>6. ASSUME i # j PROVE ~Finds(i, full)
  <2>1. PICK k \in 1..4 : k <= Len(m) /\ k <= Len(o) /\ m[k] # o[k]
    BY <1>1, <1>6, MountPointsDiffer
  <2>2. k \in 1..Len(m) /\ k \in 1..Len(o)
    BY <2>1
  <2> QED
    BY <1>1, <1>2, <1>3, <1>4, <1>6, <2>1, <2>2
<1> QED
  BY <1>1, <1>5, <1>6 DEF full

\* make_path: the mount point, then the path without a slash at its beginning;
\* what lwext4 finds for it is the mount it was made for.
THEOREM PathsSafe == MSpec => []PathsOwn
<1>1. ASSUME InputsOK, in.kind = "path" PROVE PathsOwn
  <2>1. PICK id \in 0..3 : id = in.id
    <3>1. \A i \in 0..MaxId : i \in 0..3
      BY ConvertConstants
    <3> QED
      BY <1>1, <3>1, InputKinds
  <2>2. PICK path \in Seq(Chars) : path = in.value
    <3>1. PICK n \in 0..MaxPath : in.value \in [1..n -> {"/", "1", "a", "NUL"}]
      BY <1>1, InputKinds
    <3>2. n \in Nat
      BY <3>1, ConvertConstants
    <3>3. in.value \in [1..n -> Chars]
      BY <3>1 DEF Chars
    <3> QED
      BY <3>2, <3>3
  <2>3. PICK r \in Seq(Chars) :
          /\ r = IF path # <<>> /\ path[1] = "/" THEN Tail(path) ELSE path
          /\ path \in {r, <<"/">> \o r}
          /\ \A k \in 1..Len(r) : \E l \in 1..Len(path) : path[l] = r[k]
    <3>1. CASE path # <<>> /\ path[1] = "/"
      <4>1. /\ Tail(path) \in Seq(Chars) /\ Len(Tail(path)) = Len(path) - 1
            /\ \A k \in 1..Len(path) - 1 : Tail(path)[k] = path[k + 1] /\ k + 1 \in 1..Len(path)
        BY <3>1
      <4>2. path = <<"/">> \o Tail(path)
        BY <3>1, CharsAre, FirstAndRest
      <4> QED
        BY <3>1, <4>1, <4>2
    <3>2. CASE ~(path # <<>> /\ path[1] = "/")
      BY <3>2, SMTT(30)
    <3> QED
      BY <3>1, <3>2
  <2>4. PICK m \in Seq(Chars) : m = MountPoint(id) /\ \A k \in 1..Len(m) : m[k] # "NUL"
    BY MountPointOK
  <2> DEFINE full == m \o r
  <2>5. MakePath(id, path) = IF "NUL" \in Range(full) THEN <<"NulError">> ELSE full
    BY <2>3, <2>4 DEF MakePath
  <2>6. \A i \in 0..MaxId : Finds(i, full) <=> i = id
    BY <2>4, FindsOwn, ConvertConstants
  <2>f. /\ full \in Seq(Chars) /\ Len(full) = Len(m) + Len(r) /\ Len(m) \in Nat /\ Len(r) \in Nat
        /\ \A k \in 1..Len(m) : full[k] = m[k]
        /\ \A k \in 1..Len(r) : full[Len(m) + k] = r[k]
    OBVIOUS
  <2> HIDE DEF full
  <2>7. ASSUME "NUL" \in Range(full) PROVE "NUL" \in Range(path)
    <3>1. PICK k \in 1..Len(full) : full[k] = "NUL"
      BY <2>7 DEF Range
    <3>2. k > Len(m)
      BY <2>4, <2>f, <3>1
    <3>3. PICK l \in 1..Len(r) : k = Len(m) + l
      <4>1. k - Len(m) \in 1..Len(r) /\ k = Len(m) + (k - Len(m))
        BY <2>f, <3>1, <3>2
      <4> QED
        BY <4>1
    <3>4. r[l] = "NUL"
      BY <2>f, <3>1, <3>3
    <3> QED
      BY <2>3, <3>4 DEF Range
  <2>8. SubSeq(full, Len(MountPoint(id)) + 1, Len(full)) = r
    <3>1. IsJoined(full, m, r)
      BY <2>f DEF IsJoined
    <3>2. SubSeq(full, Len(m) + 1, Len(full)) = r
      BY <2>f, <3>1, AfterJoin
    <3> QED
      BY <2>4, <3>2
  <2>9. CASE "NUL" \in Range(full)
    BY <2>1, <2>2, <2>5, <2>7, <2>9 DEF PathsOwn
  <2>10. CASE "NUL" \notin Range(full)
    BY <2>1, <2>2, <2>3, <2>5, <2>6, <2>8, <2>10 DEF PathsOwn
  <2> QED
    BY <2>9, <2>10
<1>2. InputsOK => PathsOwn
  BY <1>1 DEF PathsOwn
<1> QED
  BY <1>2, InputsInvariance, PTL

-----------------------------------------------------------------------------
(* Making a filesystem *)

Fields == {"fs_type", "block_size", "journal", "label", "uuid"}
Types == {"Ext2", "Ext3", "Ext4"}

\* The calls that set a field.
Sets(field) == {k \in 2..Len(asked) : asked[k][1] = field}

\* What the options hold is what was asked for last.
Tracks(field) ==
  \/ Sets(field) = {} /\ options[field] = asked[1][field]
  \/ \E m \in Sets(field) : (\A k \in Sets(field) : k <= m) /\ options[field] = asked[m][2]

\* The calls so far: the constructor's defaults, then a setting at a time.
AskedOK ==
  /\ asked \in Seq({Default(t) : t \in Types} \cup Settings)
  /\ Len(asked) > 0 /\ \E t \in Types : asked[1] = Default(t)
  /\ \A k \in 2..Len(asked) : asked[k] \in Settings

OptionsOK ==
  /\ DOMAIN options = Fields
  /\ options.fs_type \in Types /\ options.block_size \in FsBlockSizes
  /\ options.journal \in BOOLEAN

\* An Ok result and what stat returned belong to the filesystem that was made
\* with the options as they are.
MkfsInv ==
  /\ AskedOK /\ OptionsOK
  /\ \A field \in Fields : Tracks(field)
  /\ result = "Ok" => image = Superblock(Info(options), FsTypeToRaw[options.fs_type])
  /\ stats # None =>
       /\ stats.block_size \in 1..Length
       /\ stats.total_blocks = Length \div stats.block_size
       /\ stats.free_blocks \in 0..stats.total_blocks

\* Every setting is one of four fields with a value of its own.
LEMMA SettingOK ==
  ASSUME NEW s \in Settings
  PROVE  /\ s[1] \in Fields \ {"fs_type"}
         /\ s[1] = "block_size" => s[2] \in FsBlockSizes
         /\ s[1] = "journal" => s[2] \in BOOLEAN
BY DEF Settings, Fields

LEMMA MkfsInit == MInit => MkfsInv
<1> SUFFICES ASSUME MInit PROVE MkfsInv
  OBVIOUS
<1>1. PICK t \in Types : options = Default(t) /\ asked = <<Default(t)>>
  BY DEF MInit, Types
<1>2. asked \in Seq({Default(u) : u \in Types} \cup Settings) /\ Len(asked) = 1 /\ asked[1] = Default(t)
  BY <1>1
<1>3. AskedOK
  BY <1>2 DEF AskedOK
<1>4. OptionsOK
  BY <1>1, MkfsConstants DEF OptionsOK, Default, Fields
<1>5. \A field \in Fields : Tracks(field)
  BY <1>1, <1>2 DEF Tracks, Sets
<1> QED
  BY <1>3, <1>4, <1>5, MkfsConstants DEF MInit, MkfsInv

LEMMA WithInv ==
  ASSUME MkfsInv, NEW s \in Settings, With(s)
  PROVE  MkfsInv'
<1>1. /\ options' = [options EXCEPT ![s[1]] = s[2]] /\ asked' = Append(asked, s)
      /\ result = None /\ UNCHANGED <<image, result, stats>>
  BY DEF With
<1>2. AskedOK /\ OptionsOK
  BY DEF MkfsInv
<1>3. PICK n \in Nat \ {0} : n = Len(asked)
  BY <1>2 DEF AskedOK
<1>4. /\ asked' \in Seq({Default(t) : t \in Types} \cup Settings)
      /\ Len(asked') = n + 1 /\ asked'[n + 1] = s
      /\ \A k \in 1..n : asked'[k] = asked[k]
  BY <1>1, <1>2, <1>3 DEF AskedOK
<1>5. AskedOK'
  <2>1. \A k \in 2..n + 1 : asked'[k] \in Settings
    BY <1>2, <1>3, <1>4 DEF AskedOK
  <2>2. \E t \in Types : asked'[1] = Default(t)
    BY <1>2, <1>3, <1>4 DEF AskedOK
  <2> QED
    BY <1>4, <2>1, <2>2 DEF AskedOK
<1>6. /\ DOMAIN options' = Fields
      /\ \A field \in Fields : options'[field] = IF field = s[1] THEN s[2] ELSE options[field]
  BY <1>1, <1>2 DEF OptionsOK
<1>7. OptionsOK'
  BY <1>2, <1>6, SettingOK DEF OptionsOK, Fields
<1>8. ASSUME NEW field \in Fields PROVE Tracks(field)'
  <2>1. CASE s[1] = field
    <3>1. n + 1 \in Sets(field)'
      BY <1>3, <1>4, <2>1 DEF Sets
    <3>2. \A k \in Sets(field)' : k <= n + 1
      BY <1>4 DEF Sets
    <3>3. options'[field] = asked'[n + 1][2]
      BY <1>4, <1>6, <2>1
    <3> QED
      BY <3>1, <3>2, <3>3 DEF Tracks
  <2>2. CASE s[1] # field
    <3>1. Sets(field)' = Sets(field)
      BY <1>3, <1>4, <2>2 DEF Sets
    <3>2. options'[field] = options[field]
      BY <1>6, <2>2
    <3>3. \A k \in Sets(field) : asked'[k] = asked[k]
      BY <1>3, <1>4 DEF Sets
    <3>4. Tracks(field) /\ asked'[1] = asked[1]
      BY <1>3, <1>4 DEF MkfsInv
    <3> QED
      BY <3>1, <3>2, <3>3, <3>4 DEF Tracks
  <2> QED
    BY <2>1, <2>2
<1> QED
  BY <1>1, <1>5, <1>7, <1>8, MkfsConstants DEF MkfsInv

LEMMA MkfsStep == MkfsInv /\ [MNext]_<<in, mkfsVars>> => MkfsInv'
<1> SUFFICES ASSUME MkfsInv, [MNext]_<<in, mkfsVars>> PROVE MkfsInv'
  OBVIOUS
<1>1. ASSUME NEW s \in Settings, With(s) PROVE MkfsInv'
  BY <1>1, WithInv
<1>2. CASE Mkfs
  <2>1. /\ UNCHANGED <<options, asked, stats>>
        /\ result' = "Ok" => image' = Superblock(Info(options), FsTypeToRaw[options.fs_type])
    BY <1>2 DEF Mkfs
  <2>2. AskedOK' /\ OptionsOK' /\ \A field \in Fields : Tracks(field)'
    BY <2>1 DEF MkfsInv, AskedOK, OptionsOK, Tracks, Sets
  <2>3. Superblock(Info(options), FsTypeToRaw[options.fs_type])'
          = Superblock(Info(options), FsTypeToRaw[options.fs_type])
    BY <2>1 DEF Superblock, Info, InfoJournal
  <2> QED
    BY <2>1, <2>2, <2>3 DEF MkfsInv
<1>3. CASE Stat
  <2>1. /\ UNCHANGED <<options, asked, image, result>>
        /\ result = "Ok"
        /\ \E free \in 0..image.blocks :
             stats' = [block_size |-> image.block_size, total_blocks |-> image.blocks,
                       free_blocks |-> free, volume_name |-> VolumeName(image.label)]
    BY <1>3 DEF Stat
  <2>2. AskedOK' /\ OptionsOK' /\ \A field \in Fields : Tracks(field)'
    BY <2>1 DEF MkfsInv, AskedOK, OptionsOK, Tracks, Sets
  <2>3. image = Superblock(Info(options), FsTypeToRaw[options.fs_type])
    BY <2>1 DEF MkfsInv
  <2>4. image.block_size \in 1..Length /\ image.blocks = Length \div image.block_size
    BY <2>3, MkfsConstants DEF Superblock, Info, MkfsInv, OptionsOK
  <2>5. Superblock(Info(options), FsTypeToRaw[options.fs_type])'
          = Superblock(Info(options), FsTypeToRaw[options.fs_type])
    BY <2>1 DEF Superblock, Info, InfoJournal
  <2>6. /\ stats'.block_size \in 1..Length
        /\ stats'.total_blocks = Length \div stats'.block_size
        /\ stats'.free_blocks \in 0..stats'.total_blocks
    BY <2>1, <2>4
  <2> QED
    BY <2>1, <2>2, <2>3, <2>5, <2>6 DEF MkfsInv
<1>4. CASE UNCHANGED mkfsVars
  BY <1>4 DEF mkfsVars, MkfsInv, AskedOK, OptionsOK, Tracks, Sets, Superblock, Info, InfoJournal
<1> QED
  BY <1>1, <1>2, <1>3, <1>4 DEF MNext

LEMMA MkfsInvariance == MSpec => []MkfsInv
BY MkfsInit, MkfsStep, PTL DEF MSpec

\* The options hold what was asked for last.
LEMMA WantedIs ==
  ASSUME MkfsInv, NEW field \in Fields
  PROVE  Wanted(field) = options[field]
<1>1. Tracks(field)
  BY DEF MkfsInv
<1>2. CASE Sets(field) = {}
  BY <1>1, <1>2 DEF Tracks, Sets, Wanted
<1>3. CASE Sets(field) # {}
  <2>1. PICK m \in Sets(field) : (\A k \in Sets(field) : k <= m) /\ options[field] = asked[m][2]
    BY <1>1, <1>3 DEF Tracks
  <2>2. \A k \in Sets(field) : k \in Nat
    BY DEF Sets
  <2>3. Max(Sets(field)) = m
    BY <2>1, <2>2 DEF Max
  <2> QED
    BY <1>3, <2>1, <2>3 DEF Wanted, Sets
<1> QED
  BY <1>2, <1>3

\* MkfsOptions and mkfs: the last value of every option reaches the superblock,
\* a journal too unless the type is ext2, also when a first attempt failed.
THEOREM FormatSafe == MSpec => []FormatAsAsked
<1>1. ASSUME MkfsInv, result = "Ok" PROVE FormatAsAsked
  <2>1. image = Superblock(Info(options), FsTypeToRaw[options.fs_type])
    BY <1>1 DEF MkfsInv
  <2>2. image.fs_type = options.fs_type
    <3>1. options.fs_type \in Types
      BY <1>1 DEF MkfsInv, OptionsOK
    <3>2. \A t \in Types : t = CHOOSE u \in DOMAIN FsTypeToRaw : FsTypeToRaw[u] = FsTypeToRaw[t]
      BY DEF Types, FsTypeToRaw
    <3> QED
      BY <2>1, <3>1, <3>2 DEF Superblock
  <2>3. /\ image.block_size = options.block_size
        /\ image.journal <=> options.journal /\ options.fs_type # "Ext2"
        /\ image.uuid = IF options.uuid = None THEN NoUuid ELSE options.uuid
    BY <2>1 DEF Superblock, Info, InfoJournal
  <2>4. /\ Wanted("fs_type") = options.fs_type /\ Wanted("block_size") = options.block_size
        /\ Wanted("journal") = options.journal /\ Wanted("uuid") = options.uuid
    BY <1>1, WantedIs DEF Fields
  <2> QED
    BY <2>2, <2>3, <2>4 DEF FormatAsAsked
<1>2. MkfsInv => FormatAsAsked
  BY <1>1 DEF FormatAsAsked
<1> QED
  BY <1>2, MkfsInvariance, PTL

\* FsStats: the sizes of a filesystem that fits the device are computed in u64
\* without wrapping, and the used and the free one are all of it.
THEOREM SizesSafe == MSpec => []SizesAddUp
<1>1. ASSUME MkfsInv, stats # None PROVE SizesAddUp
  <2>1. PICK bs \in 1..Length : bs = stats.block_size
    BY <1>1 DEF MkfsInv
  <2>2. bs \in Nat \ {0} /\ Length \in Nat /\ Length < 2^Width /\ 2^Width \in Nat
    BY <2>1, MkfsConstants, ConvertConstants DEF U64
  <2>3. PICK t \in Nat : t = stats.total_blocks /\ t * bs <= Length
    BY <1>1, <2>1, <2>2, DivFits DEF MkfsInv
  <2>4. PICK f \in Nat : f = stats.free_blocks /\ f <= t
    BY <1>1, <2>3 DEF MkfsInv
  <2>5. PICK total \in Nat, free \in Nat, used \in Nat :
          /\ total = t * bs /\ free = f * bs /\ used = (t - f) * bs
          /\ free + used = total
    <3>1. t - f \in Nat /\ t = f + (t - f)
      BY <2>4
    <3>2. \A u \in Nat : f * bs \in Nat /\ u * bs \in Nat /\ f * bs + u * bs = (f + u) * bs
      BY <2>2
    <3> QED
      BY <3>1, <3>2
  <2>6. total < 2^Width /\ free < 2^Width /\ used < 2^Width
    BY <2>2, <2>3, <2>5
  <2>7. /\ total % 2^Width = total /\ free % 2^Width = free /\ used % 2^Width = used
    BY <2>2, <2>6, ModFits
  <2>8. TotalSize(stats) = total /\ FreeSize(stats) = free /\ UsedSize(stats) = used
    BY <2>1, <2>3, <2>4, <2>5, <2>7 DEF TotalSize, FreeSize, UsedSize
  <2> QED
    BY <2>1, <2>3, <2>5, <2>8 DEF SizesAddUp
<1>2. MkfsInv => SizesAddUp
  BY <1>1 DEF SizesAddUp
<1> QED
  BY <1>2, MkfsInvariance, PTL

-----------------------------------------------------------------------------
(* Induction over numbers, and what FlattenSeq makes of any number of parts *)

\* Every set of natural numbers that is not empty has a least element.
LEMMA LeastNumber ==
  ASSUME NEW B \in SUBSET Nat, B # {}
  PROVE  \E n \in B : \A m \in B : n <= m
<1> DEFINE R == StrictSubsetOrdering(Nat)
           F == FiniteSubsetsOf(Nat)
           T == {0..n : n \in B}
<1>1. IsWellFoundedOn(R, F)
  BY FS_StrictSubsetOrderingWellFounded
<1>2. T \subseteq F
  <2>1. \A n \in B : IsFiniteSet(0..n) /\ 0..n \in SUBSET Nat
    BY FS_Interval
  <2> QED
    BY <2>1 DEF FiniteSubsetsOf
<1>3. T # {}
  OBVIOUS
<1> HIDE DEF R, F
<1>4. \E x \in T : \A y \in T : ~(<<y, x>> \in R)
  <2> HIDE DEF T
  <2> QED
    BY <1>1, <1>2, <1>3, WFMin
<1>5. PICK n \in B : \A m \in B : ~(<<0..m, 0..n>> \in R)
  BY <1>4
<1> HIDE DEF T
<1>6. ASSUME NEW m \in B, m < n PROVE <<0..m, 0..n>> \in R
  <2>1. 0..m \subseteq 0..n /\ n \in 0..n /\ n \notin 0..m
    BY <1>6
  <2>2. 0..m # 0..n
    BY <2>1
  <2> QED
    BY <2>1, <2>2 DEF StrictSubsetOrdering, R
<1>7. ASSUME NEW m \in B PROVE n <= m
  <2>1. ~(m < n)
    BY <1>5, <1>6
  <2> QED
    BY <2>1
<1> QED
  BY <1>7

\* A set with 0, and with every successor of its members, has all numbers.
LEMMA Induction ==
  ASSUME NEW S, 0 \in S, \A n \in Nat : n \in S => n + 1 \in S
  PROVE  \A n \in Nat : n \in S
<1> SUFFICES ASSUME Nat \ S # {} PROVE FALSE
  OBVIOUS
<1>1. PICK n \in Nat \ S : \A m \in Nat \ S : n <= m
  BY LeastNumber
<1>2. n # 0 /\ n - 1 \in Nat
  BY <1>1
<1>3. n - 1 \in S
  BY <1>1, <1>2
<1> QED
  BY <1>1, <1>2, <1>3

\* sums[i] is what the first i of n parts make, sequences over S.
AddsUp(sums, parts, n, S) ==
  /\ parts \in [1..n -> Seq(S)] /\ sums \in [0..n -> Seq(S)]
  /\ sums[0] = <<>> /\ \A i \in 1..n : sums[i] = sums[i - 1] \o parts[i]

\* As FlattenSeq counts: from the first part on.
Joins(sums, parts, n) ==
  \A i \in 1..n : sums[i] = IF i = 1 THEN parts[i] ELSE sums[i - 1] \o parts[i]

LEMMA SumsExist ==
  ASSUME NEW S, NEW n \in Nat, NEW parts \in [1..n -> Seq(S)]
  PROVE  \E sums \in [1..n -> Seq(S)] : Joins(sums, parts, n)
<1> DEFINE Done == {m \in Nat : m <= n => \E sums \in [1..m -> Seq(S)] : Joins(sums, parts, m)}
<1>1. 0 \in Done
  <2>1. [k \in 1..0 |-> <<>>] \in [1..0 -> Seq(S)] /\ Joins([k \in 1..0 |-> <<>>], parts, 0)
    BY DEF Joins
  <2> QED
    BY <2>1
<1>2. ASSUME NEW m \in Nat, m \in Done PROVE m + 1 \in Done
  <2> SUFFICES ASSUME m + 1 <= n
               PROVE  \E sums \in [1..m + 1 -> Seq(S)] : Joins(sums, parts, m + 1)
    OBVIOUS
  <2>1. PICK old \in [1..m -> Seq(S)] : Joins(old, parts, m)
    BY <1>2
  <2>2. PICK last \in Seq(S) :
          last = IF m + 1 = 1 THEN parts[m + 1] ELSE old[m] \o parts[m + 1]
    <3>1. parts[m + 1] \in Seq(S)
      OBVIOUS
    <3>2. CASE m = 0
      BY <3>1, <3>2
    <3>3. CASE m # 0
      <4>1. old[m] \in Seq(S)
        BY <3>3
      <4> QED
        BY <3>1, <3>3, <4>1, ConcatProperties
    <3> QED
      BY <3>2, <3>3
  <2> DEFINE new == [k \in 1..m + 1 |-> IF k <= m THEN old[k] ELSE last]
  <2>3. new \in [1..m + 1 -> Seq(S)]
    OBVIOUS
  <2>4. ASSUME NEW i \in 1..m + 1
        PROVE  new[i] = IF i = 1 THEN parts[i] ELSE new[i - 1] \o parts[i]
    <3>1. CASE i <= m
      <4>1. i \in 1..m /\ new[i] = old[i] /\ (i # 1 => new[i - 1] = old[i - 1])
        BY <3>1
      <4> HIDE DEF new
      <4> QED
        BY <2>1, <4>1 DEF Joins
    <3>2. CASE i = m + 1
      <4>1. new[i] = last /\ (m # 0 => new[i - 1] = old[m])
        BY <3>2
      <4> HIDE DEF new
      <4> QED
        BY <2>2, <3>2, <4>1
    <3> QED
      BY <3>1, <3>2
  <2> HIDE DEF new
  <2> QED
    BY <2>3, <2>4 DEF Joins
<1> HIDE DEF Done
<1>3. n \in Done
  BY <1>1, <1>2, Induction
<1> QED
  BY <1>3 DEF Done

\* FlattenSeq joins its parts one after the other.
LEMMA Flattened ==
  ASSUME NEW S, NEW n \in Nat, NEW parts \in [1..n -> Seq(S)]
  PROVE  \E sums : AddsUp(sums, parts, n, S) /\ FlattenSeq(parts) = sums[n]
<1>1. parts \in Seq(Seq(S)) /\ Len(parts) = n
  OBVIOUS
<1>2. CASE n = 0
  <2>1. parts = <<>>
    BY <1>1, <1>2
  <2>2. FlattenSeq(parts) = <<>>
    BY <1>1, <1>2, <2>1 DEF FlattenSeq
  <2> DEFINE sums == [k \in 0..n |-> <<>>]
  <2>3. sums \in [0..n -> Seq(S)] /\ sums[0] = <<>> /\ sums[n] = <<>>
    BY <1>2, EmptySeq
  <2>4. AddsUp(sums, parts, n, S)
    BY <1>2, <2>3 DEF AddsUp
  <2> QED
    BY <2>2, <2>3, <2>4
<1>3. CASE n # 0
  <2> DEFINE Body(f) == [i \in 1..n |-> IF i = 1 THEN parts[i] ELSE f[i - 1] \o parts[i]]
             flat == CHOOSE f : f = Body(f)
  <2>1. PICK some \in [1..n -> Seq(S)] : Joins(some, parts, n)
    BY SumsExist
  <2>2. some = Body(some)
    <3>1. \A i \in 1..n : some[i] = Body(some)[i]
      BY <2>1 DEF Joins
    <3>2. some = [i \in 1..n |-> some[i]] /\ Body(some) = [i \in 1..n |-> Body(some)[i]]
      OBVIOUS
    <3> HIDE DEF Body
    <3> QED
      BY <3>1, <3>2
  <2>3. flat = Body(flat)
    BY <2>2, Zenon
  <2>4. FlattenSeq(parts) = flat[n]
    BY <1>1, <1>3 DEF FlattenSeq
  <2> HIDE DEF flat, Body
  <2>5. ASSUME NEW i \in 1..n
        PROVE  flat[i] = IF i = 1 THEN parts[i] ELSE flat[i - 1] \o parts[i]
    BY <2>3 DEF Body
  <2> DEFINE Done == {m \in Nat : m \in 1..n => flat[m] \in Seq(S)}
  <2>6. ASSUME NEW m \in Nat, m \in Done PROVE m + 1 \in Done
    <3> SUFFICES ASSUME m + 1 \in 1..n PROVE flat[m + 1] \in Seq(S)
      OBVIOUS
    <3>1. parts[m + 1] \in Seq(S)
      OBVIOUS
    <3>2. CASE m = 0
      BY <2>5, <3>1, <3>2
    <3>3. CASE m # 0
      <4>1. flat[m] \in Seq(S)
        BY <2>6, <3>3
      <4>2. flat[m + 1] = flat[m] \o parts[m + 1]
        <5>1. PICK k \in 1..n : k = m + 1 /\ k # 1 /\ k - 1 = m
          BY <3>3
        <5>2. flat[k] = flat[k - 1] \o parts[k]
          BY <2>5, <5>1
        <5> QED
          BY <5>1, <5>2
      <4> QED
        BY <3>1, <4>1, <4>2, ConcatProperties
    <3> QED
      BY <3>2, <3>3
  <2>7. 0 \in Done
    OBVIOUS
  <2> HIDE DEF Done
  <2>8. \A m \in Nat : m \in Done
    BY <2>6, <2>7, Induction
  <2>9. \A m \in 1..n : flat[m] \in Seq(S)
    BY <2>8 DEF Done
  <2> DEFINE sums == [k \in 0..n |-> IF k = 0 THEN <<>> ELSE flat[k]]
  <2>10. sums \in [0..n -> Seq(S)]
    BY <2>9, EmptySeq
  <2>11. ASSUME NEW i \in 1..n PROVE sums[i] = sums[i - 1] \o parts[i]
    <3>1. CASE i = 1
      <4>1. sums[i] = parts[i] /\ sums[i - 1] = <<>>
        BY <2>5, <3>1
      <4>2. <<>> \o parts[i] = parts[i]
        BY ConcatEmptySeq
      <4> QED
        BY <4>1, <4>2
    <3>2. CASE i # 1
      <4>1. sums[i] = flat[i] /\ sums[i - 1] = flat[i - 1]
        BY <3>2
      <4> QED
        BY <2>5, <3>2, <4>1
    <3> QED
      BY <3>1, <3>2
  <2>12. sums[0] = <<>> /\ FlattenSeq(parts) = sums[n]
    BY <1>3, <2>4
  <2> HIDE DEF sums
  <2> QED
    BY <2>10, <2>11, <2>12 DEF AddsUp
<1> QED
  BY <1>2, <1>3

\* What is joined first stays at the beginning.
Begins(s, t) == Len(s) <= Len(t) /\ \A k \in 1..Len(s) : t[k] = s[k]

LEMMA SumsGrow ==
  ASSUME NEW S, NEW n \in Nat, NEW parts, NEW sums, AddsUp(sums, parts, n, S), NEW i \in 0..n
  PROVE  Begins(sums[i], sums[n])
<1>0. parts \in [1..n -> Seq(S)] /\ sums \in [0..n -> Seq(S)]
  BY DEF AddsUp
<1> DEFINE Done == {m \in Nat : m \in i..n => Begins(sums[i], sums[m])}
<1>1. Begins(sums[i], sums[i])
  BY DEF Begins
<1>2. 0 \in Done
  BY <1>1
<1>3. ASSUME NEW m \in Nat, m \in Done PROVE m + 1 \in Done
  <2> SUFFICES ASSUME m + 1 \in i..n, m + 1 # i PROVE Begins(sums[i], sums[m + 1])
    BY <1>1
  <2>1. PICK a \in Seq(S), b \in Seq(S), p \in Seq(S), c \in Seq(S) :
          a = sums[i] /\ b = sums[m] /\ p = parts[m + 1] /\ c = sums[m + 1]
    BY <1>0
  <2>2. Begins(a, b)
    BY <1>3, <2>1
  <2>3. c = b \o p
    <3>1. PICK k \in 1..n : k = m + 1 /\ k - 1 = m
      OBVIOUS
    <3> QED
      BY <2>1, <3>1 DEF AddsUp
  <2>4. IsJoined(c, b, p)
    BY <2>3, Joined
  <2>5. Len(a) \in Nat /\ Len(b) \in Nat /\ Len(p) \in Nat
    OBVIOUS
  <2>6. Begins(a, c)
    BY <2>2, <2>4, <2>5 DEF Begins, IsJoined
  <2> QED
    BY <2>1, <2>6
<1> HIDE DEF Done
<1>4. n \in Done
  BY <1>2, <1>3, Induction
<1> QED
  BY <1>4 DEF Done

\* The sums of the first parts are the first sums.
Same(s, t, m) == \A k \in 1..m : s[k] = t[k]

LEMMA SumsAgree ==
  ASSUME NEW S, NEW n \in Nat, NEW parts, NEW sums, AddsUp(sums, parts, n, S),
         NEW m \in 0..n, NEW less, NEW few, AddsUp(few, less, m, S), Same(less, parts, m)
  PROVE  few[m] = sums[m]
<1> DEFINE Done == {i \in Nat : i \in 0..m => few[i] = sums[i]}
<1>1. 0 \in Done
  BY DEF AddsUp
<1>2. ASSUME NEW i \in Nat, i \in Done PROVE i + 1 \in Done
  <2> SUFFICES ASSUME i + 1 \in 0..m PROVE few[i + 1] = sums[i + 1]
    OBVIOUS
  <2>1. PICK k \in 1..m : k = i + 1 /\ k - 1 = i /\ k \in 1..n
    OBVIOUS
  <2>2. few[k] = few[k - 1] \o less[k] /\ sums[k] = sums[k - 1] \o parts[k]
    BY <2>1 DEF AddsUp
  <2>3. few[k - 1] = sums[k - 1]
    BY <1>2, <2>1
  <2>4. less[k] = parts[k]
    BY <2>1 DEF Same
  <2> QED
    BY <2>1, <2>2, <2>3, <2>4
<1> HIDE DEF Done
<1>3. \A i \in Nat : i \in Done
  BY <1>1, <1>2, Induction
<1> QED
  BY <1>3 DEF Done

\* One element more.
LEMMA PrefixAppend ==
  ASSUME NEW S, NEW s \in Seq(S), NEW i \in Nat, i + 1 <= Len(s)
  PROVE  SubSeq(s, 1, i + 1) = SubSeq(s, 1, i) \o <<s[i + 1]>>
<1>1. PICK x \in S : x = s[i + 1]
  OBVIOUS
<1>2. PICK one \in Seq(S) : one = <<x>> /\ Len(one) = 1 /\ one[1] = x
  BY One
<1> DEFINE a == SubSeq(s, 1, i)
           b == SubSeq(s, 1, i + 1)
           c == a \o one
<1>3. a \in Seq(S) /\ Len(a) = i /\ \A k \in 1..i : a[k] = s[k]
  OBVIOUS
<1>4. b \in Seq(S) /\ Len(b) = i + 1 /\ \A k \in 1..i + 1 : b[k] = s[k]
  OBVIOUS
<1> HIDE DEF a, b
<1>5. c \in Seq(S) /\ IsJoined(c, a, one)
  BY <1>3, Joined
<1> HIDE DEF c
<1>6. Len(c) = i + 1 /\ \A k \in 1..i + 1 : c[k] = b[k]
  BY <1>1, <1>2, <1>3, <1>4, <1>5 DEF IsJoined
<1>7. b = c
  BY <1>4, <1>5, <1>6, SameSeq
<1> QED
  BY <1>1, <1>2, <1>7 DEF a, b, c

-----------------------------------------------------------------------------
(* Labels *)

\* The bytes of a character, and what a byte of a field is read as.
Enc(c) == IF c = "e'" THEN <<"lead", "tail">> ELSE <<c>>

Dec(b, k) ==
  CASE b[k] = "lead" -> IF k < Len(b) /\ b[k + 1] = "tail" THEN <<"e'">> ELSE <<"U+FFFD">>
    [] b[k] = "tail" -> <<>>
    [] OTHER -> <<b[k]>>

\* Characters that a volume name keeps: no NUL, no byte of a longer character.
Plain(C) == {"lead", "tail", "NUL"} \cap C = {}

\* bytes[i] are the bytes of the first i of l's n characters.
AreBytes(bytes, l, n, C) ==
  AddsUp(bytes, [k \in 1..n |-> Enc(l[k])], n, C \cup {"lead", "tail"})

LEMMA EncOK ==
  ASSUME NEW C, NEW c \in C
  PROVE  Enc(c) \in Seq(C \cup {"lead", "tail"})
<1> DEFINE B == C \cup {"lead", "tail"}
<1>1. CASE c = "e'"
  <2>1. PICK x \in B, y \in B : x = "lead" /\ y = "tail"
    OBVIOUS
  <2>2. <<x, y>> \in Seq(B)
    BY Two
  <2> QED
    BY <1>1, <2>1, <2>2 DEF Enc
<1>2. CASE c # "e'"
  <2>1. c \in B
    OBVIOUS
  <2>2. <<c>> \in Seq(B)
    BY <2>1, One
  <2> QED
    BY <1>2, <2>2 DEF Enc
<1> QED
  BY <1>1, <1>2

LEMMA BytesAre ==
  ASSUME NEW C, NEW l \in Seq(C), NEW n \in Nat, n = Len(l)
  PROVE  \E bytes : AreBytes(bytes, l, n, C) /\ Bytes(l) = bytes[n]
<1> DEFINE B == C \cup {"lead", "tail"}
           parts == [k \in 1..n |-> Enc(l[k])]
<1>1. \A k \in 1..n : l[k] \in C
  OBVIOUS
<1>2. parts \in [1..n -> Seq(B)]
  BY <1>1, EncOK
<1>3. Bytes(l) = FlattenSeq(parts)
  <2>1. DOMAIN l = 1..n
    OBVIOUS
  <2> QED
    BY <2>1 DEF Bytes, Enc
<1> HIDE DEF parts, B
<1>4. PICK bytes : AddsUp(bytes, parts, n, B) /\ FlattenSeq(parts) = bytes[n]
  BY <1>2, Flattened
<1> QED
  BY <1>3, <1>4 DEF AreBytes, parts, B

\* Where the bytes of the i-th character x are: s ends with them, t goes on.
IsNext(x, s, t, p) ==
  IF x = "e'"
  THEN /\ Len(s) = p + 2 /\ p + 2 <= Len(t)
       /\ t[p + 1] = "lead" /\ t[p + 2] = "tail"
  ELSE /\ Len(s) = p + 1 /\ p + 1 <= Len(t)
       /\ t[p + 1] = x

LEMMA ByteAt ==
  ASSUME NEW C, NEW l \in Seq(C), NEW n \in Nat, n = Len(l),
         NEW bytes, AreBytes(bytes, l, n, C),
         NEW i \in 1..n, NEW p \in Nat, p = Len(bytes[i - 1])
  PROVE  IsNext(l[i], bytes[i], bytes[n], p)
<1> DEFINE B == C \cup {"lead", "tail"}
           parts == [k \in 1..n |-> Enc(l[k])]
<1>1. parts \in [1..n -> Seq(B)]
  <2>1. \A k \in 1..n : l[k] \in C
    OBVIOUS
  <2> QED
    BY <2>1, EncOK
<1>2. AddsUp(bytes, parts, n, B)
  BY DEF AreBytes
<1>3. parts[i] = Enc(l[i])
  OBVIOUS
<1>4. PICK c \in C : c = l[i]
  OBVIOUS
<1>5. bytes \in [0..n -> Seq(B)]
  BY <1>2 DEF AddsUp
<1>e. /\ c = "e'" => parts[i] = <<"lead", "tail">>
      /\ c # "e'" => parts[i] = <<c>>
  BY <1>3, <1>4 DEF Enc
<1>b. "lead" \in B /\ "tail" \in B /\ c \in B
  OBVIOUS
<1> HIDE DEF parts, B
<1>6. PICK a \in Seq(B), q \in Seq(B), s \in Seq(B), t \in Seq(B) :
        a = bytes[i - 1] /\ q = parts[i] /\ s = bytes[i] /\ t = bytes[n]
  <2>1. i - 1 \in 0..n /\ i \in 0..n /\ n \in 0..n
    OBVIOUS
  <2>2. bytes[i - 1] \in Seq(B) /\ bytes[i] \in Seq(B) /\ bytes[n] \in Seq(B)
    BY <1>5, <2>1
  <2>3. parts[i] \in Seq(B)
    BY <1>1
  <2> QED
    BY <2>2, <2>3
<1>7. s = a \o q
  BY <1>2, <1>6 DEF AddsUp
<1>8. IsJoined(s, a, q)
  BY <1>7, Joined
<1>9. Begins(s, t)
  <2>1. i \in 0..n
    OBVIOUS
  <2>2. Begins(bytes[i], bytes[n])
    BY <1>2, <2>1, SumsGrow
  <2> QED
    BY <1>6, <2>2
<1>10. Len(a) = p
  BY <1>6
<1>11. CASE c = "e'"
  <2>1. PICK x \in B, y \in B : x = "lead" /\ y = "tail"
    BY <1>b
  <2>0. q = <<x, y>>
    BY <1>e, <1>6, <1>11, <2>1
  <2>2. Len(q) = 2 /\ q[1] = x /\ q[2] = y
    BY <2>0, Two
  <2>3. Len(s) = p + 2 /\ s[p + 1] = x /\ s[p + 2] = y
    BY <1>8, <1>10, <2>2 DEF IsJoined
  <2>4. p + 2 <= Len(t) /\ t[p + 1] = x /\ t[p + 2] = y
    <3>1. p + 1 \in 1..Len(s) /\ p + 2 \in 1..Len(s) /\ Len(t) \in Nat
      BY <2>3
    <3> QED
      BY <1>9, <2>3, <3>1 DEF Begins
  <2> QED
    BY <1>4, <1>6, <1>11, <2>1, <2>3, <2>4 DEF IsNext
<1>12. CASE c # "e'"
  <2>1. q = <<c>> /\ Len(q) = 1 /\ q[1] = c
    BY <1>b, <1>e, <1>6, <1>12, One
  <2>2. Len(s) = p + 1 /\ s[p + 1] = c
    BY <1>8, <1>10, <2>1 DEF IsJoined
  <2>3. p + 1 <= Len(t) /\ t[p + 1] = c
    BY <1>9, <2>2 DEF Begins
  <2> QED
    BY <1>4, <1>6, <1>12, <2>2, <2>3 DEF IsNext
<1> QED
  BY <1>11, <1>12

\* text[k] is what the first k bytes of c are read as.
AreRead(text, c, p, T) == AddsUp(text, [k \in 1..p |-> Dec(c, k)], p, T)

LEMMA ReadAre ==
  ASSUME NEW B, NEW c \in Seq(B), NEW p \in Nat, p = Len(c)
  PROVE  \E text : AreRead(text, c, p, B \cup {"e'", "U+FFFD"}) /\ Lossy(c) = text[p]
<1> DEFINE T == B \cup {"e'", "U+FFFD"}
           parts == [k \in 1..p |-> Dec(c, k)]
<1>1. ASSUME NEW k \in 1..p PROVE Dec(c, k) \in Seq(T)
  <2>1. PICK x \in T : x = c[k]
    OBVIOUS
  <2>2. PICK y \in T, z \in T : y = "e'" /\ z = "U+FFFD"
    OBVIOUS
  <2> HIDE DEF T
  <2>3. <<x>> \in Seq(T) /\ <<y>> \in Seq(T) /\ <<z>> \in Seq(T) /\ <<>> \in Seq(T)
    BY One, EmptySeq
  <2>4. Dec(c, k) \in {<<x>>, <<y>>, <<z>>, <<>>}
    BY <2>1, <2>2 DEF Dec
  <2> QED
    BY <2>3, <2>4
<1>2. parts \in [1..p -> Seq(T)]
  BY <1>1
<1>3. Lossy(c) = FlattenSeq(parts)
  <2>1. DOMAIN c = 1..p
    OBVIOUS
  <2> QED
    BY <2>1 DEF Lossy, Dec
<1> HIDE DEF parts, T
<1>4. PICK text : AddsUp(text, parts, p, T) /\ FlattenSeq(parts) = text[p]
  BY <1>2, Flattened
<1> QED
  BY <1>3, <1>4 DEF AreRead, parts, T

\* c is the beginning of b.
IsCut(c, b) == Len(c) <= Len(b) /\ \A k \in 1..Len(c) : c[k] = b[k]

\* The characters whose bytes are there are read as they were written.
LEMMA ReadBack ==
  ASSUME NEW C, Plain(C), NEW l \in Seq(C), NEW n \in Nat, n = Len(l),
         NEW bytes, AreBytes(bytes, l, n, C),
         NEW c \in Seq(C \cup {"lead", "tail"}), NEW p \in Nat, p = Len(c), IsCut(c, bytes[n]),
         NEW T, NEW text, AreRead(text, c, p, T),
         NEW m \in 0..n, Len(bytes[m]) <= p
  PROVE  text[Len(bytes[m])] = SubSeq(l, 1, m)
<1> DEFINE Done == {i \in Nat : i \in 0..n /\ Len(bytes[i]) <= p
                                  => text[Len(bytes[i])] = SubSeq(l, 1, i)}
<1>0. /\ bytes \in [0..n -> Seq(C \cup {"lead", "tail"})] /\ text \in [0..p -> Seq(T)]
  BY DEF AreBytes, AreRead, AddsUp
<1>1. 0 \in Done
  <2>1. bytes[0] = <<>> /\ Len(bytes[0]) = 0
    BY DEF AreBytes, AddsUp
  <2>2. text[0] = <<>>
    BY DEF AreRead, AddsUp
  <2>3. SubSeq(l, 1, 0) = <<>>
    BY SubSeqEmpty
  <2> QED
    BY <2>1, <2>2, <2>3
<1>2. ASSUME NEW k \in 1..p PROVE text[k] = text[k - 1] \o Dec(c, k)
  BY DEF AreRead, AddsUp
<1>3. \A k \in 1..p : c[k] = bytes[n][k]
  BY DEF IsCut
<1>4. ASSUME NEW i \in Nat, i \in Done PROVE i + 1 \in Done
  <2> SUFFICES ASSUME i + 1 \in 0..n, Len(bytes[i + 1]) <= p
               PROVE  text[Len(bytes[i + 1])] = SubSeq(l, 1, i + 1)
    OBVIOUS
  <2>1. PICK j \in 1..n : j = i + 1 /\ j - 1 = i
    OBVIOUS
  <2>2. PICK q \in Nat : q = Len(bytes[j - 1])
    <3>1. i \in 0..n
      BY <2>1
    <3>2. bytes[i] \in Seq(C \cup {"lead", "tail"})
      BY <1>0, <3>1
    <3>3. Len(bytes[i]) \in Nat
      BY <3>2
    <3> QED
      BY <2>1, <3>3
  <2>3. PICK x \in C : x = l[j]
    OBVIOUS
  <2>4. q <= p => text[q] = SubSeq(l, 1, i)
    BY <1>4, <2>1, <2>2
  <2>n. IsNext(x, bytes[j], bytes[n], q)
    <3>1. IsNext(l[j], bytes[j], bytes[n], q)
      BY <2>2, ByteAt
    <3> QED
      BY <2>3, <3>1
  <2>5. SubSeq(l, 1, j) = SubSeq(l, 1, i) \o <<x>>
    BY <2>1, <2>3, PrefixAppend
  <2>6. CASE x = "e'"
    <3>1. /\ Len(bytes[j]) = q + 2 /\ bytes[n][q + 1] = "lead" /\ bytes[n][q + 2] = "tail"
      BY <2>6, <2>n DEF IsNext
    <3>2. q + 1 \in 1..p /\ q + 2 \in 1..p /\ q < p
      BY <2>1, <3>1
    <3>3. c[q + 1] = "lead" /\ c[q + 2] = "tail"
      BY <1>3, <3>1, <3>2
    <3>4. Dec(c, q + 1) = <<"e'">>
      BY <3>2, <3>3 DEF Dec
    <3>5. Dec(c, q + 2) = <<>>
      BY <3>3 DEF Dec
    <3>6. text[q + 1] = text[q] \o <<"e'">>
      <4>1. PICK k \in 1..p : k = q + 1 /\ k - 1 = q
        BY <3>2
      <4> QED
        BY <1>2, <3>4, <4>1
    <3>7. text[q + 2] = text[q + 1] \o <<>>
      <4>1. PICK k \in 1..p : k = q + 2 /\ k - 1 = q + 1
        BY <3>2
      <4> QED
        BY <1>2, <3>5, <4>1
    <3>8. text[q + 1] \in Seq(T)
      <4>1. q + 1 \in 0..p
        BY <3>2
      <4> QED
        BY <1>0, <4>1
    <3>9. text[q + 2] = text[q + 1]
      BY <3>7, <3>8, ConcatEmptySeq
    <3> QED
      BY <2>1, <2>4, <2>5, <2>6, <3>1, <3>2, <3>6, <3>9
  <2>7. CASE x # "e'"
    <3>1. Len(bytes[j]) = q + 1 /\ bytes[n][q + 1] = x
      BY <2>7, <2>n DEF IsNext
    <3>2. q + 1 \in 1..p /\ q < p
      BY <2>1, <3>1
    <3>3. c[q + 1] = x /\ x \notin {"lead", "tail"}
      BY <1>3, <3>1, <3>2 DEF Plain
    <3>4. Dec(c, q + 1) = <<x>>
      BY <3>3 DEF Dec
    <3>5. text[q + 1] = text[q] \o <<x>>
      <4>1. PICK k \in 1..p : k = q + 1 /\ k - 1 = q
        BY <3>2
      <4> QED
        BY <1>2, <3>4, <4>1
    <3> QED
      BY <2>1, <2>4, <2>5, <3>1, <3>2, <3>5
  <2> QED
    BY <2>6, <2>7
<1> HIDE DEF Done
<1>5. \A i \in Nat : i \in Done
  BY <1>1, <1>4, Induction
<1> QED
  BY <1>5 DEF Done

LEMMA BytesOfPrefix ==
  ASSUME NEW C, NEW l \in Seq(C), NEW n \in Nat, n = Len(l),
         NEW bytes, AreBytes(bytes, l, n, C),
         NEW i \in 0..n
  PROVE  Bytes(SubSeq(l, 1, i)) = bytes[i]
<1> DEFINE B == C \cup {"lead", "tail"}
           s == SubSeq(l, 1, i)
           parts == [k \in 1..n |-> Enc(l[k])]
           less == [k \in 1..i |-> Enc(s[k])]
<1>1. s \in Seq(C) /\ Len(s) = i /\ \A k \in 1..i : s[k] = l[k]
  OBVIOUS
<1> HIDE DEF s
<1>2. PICK few : AreBytes(few, s, i, C) /\ Bytes(s) = few[i]
  <2>1. i \in Nat
    OBVIOUS
  <2> QED
    BY <1>1, <2>1, BytesAre
<1>5. Same(less, parts, i)
  BY <1>1 DEF Same
<1>6. AddsUp(bytes, parts, n, B) /\ AddsUp(few, less, i, B)
  BY <1>2 DEF AreBytes
<1> HIDE DEF parts, less, B
<1>8. few[i] = bytes[i]
  BY <1>5, <1>6, SumsAgree
<1> QED
  BY <1>2, <1>8 DEF s

\* The field of a superblock, and what LabelComesBack says of a label.
FieldOf(l) ==
  [k \in 1..NameLen |-> IF k \in DOMAIN Bytes(l) THEN Bytes(l)[k] ELSE "NUL"]

IsKept(l, name) ==
  IF Len(Bytes(l)) <= NameLen THEN name = l
  ELSE \E k \in DOMAIN l :
         /\ name \in {SubSeq(l, 1, k), Append(SubSeq(l, 1, k - 1), "U+FFFD")}
         /\ Len(Bytes(SubSeq(l, 1, k))) \in NameLen..NameLen + 1

\* What is read of a field are the bytes that fit into it.
LEMMA FieldCut ==
  ASSUME NEW B, "NUL" \notin B, NEW b \in Seq(B), NEW l, b = Bytes(l),
         NEW p \in Nat, p = IF Len(b) <= NameLen THEN Len(b) ELSE NameLen
  PROVE  \E c \in Seq(B) : Len(c) = p /\ IsCut(c, b) /\ VolumeName(FieldOf(l)) = Lossy(c)
<1> DEFINE field == FieldOf(l)
           nul == {k \in DOMAIN field : field[k] = "NUL"}
           last == IF nul = {} THEN NameLen ELSE Min(nul) - 1
           c == SubSeq(field, 1, last)
<1>1. PICK len \in Nat : len = Len(b) /\ DOMAIN b = 1..len
  OBVIOUS
<1>2. NameLen \in Nat \ {0}
  BY MkfsConstants
<1>3. DOMAIN field = 1..NameLen
  BY DEF FieldOf
<1>4. \A k \in 1..NameLen : field[k] = IF k \in 1..len THEN b[k] ELSE "NUL"
  BY <1>1 DEF FieldOf
<1>5. \A k \in 1..len : b[k] \in B /\ b[k] # "NUL"
  BY <1>1
<1>6. VolumeName(FieldOf(l)) = Lossy(c)
  BY DEF VolumeName
<1> HIDE DEF field
<1>7. nul = {k \in 1..NameLen : k > len}
  BY <1>3, <1>4, <1>5
<1>8. last = p
  <2>1. CASE len >= NameLen
    <3>1. nul = {}
      BY <1>2, <1>7, <2>1
    <3> QED
      BY <1>1, <1>2, <2>1, <3>1
  <2>2. CASE len < NameLen
    <3>1. len + 1 \in nul /\ \A k \in nul : k \in Nat /\ len + 1 <= k
      BY <1>2, <1>7, <2>2
    <3> HIDE DEF nul
    <3>2. Min(nul) = len + 1
      BY <3>1 DEF Min
    <3> QED
      BY <1>1, <1>2, <2>2, <3>1, <3>2
  <2> QED
    BY <1>2, <2>1, <2>2
<1> HIDE DEF last, nul
<1>9. p <= len /\ p <= NameLen
  BY <1>1, <1>2
<1>10. \A k \in 1..p : field[k] = b[k] /\ field[k] \in B
  BY <1>2, <1>4, <1>5, <1>9
<1>11. /\ c \in Seq(B) /\ Len(c) = IF 1 <= p THEN p - 1 + 1 ELSE 0
       /\ \A k \in 1..p - 1 + 1 : c[k] = field[1 + k - 1]
  BY <1>8, <1>10, SubSeqProperties
<1>12. Len(c) = p /\ \A k \in 1..p : c[k] = field[k]
  BY <1>11
<1> HIDE DEF c
<1>13. IsCut(c, b)
  BY <1>1, <1>9, <1>10, <1>12 DEF IsCut
<1> QED
  BY <1>6, <1>11, <1>12, <1>13

\* A label that fits is read back whole; of a longer one the characters that
\* fit, the last of them perhaps cut in two.
LEMMA LabelKept ==
  ASSUME NEW C, Plain(C), NEW l \in Seq(C)
  PROVE  IsKept(l, VolumeName(FieldOf(l)))
<1> DEFINE B == C \cup {"lead", "tail"}
           T == B \cup {"e'", "U+FFFD"}
<1>1. PICK n \in Nat : n = Len(l)
  OBVIOUS
<1>2. PICK bytes : AreBytes(bytes, l, n, C) /\ Bytes(l) = bytes[n]
  BY <1>1, BytesAre
<1>t. bytes \in [0..n -> Seq(B)]
  BY <1>2 DEF AreBytes, AddsUp
<1>3. PICK b \in Seq(B) : b = bytes[n]
  BY <1>t
<1>4. NameLen \in Nat \ {0}
  BY MkfsConstants
<1>5. PICK p \in Nat : p = IF Len(b) <= NameLen THEN Len(b) ELSE NameLen
  BY <1>4
<1>6. "NUL" \notin B
  BY DEF Plain
<1> HIDE DEF T
<1>7. PICK c \in Seq(B) : Len(c) = p /\ IsCut(c, b) /\ VolumeName(FieldOf(l)) = Lossy(c)
  <2> HIDE DEF B
  <2> QED
    BY <1>2, <1>3, <1>5, <1>6, FieldCut
<1>8. PICK text : AreRead(text, c, p, T) /\ Lossy(c) = text[p]
  <2> HIDE DEF B
  <2> QED
    BY <1>7, ReadAre DEF T
<1>9. ASSUME NEW m \in 0..n, Len(bytes[m]) <= p
      PROVE  text[Len(bytes[m])] = SubSeq(l, 1, m)
  <2>1. IsCut(c, bytes[n]) /\ p = Len(c)
    BY <1>3, <1>7
  <2>2. c \in Seq(C \cup {"lead", "tail"})
    OBVIOUS
  <2>3. AreBytes(bytes, l, n, C) /\ AreRead(text, c, p, T)
    BY <1>2, <1>8
  <2> HIDE DEF B
  <2> QED
    BY <1>1, <1>9, <2>1, <2>2, <2>3, ReadBack
<1>10. CASE Len(b) <= NameLen
  <2>1. text[Len(bytes[n])] = SubSeq(l, 1, n)
    BY <1>3, <1>5, <1>9, <1>10
  <2>2. SubSeq(l, 1, n) = l
    BY <1>1
  <2>3. text[p] = l
    BY <1>3, <1>5, <1>10, <2>1, <2>2
  <2> QED
    BY <1>2, <1>3, <1>7, <1>8, <1>10, <2>3 DEF IsKept
<1>11. CASE Len(b) > NameLen
  <2>1. p = NameLen /\ p > 0 /\ p < Len(b)
    BY <1>4, <1>5, <1>11
  <2> DEFINE Full == {i \in 0..n : p <= Len(bytes[i])}
  <2>2. n \in Full /\ Full \subseteq Nat
    BY <1>3, <2>1
  <2>3. PICK i \in Full : \A j \in Full : i <= j
    BY <2>2, LeastNumber
  <2>4. bytes[0] = <<>> /\ Len(bytes[0]) = 0
    BY <1>2 DEF AreBytes, AddsUp
  <2>5. i # 0
    BY <2>1, <2>4
  <2>6. PICK h \in 0..n : h = i - 1 /\ i = h + 1
    BY <2>5
  <2>7. PICK q \in Nat : q = Len(bytes[h]) /\ q < p
    <3>1. h \notin Full
      BY <2>3, <2>6
    <3>2. bytes[h] \in Seq(B)
      BY <1>t
    <3> QED
      BY <3>1, <3>2
  <2>8. IsNext(l[i], bytes[i], bytes[n], q)
    <3>1. i \in 1..n /\ i - 1 = h
      BY <2>6
    <3> QED
      BY <1>1, <1>2, <2>7, <3>1, ByteAt
  <2>9. Bytes(SubSeq(l, 1, i)) = bytes[i]
    BY <1>1, <1>2, BytesOfPrefix
  <2>10. i \in DOMAIN l
    BY <1>1, <2>5
  <2>11. p <= Len(bytes[i]) /\ i \in 0..n
    OBVIOUS
  <2> HIDE DEF Full
  <2>12. CASE Len(bytes[i]) = p
    <3>1. text[p] = SubSeq(l, 1, i)
      BY <1>9, <2>11, <2>12
    <3>2. Len(Bytes(SubSeq(l, 1, i))) \in NameLen..NameLen + 1
      BY <1>4, <2>1, <2>9, <2>12
    <3>3. VolumeName(FieldOf(l)) = SubSeq(l, 1, i) /\ ~(Len(Bytes(l)) <= NameLen)
      BY <1>2, <1>3, <1>4, <1>7, <1>8, <1>11, <3>1
    <3> QED
      BY <2>10, <3>2, <3>3 DEF IsKept
  <2>13. CASE Len(bytes[i]) # p
    <3>1. /\ Len(bytes[i]) = p + 1 /\ q + 1 = p /\ b[p] = "lead"
      <4>1. IsNext(l[i], bytes[i], b, q)
        BY <1>3, <2>8
      <4>2. Len(bytes[i]) = p + 1 /\ q + 1 = p /\ l[i] = "e'"
        BY <2>7, <2>11, <2>13, <4>1 DEF IsNext
      <4> QED
        BY <4>1, <4>2 DEF IsNext
    <3>2. text[q] = SubSeq(l, 1, h)
      BY <1>9, <2>7
    <3>3. p \in 1..p /\ c[p] = "lead"
      BY <1>7, <2>1, <3>1 DEF IsCut
    <3>4. Dec(c, p) = <<"U+FFFD">>
      BY <1>7, <3>3 DEF Dec
    <3>5. text[p] = text[q] \o <<"U+FFFD">>
      <4>1. text[p] = text[p - 1] \o Dec(c, p)
        BY <1>8, <3>3 DEF AreRead, AddsUp
      <4>2. p - 1 = q
        BY <3>1
      <4> QED
        BY <3>4, <4>1, <4>2
    <3>6. text[p] = Append(SubSeq(l, 1, h), "U+FFFD")
      <4>1. PICK s \in Seq(T), x \in T : s = text[q] /\ x = "U+FFFD"
        <5>1. q \in 0..p /\ "U+FFFD" \in T
          BY <2>7 DEF T
        <5>2. text \in [0..p -> Seq(T)]
          BY <1>8 DEF AreRead, AddsUp
        <5> QED
          BY <5>1, <5>2
      <4>2. Append(s, x) = s \o <<x>>
        BY AppendIsConcat
      <4> QED
        BY <3>2, <3>5, <4>1, <4>2
    <3>7. Len(Bytes(SubSeq(l, 1, i))) \in NameLen..NameLen + 1
      BY <1>4, <2>1, <2>9, <3>1
    <3>8. /\ VolumeName(FieldOf(l)) = Append(SubSeq(l, 1, i - 1), "U+FFFD")
          /\ ~(Len(Bytes(l)) <= NameLen)
      BY <1>2, <1>3, <1>4, <1>7, <1>8, <1>11, <2>6, <3>6
    <3> QED
      BY <2>10, <3>7, <3>8 DEF IsKept
  <2> QED
    BY <2>12, <2>13
<1> QED
  BY <1>4, <1>10, <1>11

\* The label the program asked for; without one lwext4 writes none.
AskedLabel == IF options.label = None THEN <<>> ELSE options.label

\* Once a filesystem was made its label has no NUL, as mkfs would have panicked,
\* and no option changes any more; stat read the field that was written.
LabelInv ==
  /\ options.label \in Labels \cup {None}
  /\ result = "Ok" => options.label = None \/ "NUL" \notin Range(options.label)
  /\ stats # None => result = "Ok" /\ stats.volume_name = VolumeName(FieldOf(AskedLabel))

\* The characters of the label the program asked for.
LEMMA AskedLabelOK ==
  ASSUME LabelInv, result = "Ok"
  PROVE  \E C : Plain(C) /\ AskedLabel \in Seq(C)
<1>1. CASE options.label = None
  <2>1. Plain({}) /\ <<>> \in Seq({})
    BY EmptySeq DEF Plain
  <2> QED
    BY <1>1, <2>1 DEF AskedLabel
<1>2. CASE options.label # None
  <2>1. PICK l \in Labels : l = options.label
    BY <1>2 DEF LabelInv
  <2>2. "NUL" \notin Range(l) /\ {"lead", "tail"} \cap Range(l) = {}
    BY <1>2, <2>1, LabelConstants DEF LabelInv
  <2>3. l \in Seq(UNION {Range(k) : k \in Labels})
    BY LabelConstants
  <2>4. l \in [1..Len(l) -> Range(l)] /\ Len(l) \in Nat
    <3> DEFINE S == UNION {Range(k) : k \in Labels}
    <3> HIDE DEF S
    <3>1. l \in Seq(S)
      BY <2>3 DEF S
    <3>2. l \in [1..Len(l) -> S] /\ Len(l) \in Nat
      BY <3>1
    <3> QED
      BY <3>2 DEF Range
  <2>5. l \in Seq(Range(l))
    BY <2>4
  <2>6. Plain(Range(l))
    BY <2>2 DEF Plain
  <2> QED
    BY <1>2, <2>1, <2>5, <2>6 DEF AskedLabel
<1> QED
  BY <1>1, <1>2

\* mkfs writes the bytes of the label that fit, and NULs after them.
LEMMA LabelWritten ==
  ASSUME MkfsInv, result = "Ok"
  PROVE  image.label = FieldOf(AskedLabel)
<1>1. Bytes(<<>>) = <<>>
  <2>1. PICK bytes : AreBytes(bytes, <<>>, 0, {}) /\ Bytes(<<>>) = bytes[0]
    <3>1. <<>> \in Seq({}) /\ Len(<<>>) = 0
      OBVIOUS
    <3> QED
      BY <3>1, BytesAre
  <2> QED
    BY <2>1 DEF AreBytes, AddsUp
<1>2. Info(options).label = Bytes(AskedLabel)
  BY <1>1 DEF Info, AskedLabel
<1>3. image = Superblock(Info(options), FsTypeToRaw[options.fs_type])
  BY DEF MkfsInv
<1>4. image.label = [k \in 1..NameLen |->
                       IF k \in DOMAIN Info(options).label THEN Info(options).label[k] ELSE "NUL"]
  BY <1>3 DEF Superblock
<1> QED
  BY <1>2, <1>4 DEF FieldOf

LEMMA LabelInit == MInit => LabelInv
BY MkfsConstants DEF MInit, LabelInv, Default

LEMMA LabelStep == MkfsInv /\ LabelInv /\ [MNext]_<<in, mkfsVars>> => LabelInv'
<1> SUFFICES ASSUME MkfsInv, LabelInv, [MNext]_<<in, mkfsVars>> PROVE LabelInv'
  OBVIOUS
<1>1. ASSUME NEW s \in Settings, With(s) PROVE LabelInv'
  <2>1. /\ options' = [options EXCEPT ![s[1]] = s[2]]
        /\ result = None /\ UNCHANGED <<result, stats>>
    BY <1>1 DEF With
  <2>2. OptionsOK
    BY DEF MkfsInv
  <2>3. options'.label = IF s[1] = "label" THEN s[2] ELSE options.label
    BY <2>1, <2>2 DEF OptionsOK, Fields
  <2>4. s[1] = "label" => s[2] \in Labels
    BY DEF Settings
  <2>5. result # "Ok" /\ result' # "Ok" /\ stats' = None
    BY <2>1, MkfsConstants DEF LabelInv
  <2> QED
    BY <2>3, <2>4, <2>5 DEF LabelInv
<1>2. CASE Mkfs
  <2>1. /\ UNCHANGED <<options, stats>> /\ result # "Ok"
        /\ result' = "Ok" => options.label = None \/ "NUL" \notin Range(options.label)
    BY <1>2, MkfsConstants DEF Mkfs
  <2>2. stats' = None /\ options'.label = options.label
    BY <2>1 DEF LabelInv
  <2> QED
    BY <2>1, <2>2 DEF LabelInv
<1>3. CASE Stat
  <2>1. /\ UNCHANGED <<options, result>> /\ result = "Ok"
        /\ stats'.volume_name = VolumeName(image.label)
    BY <1>3 DEF Stat
  <2>2. image.label = FieldOf(AskedLabel)
    BY <2>1, LabelWritten
  <2>3. AskedLabel' = AskedLabel
    BY <2>1 DEF AskedLabel
  <2>4. VolumeName(FieldOf(AskedLabel))' = VolumeName(FieldOf(AskedLabel))
    BY <2>3 DEF FieldOf
  <2> QED
    BY <2>1, <2>2, <2>4 DEF LabelInv
<1>4. CASE UNCHANGED mkfsVars
  <2>1. UNCHANGED <<options, result, stats>>
    BY <1>4 DEF mkfsVars
  <2>2. AskedLabel' = AskedLabel
    BY <2>1 DEF AskedLabel
  <2>3. VolumeName(FieldOf(AskedLabel))' = VolumeName(FieldOf(AskedLabel))
    BY <2>2 DEF FieldOf
  <2> QED
    BY <2>1, <2>3 DEF LabelInv
<1> QED
  BY <1>1, <1>2, <1>3, <1>4 DEF MNext

\* with_label, mkfs and FsStats::volume_name: whatever the characters, the
\* length of the label and that of the field, a label that fits comes back as
\* it was set, and of a longer one the characters that fit, the last of them
\* replaced when it was cut in two.
THEOREM LabelSafe == MSpec => []LabelComesBack
<1>1. ASSUME MkfsInv, LabelInv, stats # None PROVE LabelComesBack
  <2>1. result = "Ok" /\ stats.volume_name = VolumeName(FieldOf(AskedLabel))
    BY <1>1 DEF LabelInv
  <2>2. PICK C : Plain(C) /\ AskedLabel \in Seq(C)
    BY <1>1, <2>1, AskedLabelOK
  <2>3. IsKept(AskedLabel, VolumeName(FieldOf(AskedLabel)))
    BY <2>2, LabelKept
  <2>4. Wanted("label") = options.label
    BY <1>1, WantedIs DEF Fields
  <2>5. IsKept(AskedLabel, stats.volume_name)
    BY <2>1, <2>3
  <2>6. AskedLabel = IF Wanted("label") = None THEN <<>> ELSE Wanted("label")
    BY <2>4 DEF AskedLabel
  <2> QED
    BY <2>5, <2>6 DEF IsKept, LabelComesBack
<1>2. MkfsInv /\ LabelInv => LabelComesBack
  BY <1>1 DEF LabelComesBack
<1>3. MSpec => [](MkfsInv /\ LabelInv)
  <2>1. MInit => MkfsInv /\ LabelInv
    BY MkfsInit, LabelInit
  <2>2. MkfsInv /\ LabelInv /\ [MNext]_<<in, mkfsVars>> => (MkfsInv /\ LabelInv)'
    BY MkfsStep, LabelStep
  <2> QED
    BY <2>1, <2>2, PTL DEF MSpec
<1> QED
  BY <1>2, <1>3, PTL
=============================================================================
