-------------------------- MODULE BlockBridgeProofs --------------------------
(***************************************************************************)
(* Proof that the Mutex of FileBlockDevice keeps the host file's cursor    *)
(* to one operation at a time, for any number of threads, any device and   *)
(* block sizes, and any number of callbacks; that the bridge implements    *)
(* BlockStore; and that every callback has finitely many steps.            *)
(***************************************************************************)
EXTENDS BlockBridge, TLAPS

\* An operation has its offset and its length in cells.
LEMMA OpsAreRanges == \A o \in Ops : o.at \in Nat /\ o.len \in Nat /\ o.write \in BOOLEAN
<1>1. \A b, n \in Nat : n * b \in Nat
  OBVIOUS
<1>2. QED
  BY <1>1, BridgeConstants DEF Ops

\* The type invariant without the contents.
ControlOK ==
  /\ pc \in [Threads -> {"idle", "lock", "seek", "check", "transfer"}]
  /\ op \in [Threads -> Ops]
  /\ done \in [Threads -> Nat]
  /\ cursor \in Nat

\* On a file the thread between Lock and Return holds the Mutex, it has moved
\* nothing before its seek, and during its transfer the cursor is its own.
MutexGuards ==
  \A t \in Threads :
    /\ pc[t] # "check"
    /\ pc[t] \in {"seek", "transfer"} => holder = t
    /\ pc[t] \in {"lock", "seek"} => done[t] = 0
    /\ pc[t] = "transfer" => cursor = op[t].at + done[t]

CursorInv == ControlOK /\ (OnHost => MutexGuards)

LEMMA CursorInit == Init => CursorInv
BY DEF Init, CursorInv, ControlOK, MutexGuards

LEMMA ControlStep == ControlOK /\ [Next]_vars => ControlOK'
<1> SUFFICES ASSUME ControlOK, [Next]_vars PROVE ControlOK'
  OBVIOUS
<1> USE DEF ControlOK
<1>1. ASSUME NEW t \in Threads, NEW o \in Ops, Call(t, o) PROVE ControlOK'
  BY <1>1 DEF Call, Moves
<1>2. ASSUME NEW t \in Threads, Lock(t) \/ Check(t) \/ Finish(t) \/ HostError(t)
      PROVE  ControlOK'
  BY <1>2 DEF Lock, Check, Finish, HostError, Moves, Return
<1>3. ASSUME NEW t \in Threads, SeekTo(t) PROVE ControlOK'
  BY <1>3, OpsAreRanges DEF SeekTo, Moves
<1>4. ASSUME NEW t \in Threads, ReadCell(t) \/ WriteCell(t) PROVE ControlOK'
  BY <1>4 DEF ReadCell, WriteCell, Advances
<1>5. CASE UNCHANGED vars
  BY <1>5 DEF vars
<1>6. QED
  BY <1>1, <1>2, <1>3, <1>4, <1>5 DEF Next, Step

LEMMA MutexStep ==
  ASSUME OnHost, ControlOK, MutexGuards, [Next]_vars
  PROVE  MutexGuards'
<1> USE DEF ControlOK, MutexGuards
<1>1. ASSUME NEW t \in Threads, NEW o \in Ops, Call(t, o) PROVE MutexGuards'
  BY <1>1 DEF Call, Moves
<1>2. ASSUME NEW t \in Threads, Lock(t) PROVE MutexGuards'
  BY <1>2, BridgeConstants DEF Lock, Moves
<1>3. ASSUME NEW t \in Threads, SeekTo(t) PROVE MutexGuards'
  BY <1>3, OpsAreRanges DEF SeekTo, Moves
<1>4. ASSUME NEW t \in Threads, ReadCell(t) \/ WriteCell(t) PROVE MutexGuards'
  <2>1. /\ pc[t] = "transfer" /\ done' = [done EXCEPT ![t] = @ + 1]
        /\ cursor' = cursor + 1 /\ UNCHANGED <<holder, pc, op>>
    BY <1>4 DEF ReadCell, WriteCell, Advances
  <2>2. QED
    BY <2>1, OpsAreRanges
<1>5. ASSUME NEW t \in Threads, Finish(t) \/ HostError(t) PROVE MutexGuards'
  BY <1>5 DEF Finish, HostError, Return
<1>6. CASE UNCHANGED vars
  BY <1>6 DEF vars
<1>7. QED
  BY <1>1, <1>2, <1>3, <1>4, <1>5, <1>6 DEF Next, Step, Check

\* The device stays what it is.
LEMMA KindStays == [Next]_vars => kind' = kind
BY DEF Next, Step, vars, Call, Lock, SeekTo, Check, ReadCell, WriteCell, Advances,
       Finish, HostError

LEMMA CursorStep == CursorInv /\ [Next]_vars => CursorInv'
<1> SUFFICES ASSUME CursorInv, [Next]_vars PROVE CursorInv'
  OBVIOUS
<1>1. OnHost' = OnHost
  BY KindStays DEF OnHost
<1>2. QED
  BY <1>1, ControlStep, MutexStep DEF CursorInv

\* Between FileBlockDevice's seek and the end of its transfer no other thread
\* moves the cursor of the host file.
THEOREM CursorSafe == Spec => []CursorOwned
<1>1. CursorInv => CursorOwned
  BY DEF CursorInv, MutexGuards, CursorOwned
<1>2. QED
  BY CursorInit, CursorStep, <1>1, PTL DEF Spec

\* TypeOK without what CursorInv says.
ContentsOK ==
  /\ kind \in Kinds
  /\ data \in Cells /\ before \in Cells
  /\ holder \in Threads \cup {None}
  /\ buf \in [Threads -> Cells]
  /\ reply \in [Threads -> [ok : BOOLEAN, cells : Cells]]
  /\ calls \in Nat

LEMMA ContentsInit == Init => ContentsOK
<1> SUFFICES ASSUME Init PROVE ContentsOK
  OBVIOUS
<1>1. PICK n \in Nat : data = [k \in 1..n |-> 0]
  <2>1. Size - (Size % BlockSize) \in Nat
    BY BridgeConstants
  <2>2. QED
    BY <2>1, BridgeConstants DEF Init
<1>2. data \in Cells /\ <<>> \in Cells
  BY <1>1 DEF Cells
<1>3. QED
  BY <1>2, BridgeConstants DEF Init, ContentsOK

LEMMA ContentsStep == ControlOK /\ ContentsOK /\ [Next]_vars => ContentsOK'
<1> SUFFICES ASSUME ControlOK, ContentsOK, [Next]_vars PROVE ContentsOK'
  OBVIOUS
<1> USE DEF ContentsOK
<1>1. ASSUME NEW t \in Threads, NEW o \in Ops, Call(t, o) PROVE ContentsOK'
  <2>1. <<>> \in Cells
    BY DEF Cells
  <2>2. QED
    BY <1>1, <2>1 DEF Call
<1>2. ASSUME NEW t \in Threads, Lock(t) \/ SeekTo(t) PROVE ContentsOK'
  BY <1>2 DEF Lock, SeekTo
<1>3. ASSUME NEW t \in Threads, Check(t) \/ Finish(t) \/ HostError(t) PROVE ContentsOK'
  <2>1. <<>> \in Cells /\ buf[t] \in Cells
    BY DEF Cells
  <2>2. ASSUME NEW ok \in BOOLEAN, Return(t, ok)
        PROVE  /\ holder' \in Threads \cup {None}
               /\ reply' \in [Threads -> [ok : BOOLEAN, cells : Cells]]
    <3> DEFINE c == IF ok THEN buf[t] ELSE <<>>
    <3>1. c \in Cells
      BY <2>1
    <3>2. reply' = [reply EXCEPT ![t] = [ok |-> ok, cells |-> c]]
      BY <2>2 DEF Return
    <3> HIDE DEF c
    <3>3. QED
      BY <2>2, <3>1, <3>2 DEF Return
  <2>3. UNCHANGED <<kind, data, buf, calls>> /\ before' \in Cells
    BY <1>3 DEF Check, Finish, HostError
  <2>4. UNCHANGED <<holder, reply>> \/ Return(t, FALSE) \/ Return(t, TRUE)
    BY <1>3 DEF Check, Finish, HostError
  <2>5. QED
    BY <2>2, <2>3, <2>4
<1>4. ASSUME NEW t \in Threads, ReadCell(t) PROVE ContentsOK'
  <2>1. Position(t) \in Nat
    BY OpsAreRanges DEF Position, ControlOK
  <2>2. Append(buf[t], data[Position(t) + 1]) \in Cells
    BY <1>4, <2>1 DEF ReadCell, Cells
  <2>3. QED
    BY <1>4, <2>2 DEF ReadCell, Advances
<1>5. ASSUME NEW t \in Threads, WriteCell(t) PROVE ContentsOK'
  <2>1. Position(t) \in Nat
    BY OpsAreRanges DEF Position, ControlOK
  <2>2. data' \in Cells
    <3> DEFINE n == IF Position(t) < Len(data) THEN Len(data) ELSE Position(t) + 1
               v(k) == IF k = Position(t) + 1 THEN t
                       ELSE IF k <= Len(data) THEN data[k] ELSE 0
    <3>1. n \in Nat
      BY <2>1 DEF Cells
    <3>2. \A k \in 1..n : v(k) \in Threads \cup {0}
      BY <2>1 DEF Cells
    <3>3. data' = [k \in 1..n |-> v(k)]
      BY <1>5 DEF WriteCell
    <3> HIDE DEF n, v
    <3>4. QED
      BY <3>1, <3>2, <3>3 DEF Cells
  <2>3. QED
    BY <1>5, <2>2 DEF WriteCell, Advances
<1>6. CASE UNCHANGED vars
  BY <1>6 DEF vars
<1>7. QED
  BY <1>1, <1>2, <1>3, <1>4, <1>5, <1>6 DEF Next, Step

\* Whatever the threads ask for and wherever the host cuts it off, the device
\* stays a sequence of cells and the program points stay in range.
THEOREM BridgeTypes == Spec => []TypeOK
<1>1. ControlOK /\ ContentsOK => TypeOK
  BY DEF ControlOK, ContentsOK, TypeOK
<1>2. Init => ControlOK /\ ContentsOK
  BY CursorInit, ContentsInit DEF CursorInv
<1>3. QED
  BY <1>1, <1>2, ControlStep, ContentsStep, PTL DEF Spec

-----------------------------------------------------------------------------
(* The bridge implements BlockStore. *)

\* The same, without a Mutex, for callers of a vector that exclude each other:
\* only one is in a callback, and what passed the check fits.
CallersExclude ==
  /\ \A t, u \in Threads : pc[t] # "idle" /\ pc[u] # "idle" => t = u
  /\ \A t \in Threads :
       /\ pc[t] \notin {"lock", "seek"}
       /\ pc[t] = "check" => done[t] = 0
       /\ pc[t] = "transfer" => Fits(t)

\* What a transfer has moved: a read the cells of its range as they are now, a
\* write a prefix of its range over the contents it met.
HasRead(t) ==
  /\ done[t] <= op[t].len /\ Len(buf[t]) = done[t]
  /\ done[t] > 0 => op[t].at + done[t] <= Len(data)
  /\ \A k \in 1..done[t] : buf[t][k] = data[op[t].at + k]

HasWritten(t) ==
  /\ done[t] <= op[t].len /\ buf[t] = <<>>
  /\ data = Store!Overlay(before, op[t].at, done[t], t)
  /\ done[t] > 0 => kind # "readonly"
  /\ ~OnHost => Len(data) = Len(before)

Progress(t) ==
  /\ pc[t] \in {"lock", "seek", "check"} => done[t] = 0 /\ buf[t] = <<>>
  /\ pc[t] = "transfer" => IF op[t].write THEN HasWritten(t) ELSE HasRead(t)

BridgeInv ==
  /\ CursorInv /\ ContentsOK
  /\ ~OnHost => CallersExclude
  /\ \A t \in Threads : Progress(t)

LEMMA BridgeInit == Init => BridgeInv
<1> SUFFICES ASSUME Init PROVE BridgeInv
  OBVIOUS
<1>1. \A t \in Threads : pc[t] = "idle"
  BY DEF Init
<1> QED
  BY <1>1, CursorInit, ContentsInit DEF BridgeInv, CallersExclude, Progress

\* One transfer at a time, and it goes on where it is.
LEMMA OneTransfer ==
  ASSUME BridgeInv, NEW t \in Threads, pc[t] = "transfer"
  PROVE  /\ \A u \in Threads : pc[u] = "transfer" => u = t
         /\ Position(t) = op[t].at + done[t]
<1>1. CASE OnHost
  BY <1>1 DEF BridgeInv, CursorInv, MutexGuards, Position
<1>2. CASE ~OnHost
  BY <1>2 DEF BridgeInv, CallersExclude, Position
<1> QED
  BY <1>1, <1>2

\* Before a thread's transfer nobody else is in one.
LEMMA NoneBefore ==
  ASSUME BridgeInv, NEW t \in Threads, pc[t] \in {"seek", "check"}
  PROVE  \A u \in Threads : pc[u] # "transfer"
<1>1. CASE OnHost
  BY <1>1 DEF BridgeInv, CursorInv, MutexGuards
<1>2. CASE ~OnHost
  BY <1>2 DEF BridgeInv, CallersExclude
<1> QED
  BY <1>1, <1>2

\* Callers of a vector keep excluding each other, if the bridge lets only one of
\* them in at a time.
LEMMA ExcludeStep ==
  ASSUME "memory" \notin Shared, BridgeInv, ~OnHost, [Next]_vars,
         kind' = kind, Len(data') = Len(data)
  PROVE  CallersExclude'
<1> USE DEF CallersExclude
<1>0. ControlOK /\ CallersExclude /\ kind = "memory"
  BY DEF BridgeInv, CursorInv, OnHost
<1>1. ASSUME NEW t \in Threads, NEW o \in Ops, Call(t, o) PROVE CallersExclude'
  <2>1. /\ \A u \in Threads : pc[u] = "idle"
        /\ pc' = [pc EXCEPT ![t] = "check"] /\ done' = [done EXCEPT ![t] = 0]
    BY <1>0, <1>1 DEF Call, Moves
  <2> QED
    BY <1>0, <2>1 DEF ControlOK
<1>2. ASSUME NEW t \in Threads, Check(t) PROVE CallersExclude'
  <2>1. /\ pc[t] = "check" /\ UNCHANGED <<op, done>>
        /\ \/ Fits(t) /\ pc' = [pc EXCEPT ![t] = "transfer"]
           \/ pc' = [pc EXCEPT ![t] = "idle"]
    BY <1>2 DEF Check, Return
  <2> QED
    BY <1>0, <2>1 DEF ControlOK, Fits
<1>3. ASSUME NEW t \in Threads, ReadCell(t) \/ WriteCell(t) PROVE CallersExclude'
  <2>1. pc[t] = "transfer" /\ done' = [done EXCEPT ![t] = @ + 1] /\ UNCHANGED <<pc, op>>
    BY <1>3 DEF ReadCell, WriteCell, Advances
  <2> QED
    BY <1>0, <2>1 DEF ControlOK, Fits
<1>4. ASSUME NEW t \in Threads, Finish(t) \/ HostError(t) PROVE CallersExclude'
  <2>1. pc' = [pc EXCEPT ![t] = "idle"] /\ UNCHANGED <<op, done>>
    BY <1>4 DEF Finish, HostError, Return
  <2> QED
    BY <1>0, <2>1 DEF ControlOK, Fits
<1>5. CASE UNCHANGED vars
  BY <1>0, <1>5 DEF vars, Fits
<1> QED
  BY <1>0, <1>1, <1>2, <1>3, <1>4, <1>5 DEF Next, Step, Lock, SeekTo, Moves

\* What a thread that does nothing has moved stays what it was.
LEMMA OthersProgress ==
  ASSUME BridgeInv, NEW t \in Threads, NEW u \in Threads \ {t}, kind' = kind,
         UNCHANGED <<pc[u], op[u], done[u], buf[u]>>,
         pc[u] = "transfer" => UNCHANGED <<data, before>>
  PROVE  Progress(u)'
<1>1. Progress(u)
  BY DEF BridgeInv
<1>2. CASE pc[u] # "transfer"
  BY <1>1, <1>2 DEF Progress
<1>3. CASE pc[u] = "transfer"
  BY <1>1, <1>3 DEF Progress, HasRead, HasWritten, OnHost
<1> QED
  BY <1>2, <1>3

\* The contents with one more cell written.
WithCell(d, p, t) ==
  [k \in 1..(IF p < Len(d) THEN Len(d) ELSE p + 1) |->
     IF k = p + 1 THEN t ELSE IF k <= Len(d) THEN d[k] ELSE 0]

\* A prefix of a write and one more cell behind it are a longer prefix.
LEMMA OverlayGrows ==
  ASSUME NEW s \in Cells, NEW d \in Cells, NEW at \in Nat, NEW n \in Nat, NEW t \in Threads,
         d = Store!Overlay(s, at, n, t), NEW p \in Nat, p = at + n, NEW m \in Nat, m = n + 1
  PROVE  WithCell(d, p, t) = Store!Overlay(s, at, m, t)
<1> DEFINE was(k) == IF k \in at + 1 .. at + n THEN t ELSE IF k <= Len(s) THEN s[k] ELSE 0
           now(k) == IF k \in at + 1 .. at + m THEN t ELSE IF k <= Len(s) THEN s[k] ELSE 0
           next(k) == IF k = p + 1 THEN t ELSE IF k <= Len(d) THEN d[k] ELSE 0
           wasLen == IF at + n > Len(s) THEN at + n ELSE Len(s)
           nowLen == IF at + m > Len(s) THEN at + m ELSE Len(s)
           nextLen == IF p < Len(d) THEN Len(d) ELSE p + 1
<1>0. Len(s) \in Nat /\ Len(d) \in Nat
  BY DEF Cells
<1>1. n = 0 => d = s
  BY DEF Store!Overlay
<1>2. n > 0 => d = [k \in 1..wasLen |-> was(k)]
  BY DEF Store!Overlay
<1>3. Store!Overlay(s, at, m, t) = [k \in 1..nowLen |-> now(k)]
  BY DEF Store!Overlay
<1>4. n > 0 => Len(d) = wasLen /\ \A k \in 1..wasLen : d[k] = was(k)
  <2>1. wasLen \in Nat
    BY <1>0
  <2> HIDE DEF wasLen, was
  <2> QED
    BY <1>2, <2>1
<1>5. nextLen = nowLen
  BY <1>0, <1>1, <1>4
<1>6. ASSUME NEW k \in 1..nowLen PROVE next(k) = now(k)
  <2>0. k \in Nat /\ k > 0
    BY <1>0
  <2>1. CASE n = 0
    BY <1>0, <1>1, <2>0, <2>1
  <2>2. CASE n > 0
    <3>1. CASE k = p + 1
      BY <3>1
    <3>2. CASE k # p + 1 /\ k <= Len(d)
      <4>1. k \in 1..wasLen
        BY <1>4, <2>0, <2>2, <3>2
      <4>2. d[k] = was(k)
        BY <1>4, <2>2, <4>1
      <4>3. was(k) = now(k)
        BY <2>0, <3>2
      <4> QED
        BY <3>2, <4>2, <4>3
    <3>3. CASE k # p + 1 /\ k > Len(d)
      BY <1>0, <1>4, <2>0, <2>2, <3>3
    <3> QED
      BY <1>0, <2>0, <3>1, <3>2, <3>3
  <2> QED
    BY <2>1, <2>2
<1> HIDE DEF now, next, nowLen, nextLen
<1>7. [k \in 1..nextLen |-> next(k)] = [k \in 1..nowLen |-> now(k)]
  BY <1>5, <1>6
<1> QED
  BY <1>3, <1>7 DEF next, nextLen, WithCell

\* Within the range it replaces, a write does not change the length.
LEMMA InsideKeepsLen ==
  ASSUME NEW d \in Cells, NEW p \in Nat, p < Len(d), NEW t
  PROVE  Len(WithCell(d, p, t)) = Len(d)
<1> DEFINE e(k) == IF k = p + 1 THEN t ELSE IF k <= Len(d) THEN d[k] ELSE 0
<1>1. Len(d) \in Nat
  BY DEF Cells
<1> HIDE DEF e
<1>2. Len([k \in 1..Len(d) |-> e(k)]) = Len(d)
  BY <1>1
<1> QED
  BY <1>2 DEF e, WithCell

-----------------------------------------------------------------------------
(* The steps keep the invariant. *)

LEMMA WriteCellData ==
  ASSUME BridgeInv, NEW t \in Threads, WriteCell(t)
  PROVE  /\ data' = Store!Overlay(before, op[t].at, done[t] + 1, t)
         /\ ~OnHost => Len(data') = Len(data)
<1>1. /\ pc[t] = "transfer" /\ done[t] < op[t].len /\ op[t].write
      /\ data' = WithCell(data, Position(t), t)
  BY DEF WriteCell, Advances, WithCell
<1>2. HasWritten(t)
  BY <1>1 DEF BridgeInv, Progress
<1>3. PICK at \in Nat : at = op[t].at
  BY OpsAreRanges DEF BridgeInv, CursorInv, ControlOK
<1>4. PICK n \in Nat : n = done[t]
  BY DEF BridgeInv, CursorInv, ControlOK
<1>5. PICK p \in Nat : p = at + n /\ p = Position(t)
  BY <1>1, <1>3, <1>4, OneTransfer
<1>6. PICK m \in Nat : m = n + 1
  OBVIOUS
<1>7. data \in Cells /\ before \in Cells
  BY DEF BridgeInv, ContentsOK
<1>8. data = Store!Overlay(before, at, n, t)
  BY <1>2, <1>3, <1>4 DEF HasWritten
<1>9. data' = Store!Overlay(before, at, m, t)
  BY <1>1, <1>5, <1>6, <1>7, <1>8, OverlayGrows
<1>10. ASSUME ~OnHost PROVE Len(data') = Len(data)
  <2>1. PICK len \in Nat : len = op[t].len
    BY OpsAreRanges DEF BridgeInv, CursorInv, ControlOK
  <2>2. at + len <= Len(data) /\ n < len
    BY <1>1, <1>3, <1>4, <1>10, <2>1 DEF BridgeInv, CallersExclude, Fits
  <2>3. p < Len(data)
    BY <1>5, <1>7, <2>2 DEF Cells
  <2> QED
    BY <1>1, <1>5, <1>7, <2>3, InsideKeepsLen
<1> QED
  BY <1>3, <1>4, <1>6, <1>9, <1>10

\* The moving thread's own progress.
LEMMA OwnProgress ==
  ASSUME BridgeInv, NEW t \in Threads, Step(t)
  PROVE  Progress(t)'
<1>0. ControlOK /\ ContentsOK /\ Progress(t)
  BY DEF BridgeInv, CursorInv
<1>1. PICK at \in Nat : at = op[t].at
  BY <1>0, OpsAreRanges DEF ControlOK
<1>2. PICK n \in Nat : n = done[t]
  BY <1>0 DEF ControlOK
<1>3. PICK len \in Nat : len = op[t].len
  BY <1>0, OpsAreRanges DEF ControlOK
<1>4. CASE Lock(t)
  <2>1. /\ pc[t] = "lock" /\ pc' = [pc EXCEPT ![t] = "seek"]
        /\ UNCHANGED <<op, done, buf>>
    BY <1>4 DEF Lock, Moves
  <2> QED
    BY <1>0, <2>1 DEF ControlOK, Progress
<1>5. CASE SeekTo(t) \/ (Check(t) /\ pc'[t] = "transfer")
  <2>1. /\ pc[t] \in {"seek", "check"} /\ pc'[t] = "transfer"
        /\ UNCHANGED <<kind, data, op, done, buf>>
        /\ before' = IF op[t].write THEN data ELSE before
    <3>1. CASE SeekTo(t)
      BY <1>0, <3>1 DEF SeekTo, Moves, ControlOK
    <3>2. CASE Check(t) /\ pc'[t] = "transfer"
      BY <1>0, <3>2 DEF Check, Return, ControlOK
    <3> QED
      BY <1>5, <3>1, <3>2
  <2>2. done[t] = 0 /\ buf[t] = <<>>
    BY <1>0, <2>1 DEF Progress
  <2>3. op[t].write => HasWritten(t)'
    BY <1>1, <1>3, <2>1, <2>2 DEF HasWritten, Store!Overlay
  <2>4. ~op[t].write => HasRead(t)'
    BY <1>3, <2>1, <2>2 DEF HasRead
  <2> QED
    BY <2>1, <2>3, <2>4 DEF Progress
<1>6. CASE ReadCell(t)
  <2>1. /\ pc[t] = "transfer" /\ ~op[t].write /\ n < len
        /\ pc' = pc /\ op' = op /\ data' = data
        /\ done'[t] = n + 1
        /\ at + n < Len(data) /\ buf'[t] = Append(buf[t], data[at + n + 1])
    BY <1>0, <1>1, <1>2, <1>3, <1>6, OneTransfer DEF ReadCell, Advances, ControlOK, ContentsOK
  <2>2. /\ Len(buf[t]) = n /\ buf[t] \in Cells /\ data \in Cells
        /\ \A k \in 1..n : buf[t][k] = data[at + k]
    BY <1>0, <1>1, <1>2, <2>1 DEF Progress, HasRead, ContentsOK
  <2>3. data[at + n + 1] \in Threads \cup {0}
    BY <2>1, <2>2 DEF Cells
  <2>4. Len(buf'[t]) = n + 1 /\ \A k \in 1..n + 1 : buf'[t][k] = data[at + k]
    BY <2>1, <2>2, <2>3 DEF Cells
  <2>5. n + 1 <= len /\ at + (n + 1) <= Len(data)
    BY <2>1, <2>2 DEF Cells
  <2>6. HasRead(t)'
    BY <1>1, <1>3, <2>1, <2>4, <2>5 DEF HasRead
  <2> QED
    BY <2>1, <2>6 DEF Progress
<1>7. CASE WriteCell(t)
  <2>1. /\ pc[t] = "transfer" /\ op[t].write /\ n < len /\ kind # "readonly"
        /\ UNCHANGED <<kind, pc, op, before, buf>> /\ done'[t] = n + 1
    BY <1>0, <1>2, <1>3, <1>7 DEF WriteCell, Advances, ControlOK
  <2>2. HasWritten(t)
    BY <1>0, <2>1 DEF Progress
  <2>3. /\ data' = Store!Overlay(before, op[t].at, n + 1, t)
        /\ ~OnHost => Len(data') = Len(data)
    BY <1>2, <1>7, WriteCellData
  <2>4. HasWritten(t)'
    BY <1>3, <2>1, <2>2, <2>3 DEF HasWritten, OnHost
  <2> QED
    BY <2>1, <2>4 DEF Progress
<1>8. CASE Finish(t) \/ HostError(t) \/ (Check(t) /\ pc'[t] # "transfer")
  <2>1. pc'[t] = "idle"
    BY <1>0, <1>8 DEF Finish, HostError, Check, Return, ControlOK
  <2> QED
    BY <2>1 DEF Progress
<1> QED
  BY <1>4, <1>5, <1>6, <1>7, <1>8 DEF Step

\* What a step may do to the data, and to another thread.
LEMMA StepOfOne ==
  ASSUME BridgeInv, NEW t \in Threads, Step(t)
  PROVE  /\ kind' = kind /\ (~OnHost => Len(data') = Len(data))
         /\ \A u \in Threads \ {t} :
              /\ UNCHANGED <<pc[u], op[u], done[u], buf[u]>>
              /\ pc[u] = "transfer" => UNCHANGED <<data, before>>
<1>0. ControlOK /\ ContentsOK
  BY DEF BridgeInv, CursorInv
<1>1. CASE Lock(t) \/ Finish(t) \/ HostError(t)
  <2>1. /\ pc' = [pc EXCEPT ![t] = "seek"] \/ pc' = [pc EXCEPT ![t] = "idle"]
        /\ UNCHANGED <<kind, data, op, done, buf, before>>
    BY <1>1 DEF Lock, Finish, HostError, Moves, Return
  <2> QED
    BY <1>0, <2>1 DEF ControlOK
<1>2. CASE SeekTo(t) \/ Check(t)
  <2>1. /\ pc[t] \in {"seek", "check"}
        /\ pc' = [pc EXCEPT ![t] = "transfer"] \/ pc' = [pc EXCEPT ![t] = "idle"]
        /\ UNCHANGED <<kind, data, op, done, buf>>
    BY <1>2 DEF SeekTo, Check, Moves, Return
  <2>2. \A u \in Threads : pc[u] # "transfer"
    BY <2>1, NoneBefore
  <2> QED
    BY <1>0, <2>1, <2>2 DEF ControlOK
<1>3. CASE ReadCell(t)
  <2>1. /\ done' = [done EXCEPT ![t] = @ + 1] /\ UNCHANGED <<kind, pc, op, before, data>>
        /\ buf' = [buf EXCEPT ![t] = Append(@, data[Position(t) + 1])]
    BY <1>3 DEF ReadCell, Advances
  <2> QED
    BY <1>0, <2>1 DEF ControlOK, ContentsOK
<1>4. CASE WriteCell(t)
  <2>1. /\ pc[t] = "transfer"
        /\ done' = [done EXCEPT ![t] = @ + 1] /\ UNCHANGED <<kind, pc, op, before, buf>>
    BY <1>4 DEF WriteCell, Advances
  <2>2. \A u \in Threads \ {t} : pc[u] # "transfer"
    BY <2>1, OneTransfer
  <2>3. ~OnHost => Len(data') = Len(data)
    BY <1>4, WriteCellData
  <2> QED
    BY <1>0, <2>1, <2>2, <2>3 DEF ControlOK
<1> QED
  BY <1>1, <1>2, <1>3, <1>4 DEF Step

LEMMA BridgeStep ==
  ASSUME "memory" \notin Shared, BridgeInv, [Next]_vars
  PROVE  BridgeInv'
<1>0. ControlOK /\ ContentsOK /\ CursorInv
  BY DEF BridgeInv, CursorInv
<1>1. CursorInv' /\ ContentsOK' /\ kind' = kind
  BY <1>0, CursorStep, ContentsStep, KindStays
<1>2. ~OnHost => Len(data') = Len(data)
  BY StepOfOne DEF Next, Call, vars
<1>3. ~OnHost' => CallersExclude'
  BY <1>1, <1>2, ExcludeStep DEF OnHost
<1>4. ASSUME NEW t \in Threads, NEW o \in Ops, Call(t, o), NEW u \in Threads PROVE Progress(u)'
  <2>1. /\ pc' = [pc EXCEPT ![t] = IF OnHost THEN "lock" ELSE "check"]
        /\ op' = [op EXCEPT ![t] = o]
        /\ done' = [done EXCEPT ![t] = 0] /\ buf' = [buf EXCEPT ![t] = <<>>]
        /\ UNCHANGED <<kind, data, before>>
    BY <1>4 DEF Call, Moves
  <2>2. CASE u = t
    BY <1>0, <2>1, <2>2 DEF ControlOK, ContentsOK, Progress
  <2>3. CASE u # t
    <3>1. UNCHANGED <<pc[u], op[u], done[u], buf[u]>>
      BY <1>0, <2>1, <2>3 DEF ControlOK, ContentsOK
    <3> QED
      BY <1>1, <2>1, <2>3, <3>1, OthersProgress
  <2> QED
    BY <2>2, <2>3
<1>5. ASSUME NEW t \in Threads, Step(t), NEW u \in Threads PROVE Progress(u)'
  <2>1. CASE u = t
    BY <1>5, <2>1, OwnProgress
  <2>2. CASE u # t
    BY <1>5, <2>2, StepOfOne, OthersProgress
  <2> QED
    BY <2>1, <2>2
<1>6. ASSUME UNCHANGED vars, NEW u \in Threads PROVE Progress(u)'
  <2>1. Progress(u)
    BY DEF BridgeInv
  <2> QED
    BY <1>6, <2>1 DEF vars, Progress, HasRead, HasWritten, OnHost
<1>7. \A u \in Threads : Progress(u)'
  BY <1>4, <1>5, <1>6 DEF Next
<1> QED
  BY <1>1, <1>3, <1>7 DEF BridgeInv

-----------------------------------------------------------------------------
(* What BlockStore sees of a step. *)

StoreNow == IF \E t \in Threads : Writing(t) THEN before ELSE data
CallNow == [t \in Threads |-> IF pc[t] = "idle" THEN reply[t] ELSE op[t]]

\* Pending operations and replies are told apart.
LEMMA Replies ==
  /\ \A o \in Ops : ~Store!IsReply(o)
  /\ \A r \in [ok : BOOLEAN, cells : Cells] : Store!IsReply(r)
  /\ Store!Reply(FALSE, <<>>) = [ok |-> FALSE, cells |-> <<>>]
<1>1. ASSUME NEW o \in Ops PROVE "ok" \notin DOMAIN o
  <2>1. PICK w \in BOOLEAN, b \in 0..MaxBlock, n \in 1..MaxCount :
          o = [write |-> w, at |-> b * BlockSize, len |-> n * BlockSize]
    BY <1>1 DEF Ops
  <2> QED
    BY <2>1
<1>2. ASSUME NEW r \in [ok : BOOLEAN, cells : Cells] PROVE "ok" \in DOMAIN r
  BY <1>2
<1> QED
  BY <1>1, <1>2 DEF Store!IsReply, Store!Reply

\* The store while nobody writes, and while t does.
LEMMA StoreIs ==
  ASSUME BridgeInv
  PROVE  /\ (\A t \in Threads : ~Writing(t)) => StoreNow = data
         /\ \A t \in Threads : Writing(t) => StoreNow = before
BY DEF StoreNow

\* A callback that returns leaves nobody in a write.
LEMMA ReturnStore ==
  ASSUME BridgeInv, NEW t \in Threads, NEW ok \in BOOLEAN, Return(t, ok),
         pc[t] \in {"seek", "check", "transfer"}, UNCHANGED <<kind, data, op, before>>
  PROVE  /\ StoreNow' = data
         /\ CallNow[t] = op[t] /\ ~Store!IsReply(CallNow[t])
         /\ CallNow' = [CallNow EXCEPT ![t] = Store!Reply(ok, IF ok THEN buf[t] ELSE <<>>)]
<1>0. ControlOK /\ ContentsOK
  BY DEF BridgeInv, CursorInv
<1>1. /\ pc' = [pc EXCEPT ![t] = "idle"]
      /\ reply' = [reply EXCEPT ![t] = [ok |-> ok, cells |-> IF ok THEN buf[t] ELSE <<>>]]
  BY DEF Return
<1>2. \A u \in Threads \ {t} : pc[u] # "transfer"
  BY OneTransfer, NoneBefore
<1>3. \A u \in Threads : pc'[u] # "transfer"
  BY <1>0, <1>1, <1>2 DEF ControlOK
<1>4. StoreNow' = data
  BY <1>3 DEF StoreNow, Writing
<1>5. CallNow[t] = op[t] /\ op[t] \in Ops
  BY <1>0 DEF CallNow, ControlOK
<1>6. CallNow' = [CallNow EXCEPT ![t] = Store!Reply(ok, IF ok THEN buf[t] ELSE <<>>)]
  <2> DEFINE r == [ok |-> ok, cells |-> IF ok THEN buf[t] ELSE <<>>]
  <2>1. reply' = [reply EXCEPT ![t] = r] /\ Store!Reply(ok, IF ok THEN buf[t] ELSE <<>>) = r
    BY <1>1 DEF Store!Reply
  <2> HIDE DEF r
  <2> QED
    BY <1>0, <1>1, <2>1 DEF CallNow, ControlOK, ContentsOK
<1> QED
  BY <1>4, <1>5, <1>6, Replies

\* A step inside a callback is none of BlockStore's.
LEMMA InsideCallback ==
  ASSUME BridgeInv, NEW t \in Threads, pc[t] # "idle",
         Lock(t) \/ SeekTo(t) \/ ReadCell(t) \/ WriteCell(t) \/ (Check(t) /\ pc'[t] = "transfer")
  PROVE  UNCHANGED <<kind, StoreNow, CallNow>>
<1>0. ControlOK /\ ContentsOK
  BY DEF BridgeInv, CursorInv
<1>1. /\ UNCHANGED <<kind, op, reply>> /\ pc'[t] # "idle"
      /\ \A u \in Threads \ {t} : pc'[u] = pc[u]
  BY <1>0 DEF Lock, SeekTo, ReadCell, WriteCell, Advances, Check, Moves, Return, ControlOK
<1>2. CallNow' = CallNow
  BY <1>1 DEF CallNow
<1>3. CASE Lock(t)
  <2>1. pc[t] = "lock" /\ pc'[t] = "seek" /\ UNCHANGED <<data, before>>
    BY <1>0, <1>3 DEF Lock, Moves, ControlOK
  <2>2. \A u \in Threads : Writing(u)' <=> Writing(u)
    BY <1>1, <2>1 DEF Writing
  <2> QED
    BY <1>1, <1>2, <2>1, <2>2 DEF StoreNow
<1>4. CASE SeekTo(t) \/ (Check(t) /\ pc'[t] = "transfer")
  <2>1. /\ pc[t] \in {"seek", "check"} /\ pc'[t] = "transfer" /\ data' = data
        /\ before' = IF op[t].write THEN data ELSE before
    BY <1>0, <1>4 DEF SeekTo, Check, Moves, Return, ControlOK
  <2>2. \A u \in Threads : ~Writing(u) /\ (u # t => ~Writing(u)')
    BY <1>1, <2>1, NoneBefore DEF Writing
  <2>3. StoreNow = data
    BY <2>2 DEF StoreNow
  <2>4. Writing(t)' <=> op[t].write
    BY <1>1, <2>1 DEF Writing
  <2>5. StoreNow' = data
    <3>1. CASE op[t].write
      BY <2>1, <2>4, <3>1 DEF StoreNow
    <3>2. CASE ~op[t].write
      BY <2>1, <2>2, <2>4, <3>2 DEF StoreNow
    <3> QED
      BY <3>1, <3>2
  <2> QED
    BY <1>1, <1>2, <2>3, <2>5
<1>5. CASE ReadCell(t)
  <2>1. UNCHANGED <<pc, op, data, before>>
    BY <1>5 DEF ReadCell, Advances
  <2> QED
    BY <1>1, <1>2, <2>1 DEF StoreNow, Writing
<1>6. CASE WriteCell(t)
  <2>1. Writing(t) /\ UNCHANGED <<pc, op, before>>
    BY <1>6 DEF WriteCell, Advances, Writing
  <2> QED
    BY <1>1, <1>2, <2>1 DEF StoreNow, Writing
<1> QED
  BY <1>3, <1>4, <1>5, <1>6

\* A callback that fails is BlockStore's Fail: a write has left a prefix.
LEMMA FailStep ==
  ASSUME BridgeInv, NEW t \in Threads,
         HostError(t) \/ (Check(t) /\ pc'[t] # "transfer")
  PROVE  Store!Next
<1>0. ControlOK /\ ContentsOK
  BY DEF BridgeInv, CursorInv
<1>1. /\ pc[t] \in {"seek", "check", "transfer"} /\ Return(t, FALSE)
      /\ UNCHANGED <<kind, data, op, before>>
  BY <1>0 DEF HostError, Check, ControlOK
<1>2. /\ StoreNow' = data /\ CallNow[t] = op[t] /\ ~Store!IsReply(CallNow[t])
      /\ CallNow' = [CallNow EXCEPT ![t] = Store!Reply(FALSE, <<>>)]
  BY <1>1, ReturnStore
<1>3. \/ StoreNow' = StoreNow
      \/ /\ op[t].write /\ kind # "readonly" /\ kind # "memory"
         /\ \E n \in 1..op[t].len : StoreNow' = Store!Overlay(StoreNow, op[t].at, n, t)
  <2>1. CASE ~Writing(t)
    <3>1. \A u \in Threads : ~Writing(u)
      BY <1>1, <2>1, OneTransfer, NoneBefore DEF Writing
    <3> QED
      BY <1>2, <3>1, StoreIs
  <2>2. CASE Writing(t)
    <3>1. /\ StoreNow = before /\ HasWritten(t) /\ kind # "memory"
      BY <2>2, StoreIs DEF Writing, BridgeInv, Progress, HostError, Check, OnHost
    <3>2. StoreNow' = Store!Overlay(StoreNow, op[t].at, done[t], t)
      BY <1>2, <3>1 DEF HasWritten
    <3>3. CASE done[t] = 0
      BY <3>2, <3>3 DEF Store!Overlay
    <3>4. CASE done[t] # 0
      <4>1. done[t] \in 1..op[t].len /\ kind # "readonly"
        BY <1>0, <3>1, <3>4, OpsAreRanges DEF HasWritten, ControlOK
      <4> QED
        BY <2>2, <3>1, <3>2, <4>1 DEF Writing
    <3> QED
      BY <3>3, <3>4
  <2> QED
    BY <2>1, <2>2
<1>4. Store!Fail(t)
  BY <1>1, <1>2, <1>3 DEF Store!Fail, Store!Returns, Store!Takes, StoreNow, CallNow
<1> QED
  BY <1>4 DEF Store!Next

\* One that succeeds is its ReadOk or WriteOk.
LEMMA FinishStep ==
  ASSUME BridgeInv, NEW t \in Threads, Finish(t)
  PROVE  Store!Next
<1>0. ControlOK /\ ContentsOK
  BY DEF BridgeInv, CursorInv
<1>1. /\ pc[t] = "transfer" /\ done[t] = op[t].len /\ Return(t, TRUE)
      /\ UNCHANGED <<kind, data, op, before>>
  BY DEF Finish
<1>2. /\ StoreNow' = data /\ CallNow[t] = op[t] /\ ~Store!IsReply(CallNow[t])
      /\ CallNow' = [CallNow EXCEPT ![t] = Store!Reply(TRUE, buf[t])]
  BY <1>1, ReturnStore
<1>3. op[t].at \in Nat /\ op[t].len \in Nat /\ op[t].len > 0
  <2>1. PICK w \in BOOLEAN, b \in 0..MaxBlock, n \in 1..MaxCount :
          op[t] = [write |-> w, at |-> b * BlockSize, len |-> n * BlockSize]
    BY <1>0 DEF ControlOK, Ops
  <2>2. \A m \in Nat \ {0} : m * BlockSize \in Nat /\ m * BlockSize > 0
    BY BridgeConstants
  <2> QED
    BY <2>1, <2>2, <1>0, OpsAreRanges, BridgeConstants DEF ControlOK
<1>4. CASE op[t].write
  <2>1. StoreNow = before /\ HasWritten(t)
    BY <1>1, <1>4, StoreIs DEF Writing, BridgeInv, Progress
  <2>2. StoreNow' = Store!Overlay(StoreNow, op[t].at, op[t].len, t) /\ buf[t] = <<>>
    BY <1>1, <1>2, <2>1 DEF HasWritten
  <2>3. /\ kind # "readonly"
        /\ kind = "memory" => op[t].at + op[t].len <= Len(StoreNow)
    BY <1>1, <1>3, <2>1 DEF HasWritten, OnHost, BridgeInv, CallersExclude, Fits
  <2>4. Store!WriteOk(t)
    BY <1>1, <1>2, <1>4, <2>2, <2>3
       DEF Store!WriteOk, Store!Returns, Store!Takes, StoreNow, CallNow
  <2> QED
    BY <2>4 DEF Store!Next
<1>5. CASE ~op[t].write
  <2>1. StoreNow = data /\ HasRead(t)
    <3>1. \A u \in Threads : ~Writing(u)
      BY <1>1, <1>5, OneTransfer DEF Writing
    <3> QED
      BY <1>1, <1>5, <3>1, StoreIs DEF BridgeInv, Progress
  <2>2. PICK at \in Nat, len \in Nat : at = op[t].at /\ len = op[t].len /\ len > 0
    BY <1>3
  <2>3. at + len <= Len(data)
    BY <1>1, <2>1, <2>2 DEF HasRead
  <2>4. buf[t] = SubSeq(data, at + 1, at + len)
    <3>1. /\ buf[t] \in Cells /\ data \in Cells /\ Len(buf[t]) = len
          /\ \A k \in 1..len : buf[t][k] = data[at + k]
      BY <1>0, <1>1, <2>1, <2>2 DEF HasRead, ContentsOK
    <3> DEFINE s == SubSeq(data, at + 1, at + len)
    <3>2. s \in Cells /\ Len(s) = len /\ \A k \in 1..len : s[k] = data[at + k]
      BY <2>3, <3>1 DEF Cells
    <3> HIDE DEF s
    <3>3. buf[t] = s
      BY <3>1, <3>2 DEF Cells
    <3> QED
      BY <3>3 DEF s
  <2>5. /\ op[t].at + op[t].len <= Len(StoreNow)
        /\ CallNow' = [CallNow EXCEPT ![t] =
             Store!Reply(TRUE, SubSeq(StoreNow, op[t].at + 1, op[t].at + op[t].len))]
    BY <1>2, <2>1, <2>2, <2>3, <2>4
  <2>6. Store!ReadOk(t)
    BY <1>1, <1>2, <1>5, <2>1, <2>5 DEF Store!ReadOk, Store!Returns, StoreNow, CallNow
  <2> QED
    BY <2>6 DEF Store!Next
<1> QED
  BY <1>4, <1>5

LEMMA CallStep ==
  ASSUME BridgeInv, NEW t \in Threads, NEW o \in Ops, Call(t, o)
  PROVE  Store!Next
<1>0. ControlOK /\ ContentsOK
  BY DEF BridgeInv, CursorInv
<1>1. /\ pc[t] = "idle" /\ op' = [op EXCEPT ![t] = o]
      /\ pc' = [pc EXCEPT ![t] = IF OnHost THEN "lock" ELSE "check"]
      /\ UNCHANGED <<kind, data, before, reply>>
  BY DEF Call, Moves
<1>2. Store!IsReply(CallNow[t])
  BY <1>0, <1>1, Replies DEF CallNow, ContentsOK
<1>3. CallNow' = [CallNow EXCEPT ![t] = o]
  BY <1>0, <1>1 DEF CallNow, ControlOK
<1>4. \A u \in Threads : Writing(u)' <=> Writing(u)
  BY <1>0, <1>1 DEF Writing, ControlOK
<1>5. StoreNow' = StoreNow
  BY <1>1, <1>4 DEF StoreNow
<1>6. Store!Call(t)
  BY <1>1, <1>2, <1>3, <1>5 DEF Store!Call, StoreNow, CallNow
<1> QED
  BY <1>6 DEF Store!Next

LEMMA StoreStep == BridgeInv /\ [Next]_vars => [Store!Next]_(Store!vars)
<1> SUFFICES ASSUME BridgeInv, [Next]_vars PROVE [Store!Next]_(Store!vars)
  OBVIOUS
<1>1. ASSUME NEW t \in Threads, NEW o \in Ops, Call(t, o) PROVE Store!Next
  BY <1>1, CallStep
<1>2. ASSUME NEW t \in Threads, Step(t) PROVE Store!Next \/ UNCHANGED <<kind, StoreNow, CallNow>>
  <2>1. pc[t] # "idle"
    BY <1>2 DEF Step, Lock, SeekTo, Check, ReadCell, WriteCell, Advances, Finish, HostError, Moves
  <2> QED
    BY <1>2, <2>1, InsideCallback, FailStep, FinishStep DEF Step
<1>3. ASSUME UNCHANGED vars PROVE UNCHANGED <<kind, StoreNow, CallNow>>
  BY <1>3 DEF vars, StoreNow, CallNow, Writing
<1>4. UNCHANGED <<kind, StoreNow, CallNow>> => UNCHANGED Store!vars
  BY DEF StoreNow, CallNow, Store!vars
<1> QED
  BY <1>1, <1>2, <1>3, <1>4 DEF Next

\* The callbacks of any number of threads implement BlockStore, in spite of the
\* cursor that they share and of transfers the host cuts off, as long as the
\* callers of a vector exclude each other: for a FileBlockDevice the Mutex does.
THEOREM BridgeRefinement ==
  ASSUME "memory" \notin Shared
  PROVE  Spec => ImplementsStore
<1>1. Init => Store!Init
  <2> SUFFICES ASSUME Init PROVE Store!Init
    OBVIOUS
  <2>1. \A t \in Threads : pc[t] = "idle"
    BY DEF Init
  <2>2. StoreNow = data
    BY <2>1 DEF StoreNow, Writing
  <2>3. CallNow = [t \in Threads |-> Store!Reply(FALSE, <<>>)]
    BY <2>1 DEF Init, CallNow, Store!Reply
  <2>4. \E n \in {Size, Size - (Size % BlockSize)} : data = [k \in 1..n |-> 0]
    BY DEF Init
  <2>5. kind \in {"file", "memory", "readonly"}
    BY BridgeConstants DEF Init
  <2> QED
    BY <2>2, <2>3, <2>4, <2>5 DEF Store!Init, StoreNow, CallNow
<1>2. BridgeInv /\ [Next]_vars => BridgeInv'
  BY BridgeStep
<1> QED
  BY <1>1, <1>2, BridgeInit, StoreStep, PTL DEF Spec, ImplementsStore, Store!Spec

\* The contract of device_mut that a shared memory device breaks (mod.rs:117):
\* without one, nobody touches the device while another thread is in a write.
THEOREM AccessExclusive ==
  ASSUME "memory" \notin Shared
  PROVE  Spec => []NoConcurrentAccess
<1>1. ASSUME BridgeInv PROVE NoConcurrentAccess
  <2>1. CASE OnHost
    BY <1>1, <2>1 DEF BridgeInv, CursorInv, MutexGuards, NoConcurrentAccess, Writing
  <2>2. CASE ~OnHost
    BY <1>1, <2>2 DEF BridgeInv, CallersExclude, NoConcurrentAccess, Writing
  <2> QED
    BY <2>1, <2>2
<1>2. BridgeInv /\ [Next]_vars => BridgeInv'
  BY BridgeStep
<1> QED
  BY <1>1, <1>2, BridgeInit, PTL DEF Spec

-----------------------------------------------------------------------------
(* What can be proved of CallbacksReturn without fairness: the steps that   *)
(* are left become fewer, and the Mutex is free or its holder can go on.    *)

\* The steps a callback may still make: to the Mutex, to its place, the cells.
StepsLeft(t) ==
  LET left == [idle |-> 0, lock |-> 3, seek |-> 2, check |-> 2, transfer |-> 1]
  IN left[pc[t]] + (IF pc[t] = "idle" THEN 0 ELSE op[t].len - done[t])

StepsFall ==
  [][\A t \in Threads : Step(t) =>
       /\ StepsLeft(t)' < StepsLeft(t)
       /\ \A u \in Threads \ {t} : StepsLeft(u)' = StepsLeft(u)]_vars

MutexComes ==
  \A t \in Threads : pc[t] = "lock" =>
    holder = None \/ \E u \in Threads \ {t} : holder = u /\ pc[u] \in {"seek", "transfer"}

CallbackInv ==
  /\ ControlOK
  /\ holder # None => holder \in Threads /\ pc[holder] \in {"seek", "transfer"}
  /\ \A t \in Threads :
       /\ pc[t] \in {"lock", "seek", "check"} => done[t] = 0
       /\ pc[t] = "transfer" => done[t] <= op[t].len

LEMMA CallbackStep == CallbackInv /\ [Next]_vars => CallbackInv'
<1> SUFFICES ASSUME CallbackInv, [Next]_vars PROVE CallbackInv'
  OBVIOUS
<1>0. ControlOK'
  BY ControlStep DEF CallbackInv
<1> USE DEF CallbackInv, ControlOK
<1>1. ASSUME NEW t \in Threads, NEW o \in Ops, Call(t, o) PROVE CallbackInv'
  BY <1>0, <1>1 DEF Call, Moves
<1>2. ASSUME NEW t \in Threads, Lock(t) PROVE CallbackInv'
  BY <1>0, <1>2, BridgeConstants DEF Lock, Moves
<1>3. ASSUME NEW t \in Threads, SeekTo(t) PROVE CallbackInv'
  BY <1>0, <1>3, OpsAreRanges DEF SeekTo, Moves
<1>4. ASSUME NEW t \in Threads, ReadCell(t) \/ WriteCell(t) PROVE CallbackInv'
  <2>1. /\ pc[t] = "transfer" /\ done[t] < op[t].len
        /\ done' = [done EXCEPT ![t] = @ + 1] /\ UNCHANGED <<holder, pc, op>>
    BY <1>4 DEF ReadCell, WriteCell, Advances
  <2>2. QED
    BY <1>0, <2>1, OpsAreRanges
<1>5. ASSUME NEW t \in Threads, Check(t) PROVE CallbackInv'
  BY <1>0, <1>5, OpsAreRanges DEF Check, Return
<1>6. ASSUME NEW t \in Threads, Finish(t) \/ HostError(t) PROVE CallbackInv'
  BY <1>0, <1>6 DEF Finish, HostError, Return
<1>7. CASE UNCHANGED vars
  BY <1>0, <1>7 DEF vars
<1>8. QED
  BY <1>1, <1>2, <1>3, <1>4, <1>5, <1>6, <1>7 DEF Next, Step

LEMMA StepsAreLeft == CallbackInv => \A t \in Threads : StepsLeft(t) \in Nat
<1> SUFFICES ASSUME CallbackInv, NEW t \in Threads PROVE StepsLeft(t) \in Nat
  OBVIOUS
<1>1. op[t].len \in Nat /\ done[t] \in Nat
  BY OpsAreRanges DEF CallbackInv, ControlOK
<1>2. QED
  BY <1>1 DEF StepsLeft, CallbackInv, ControlOK

LEMMA StepsFallStep ==
  ASSUME CallbackInv, NEW t \in Threads, Step(t)
  PROVE  /\ StepsLeft(t)' < StepsLeft(t)
         /\ \A u \in Threads \ {t} : StepsLeft(u)' = StepsLeft(u)
<1>0. ControlOK /\ op[t].len \in Nat /\ done[t] \in Nat
  BY OpsAreRanges DEF CallbackInv, ControlOK
<1>1. op' = op
  BY DEF Step, Lock, SeekTo, Check, ReadCell, WriteCell, Advances, Finish, HostError
<1>2. ASSUME NEW to \in {"idle", "seek", "transfer"}, pc' = [pc EXCEPT ![t] = to],
             UNCHANGED done,
             \/ pc[t] \in {"seek", "check"} /\ to \in {"idle", "transfer"}
             \/ pc[t] = "lock" /\ to = "seek"
             \/ pc[t] = "transfer" /\ to = "idle"
      PROVE  /\ StepsLeft(t)' < StepsLeft(t)
             /\ \A u \in Threads \ {t} : StepsLeft(u)' = StepsLeft(u)
  <2>1. pc'[t] = to /\ \A u \in Threads \ {t} : pc'[u] = pc[u]
    BY <1>0, <1>2 DEF ControlOK
  <2>2. done[t] <= op[t].len
    BY <1>0, <1>2 DEF CallbackInv
  <2>3. StepsLeft(t)' < StepsLeft(t)
    BY <1>0, <1>1, <1>2, <2>1, <2>2 DEF StepsLeft
  <2>4. QED
    BY <1>1, <1>2, <2>1, <2>3 DEF StepsLeft
<1>3. CASE Lock(t) \/ SeekTo(t) \/ Check(t)
  BY <1>2, <1>3 DEF Lock, SeekTo, Check, Moves, Return
<1>4. CASE Finish(t) \/ HostError(t)
  BY <1>2, <1>4 DEF Finish, HostError, Return
<1>5. CASE ReadCell(t) \/ WriteCell(t)
  <2>1. /\ pc[t] = "transfer" /\ UNCHANGED pc
        /\ done'[t] = done[t] + 1 /\ \A u \in Threads \ {t} : done'[u] = done[u]
    BY <1>0, <1>5 DEF ReadCell, WriteCell, Advances, ControlOK
  <2>2. StepsLeft(t)' < StepsLeft(t)
    BY <1>0, <1>1, <2>1 DEF StepsLeft
  <2>3. QED
    BY <1>1, <2>1, <2>2 DEF StepsLeft
<1>6. QED
  BY <1>3, <1>4, <1>5 DEF Step

\* Every step of a callback leaves it fewer steps, whatever the other threads do
\* and however the host fails, and no error path loses the Mutex: a thread that
\* waits finds it free, or held by another one in the middle of its transfer.
THEOREM CallbacksEnd ==
  Spec => [](MutexComes /\ \A t \in Threads : StepsLeft(t) \in Nat) /\ StepsFall
<1>1. Spec => []CallbackInv
  <2>1. Init => CallbackInv
    BY CursorInit DEF Init, CursorInv, CallbackInv
  <2>2. QED
    BY <2>1, CallbackStep, PTL DEF Spec
<1>2. CallbackInv => MutexComes /\ \A t \in Threads : StepsLeft(t) \in Nat
  <2>1. CallbackInv => MutexComes
    BY DEF CallbackInv, MutexComes
  <2>2. QED
    BY <2>1, StepsAreLeft
<1>3. CallbackInv /\ [Next]_vars =>
        [\A t \in Threads : Step(t) =>
           /\ StepsLeft(t)' < StepsLeft(t)
           /\ \A u \in Threads \ {t} : StepsLeft(u)' = StepsLeft(u)]_vars
  BY StepsFallStep
<1>4. QED
  BY <1>1, <1>2, <1>3, PTL DEF Spec, StepsFall
=============================================================================
