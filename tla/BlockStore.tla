----------------------------- MODULE BlockStore ------------------------------
(***************************************************************************)
(* What lwext4 relies on a block device for: every callback takes effect   *)
(* at one moment between its call and its return.  A read that succeeds    *)
(* returns the cells of its whole range as they are at that moment; a      *)
(* write that succeeds replaces its whole range; a write that fails may    *)
(* have replaced a prefix of it.                                           *)
(***************************************************************************)
EXTENDS Naturals, Sequences

CONSTANTS
  Threads,    \* the callers; a cell holds the thread that wrote it, 0 at first
  Ops,        \* the operations they may ask for
  Sizes       \* how many cells the device may have at the start

VARIABLES
  mode,    \* "file": a write past the end extends it, "memory", or "readonly"
  store,   \* the cells
  call     \* each caller's pending operation, or the last reply

vars == <<mode, store, call>>

\* n cells from offset "at" hold v; a gap before them reads as 0.
Overlay(s, at, n, v) ==
  IF n = 0 THEN s
  ELSE [k \in 1..(IF at + n > Len(s) THEN at + n ELSE Len(s)) |->
          IF k \in at + 1 .. at + n THEN v ELSE IF k <= Len(s) THEN s[k] ELSE 0]

Reply(ok, cells) == [ok |-> ok, cells |-> cells]

\* A write from "at" on may put cells into the device.
Takes(op) ==
  /\ op.write /\ mode # "readonly"
  /\ mode = "memory" => op.at + op.len <= Len(store)

IsReply(c) == "ok" \in DOMAIN c

Init ==
  /\ mode \in {"file", "memory", "readonly"}
  /\ \E n \in Sizes : store = [k \in 1..n |-> 0]
  /\ call = [t \in Threads |-> Reply(FALSE, <<>>)]

Call(t) ==
  /\ IsReply(call[t])
  /\ \E op \in Ops : call' = [call EXCEPT ![t] = op]
  /\ UNCHANGED <<mode, store>>

Returns(t, ok, cells) == call' = [call EXCEPT ![t] = Reply(ok, cells)]

ReadOk(t) ==
  /\ ~IsReply(call[t]) /\ ~call[t].write
  /\ call[t].at + call[t].len <= Len(store)
  /\ Returns(t, TRUE, SubSeq(store, call[t].at + 1, call[t].at + call[t].len))
  /\ UNCHANGED <<mode, store>>

WriteOk(t) ==
  /\ ~IsReply(call[t]) /\ Takes(call[t])
  /\ store' = Overlay(store, call[t].at, call[t].len, t)
  /\ Returns(t, TRUE, <<>>)
  /\ UNCHANGED mode

Fail(t) ==
  /\ ~IsReply(call[t])
  /\ Returns(t, FALSE, <<>>)
  /\ \/ UNCHANGED store
     \/ /\ Takes(call[t])
        /\ \E n \in 1..call[t].len : store' = Overlay(store, call[t].at, n, t)
  /\ UNCHANGED mode

Next == \E t \in Threads : Call(t) \/ ReadOk(t) \/ WriteOk(t) \/ Fail(t)

Spec == Init /\ [][Next]_vars
=============================================================================
