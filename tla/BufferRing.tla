----------------------------- MODULE BufferRing ------------------------------
(***************************************************************************)
(* ProvidedBufferRing (run/slave/src/runtime/io_uring/buffer_ring.rs): the *)
(* receive buffers the worker shares with the kernel.  The worker publishes *)
(* a buffer by writing a descriptor behind the tail and then storing the   *)
(* tail; the kernel, concurrently, takes descriptors from its head, fills  *)
(* the buffers and lends each with a completion.  Indices are u16.         *)
(***************************************************************************)
EXTENDS Integers, Sequences, FiniteSets, Functions

CONSTANTS
  Size,      \* entry_count
  Wrap,      \* 2^16
  InFlight   \* bound: receives the kernel does at once

\* register refuses what is not a power of two up to 2^15.
ASSUME RingAssumption ==
  /\ Size \in Nat \ {0} /\ Wrap \in Nat \ {0}
  /\ Size < Wrap /\ Wrap % Size = 0
  /\ InFlight \in Nat

VARIABLES
  entries,   \* the buffer each descriptor names
  tail,      \* the worker's tail
  shown,     \* the tail in shared memory
  head,      \* the kernel's head
  filling,   \* buffers receives have taken
  lent,      \* the buffers named by the completion queue, in order
  op         \* copy_and_release: [step, id, copied]; step 0 is idle

vars == <<entries, tail, shown, head, filling, lent, op>>

Ids == 0 .. Size - 1

Idle == [step |-> 0, id |-> 0, copied |-> FALSE]

\* register publishes every buffer before the kernel knows the ring.
Init ==
  /\ entries = [i \in Ids |-> i]
  /\ tail = Size /\ shown = Size /\ head = 0 /\ filling = {}
  /\ lent = <<>> /\ op = Idle

-----------------------------------------------------------------------------
(* The kernel.                                                               *)

\* A receive takes the next buffer ...
Take ==
  /\ head # shown /\ Cardinality(filling) < InFlight
  /\ head' = (head + 1) % Wrap
  /\ filling' = filling \cup {entries[head % Size]}
  /\ UNCHANGED <<entries, tail, shown, lent, op>>

\* ... and completes, in any order with the receives of other sockets.
Post ==
  /\ \E i \in filling :
       /\ filling' = filling \ {i}
       /\ lent' = Append(lent, i)
  /\ UNCHANGED <<entries, tail, shown, head, op>>

-----------------------------------------------------------------------------
(* The worker: copy_and_release for the next completion.                     *)

\* Mutant: the buffer is published before its bytes are copied.
Order_late == <<"entry", "tail", "copy">>

\* Mutant: the buffer is published twice.
Order_twice == <<"copy", "entry", "tail", "entry", "tail">>

Order == <<"copy", "entry", "tail">>

At(step) == op.step # 0 /\ Order[op.step] = step
Stepped(o) == IF o.step = Len(Order) THEN Idle ELSE [o EXCEPT !.step = @ + 1]

Complete ==
  /\ op.step = 0 /\ lent # <<>>
  /\ op' = [Idle EXCEPT !.step = 1, !.id = Head(lent)]
  /\ lent' = Tail(lent)
  /\ UNCHANGED <<entries, tail, shown, head, filling>>

\* buffer[..length].to_vec()
Copy ==
  /\ At("copy")
  /\ op' = Stepped([op EXCEPT !.copied = TRUE])
  /\ UNCHANGED <<entries, tail, shown, head, filling, lent>>

\* tail & mask
Index(t) == t % Size

PublishEntry ==
  /\ At("entry")
  /\ entries' = [entries EXCEPT ![Index(tail)] = op.id]
  /\ tail' = (tail + 1) % Wrap
  /\ op' = Stepped(op)
  /\ UNCHANGED <<shown, head, filling, lent>>

\* Mutant: the tail is stored as it was before the descriptor was added.
Stored_before == (tail + Wrap - 1) % Wrap

Stored == tail

\* The store after the release fence.
PublishTail ==
  /\ At("tail")
  /\ shown' = Stored
  /\ op' = Stepped(op)
  /\ UNCHANGED <<entries, tail, head, filling, lent>>

Worker == Complete \/ Copy \/ PublishEntry \/ PublishTail

Next == Take \/ Post \/ Worker

Spec == Init /\ [][Next]_vars

\* The worker handles completions while there are any.
FairSpec == Spec /\ WF_vars(Worker)

-----------------------------------------------------------------------------
\* The buffers the kernel can take, and those whose bytes are still to be copied.
Count == (shown - head) % Wrap
Offered == {entries[(head + i) % Size] : i \in 0 .. Count - 1}
Lent == Range(lent) \cup {i \in Ids : op.step # 0 /\ ~op.copied /\ i = op.id}

\* Whenever the kernel looks, the descriptors between its head and the tail name
\* different buffers, none of which it has already taken or lent: the ring is never
\* overrun, and no stale descriptor comes back when the indices wrap.
DescriptorsAreFresh ==
  /\ Cardinality(Offered) = Count
  /\ IsInjective(lent)
  /\ Offered \cap (filling \cup Range(lent)) = {} /\ filling \cap Range(lent) = {}

Pool == INSTANCE BufferPool WITH
  owner <- [i \in Ids |-> IF i \in Offered \cup filling THEN "kernel"
                          ELSE IF i \in Lent THEN "lent" ELSE "copied"]

\* The ring implements BufferPool: the kernel never takes or fills a buffer whose bytes
\* copy_and_release has still to copy, and gets each back after they were copied.
RingIsAPool == Pool!Spec

\* Every lent buffer is offered to the kernel again, so the ring does not run dry
\* while completions are handled.
EveryBufferReturns == \A i \in Ids : i \in Lent ~> i \in Offered

=============================================================================
