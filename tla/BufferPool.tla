----------------------------- MODULE BufferPool ------------------------------
(***************************************************************************)
(* What the provided buffers promise: each receive buffer is the kernel's, *)
(* lent with a completion, or copied by the worker, and goes from one to   *)
(* the next in this order: the kernel never has a buffer whose bytes are   *)
(* still to be copied.                                                     *)
(***************************************************************************)
CONSTANT Ids

VARIABLE owner   \* of each buffer: "kernel", "lent" or "copied"

Init == owner = [i \in Ids |-> "kernel"]

Moves(i, from, to) == owner[i] = from /\ owner' = [owner EXCEPT ![i] = to]

Lend(i) == Moves(i, "kernel", "lent")
Copy(i) == Moves(i, "lent", "copied")
Return(i) == Moves(i, "copied", "kernel")

Next == \E i \in Ids : Lend(i) \/ Copy(i) \/ Return(i)

Spec == Init /\ [][Next]_owner

=============================================================================
