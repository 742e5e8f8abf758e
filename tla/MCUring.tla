------------------------------ MODULE MCUring ------------------------------
(* Small instances of UringWorker for TLC. *)
EXTENDS UringProperties, TLC

CONSTANTS s1, s2

Req(kind, head, body) == [kind |-> kind, head |-> head, body |-> body]

OneSlot == {s1}
TwoSlots == {s1, s2}

AllRequests == {Req("response", 1, 1), Req("static", 1, 0), Req("proxy", 1, 0),
                Req("invalid", 1, 0), Req("response", 1, 9)}
PlainOnly == {Req("response", 1, 0)}
Streams == {Req("static", 1, 0), Req("proxy", 1, 0)}

SlotSymmetry == Permutations(TwoSlots)
=============================================================================
