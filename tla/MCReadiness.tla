----------------------------- MODULE MCReadiness -----------------------------
(* Small instances of ReadinessWorker for TLC. *)
EXTENDS ReadinessProperties

CONSTANTS s1, s2

OneSlot == {s1}
TwoSlots == {s1, s2}

Req(kind, head, body) == [kind |-> kind, head |-> head, body |-> body, extra |-> 0]

\* The last one is larger than a MaxRead of 2, and takes three reads to be found so.
Exchanges == {Req("response", 1, 1), Req("static", 1, 0), Req("proxy", 1, 0),
              Req("response", 3, 0)}
Followed == {[Req("static", 1, 0) EXCEPT !.extra = 1], Req("response", 1, 3),
             Req("proxy", 1, 0)}
Mixed == {Req("static", 1, 1), Req("invalid", 1, 0), Req("proxy", 1, 0)}
Streams == {Req("static", 1, 0), Req("proxy", 1, 0)}
Proxied == {Req("proxy", 1, 0)}
=============================================================================
