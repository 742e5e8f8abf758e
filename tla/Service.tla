------------------------------- MODULE Service -------------------------------
(***************************************************************************)
(* What a worker promises its clients, whichever backend it runs on: a     *)
(* client is admitted at most once, while the worker serves and has room,  *)
(* and its connection ends once it has been sent one whole response.  The  *)
(* readiness worker and the io_uring worker are shown to implement this    *)
(* specification, under the mappings of ReadinessProperties and            *)
(* UringProperties.                                                        *)
(***************************************************************************)
EXTENDS Naturals, FiniteSets

CONSTANTS
  Clients,   (* the clients that may come                                     *)
  Limit,     (* connections open at once                                      *)
  Cuts       (* what may end a connection before its response is whole:       *)
             (* "fault", a peer, a file or a deadline of the connection;      *)
             (* "drain", a shutdown                                           *)

VARIABLES
  phase,     (* "serving", "draining", "drained" or "expired"                 *)
  client     (* what became of each client                                    *)

view == <<phase, client>>

Open == {k \in Clients : client[k] = "open"}

\* How a connection may end when a cut is allowed or not.
Endings(cut) == IF cut THEN {"whole", "cut"} ELSE {"whole"}

\* The clients in K are closed, each with one of the given endings.
Closed(K, endings) ==
  \E end \in [K -> endings] :
    client' = [k \in Clients |-> IF k \in K THEN end[k] ELSE client[k]]

Admit(k) ==
  /\ phase = "serving" /\ client[k] = "absent" /\ Cardinality(Open) < Limit
  /\ client' = [client EXCEPT ![k] = "open"]
  /\ UNCHANGED phase

Close(k) ==
  /\ phase \in {"serving", "draining"} /\ client[k] = "open"
  /\ Closed({k}, Endings("fault" \in Cuts \/ (phase = "draining" /\ "drain" \in Cuts)))
  /\ UNCHANGED phase

\* A worker that starts to drain with nothing left to do may end at once.
Drain ==
  /\ phase = "serving"
  /\ \E K \in SUBSET (IF "drain" \in Cuts THEN Open ELSE {}) : Closed(K, Endings(TRUE))
  /\ phase' \in {"draining"} \cup (IF Open' = {} THEN {"drained"} ELSE {})

End ==
  /\ phase = "draining" /\ Open = {}
  /\ phase' = "drained"
  /\ UNCHANGED client

\* The drain deadline closes what is left.
Expire ==
  /\ phase = "draining"
  /\ Closed(Open, Endings(TRUE))
  /\ phase' = "expired"

Init == phase = "serving" /\ client = [k \in Clients |-> "absent"]

Next == Drain \/ End \/ Expire \/ \E k \in Clients : Admit(k) \/ Close(k)

Spec == Init /\ [][Next]_view

=============================================================================
