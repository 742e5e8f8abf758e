------------------------- MODULE ReadinessProperties -------------------------
(***************************************************************************)
(* What the readiness worker promises: safety, what a step may never do,   *)
(* and liveness.                                                           *)
(***************************************************************************)
EXTENDS ReadinessWorker

-----------------------------------------------------------------------------
(* Safety.                                                                   *)

Names(id, cid) == is_current(w, id) => ConnOf(w, id).cid = cid

\* An id (slot and generation) in an undispatched event, a queued or running
\* lookup or an answer either is stale or names the connection it was made for:
\* dispatch and finish_resolution never act on the slot's next occupant.
IdsNameOneConnection ==
  /\ \A ev \in ready.sockets : Names(ev.id, ev.cid)
  /\ \A t \in w.tasks \cup dns.running \cup dns.results : Names(t.id, t.cid)

\* Whatever the order of errors, timeouts, chunks and upstream reads, the bytes
\* write_ready puts on a client's socket are a prefix of one response, each
\* sent once and in order.
OneResponse == \A k \in 1 .. MaxClients : ~w.wire[k].torn

\* When the loop goes to wait in poll, a client that is still sending its request
\* and has unread bytes, a FIN or an error will be reported: connection_ready
\* consumed the edge completely.
ReadEdgeKept ==
  pc = "poll" => \A s \in Slots :
    LET c == w.conns[s]
    IN  c.phase = "Reading" /\ (c.sock.inq > 0 \/ c.sock.fin \/ c.sock.err)
          => c.sock.armed /\ "R" \in c.sock.interest

\* When the loop goes to wait in poll, output that the client's socket can take
\* is either rescheduled in pending_writes or will be reported writable.
WriteEdgeKept ==
  pc = "poll" => \A s \in Slots :
    LET c == w.conns[s]
    IN  c.off < c.len /\ (c.sock.space > 0 \/ c.sock.err)
          => \/ IdOf(w, s) \in w.pending_writes
             \/ c.sock.armed /\ "W" \in c.sock.interest

\* The same for the upstream socket: a request that can still be written and a
\* response (or its end) that can be read into the empty buffer are scheduled or
\* will be reported.
UpstreamEdgeKept ==
  pc = "poll" => \A s \in Slots :
    LET c == w.conns[s]
        k == c.proxy.sock
    IN  c.phase = "Proxying" =>
          /\ c.proxy.phase # "ReadingResponse" /\ (k.space > 0 \/ k.err)
               => IdOf(w, s) \in w.pending_upstream_writes \/ k.armed
          /\ c.proxy.phase = "ReadingResponse" /\ c.len = 0 /\ (k.inq > 0 \/ k.fin \/ k.err)
               => IdOf(w, s) \in w.pending_upstream_reads \/ k.armed

\* No edge is lost: what is ready when the loop waits in poll has been rescheduled by
\* the handler that left it, or will be reported.
EdgesKept == ReadEdgeKept /\ WriteEdgeKept /\ UpstreamEdgeKept

\* When the loop goes to wait in poll, clients still in the listener's backlog
\* will be reported: accept_ready emptied it.
AcceptEdgeKept ==
  pc = "poll" /\ listener.waiting > 0 /\ ~w.draining => listener.armed

-----------------------------------------------------------------------------
(* What a step may never do.                                                 *)

\* The connection c of slot s is gone after the step.
Ends(s, c) == w'.conns[s].phase = "Vacant" \/ w'.conns[s].cid # c.cid

Complete(line) == line.len = IF line.src = "response" THEN ResponseLen ELSE line.want

\* Its response is queued or streaming, or its whole request is there to be answered.
Answerable(c) ==
  \/ IsWritingResponse(c)
  \/ c.phase = "Reading" /\ c.sent >= c.req.head + c.req.body /\ ~w'.draining

\* A response is delivered whole before its slot is freed, through begin_shutdown too
\* once it is queued, unless a reset, a read error of the file or a deadline ends it
\* first.  Bytes beyond the request do not disturb it.  Nor does the end of the
\* client's stream, except for a proxied request, which it gives up, and between two
\* chunks of a file.
ResponsesAreDelivered ==
  [][\A s \in Occupied(w) : LET c == w.conns[s] IN
       /\ Ends(s, c) /\ Answerable(c)
       /\ ~(c.sock.err \/ c.idle \/ c.stream.bad \/ stop.deadline)
       /\ c.sock.fin => ~c.stream.on /\ c.req.kind # "proxy"
       => Complete(w'.wire[c.cid])]_vars

\* close_idle_connections never drops a queued response before anything was sent
\* to the client, whose socket then still has room for it.
IdleSparesUnsentResponse ==
  [][pc = "idle connections" =>
       \A s \in Occupied(w) : LET c == w.conns[s] IN
         Ends(s, c) => ~(IsWritingResponse(c) /\ w.wire[c.cid].len = 0)]_vars

\* begin_shutdown leaves the requests that are being resolved or proxied to finish
\* before the drain deadline.
ShutdownKeepsActiveWork ==
  [][~w.draining /\ w'.draining =>
       \A s \in Occupied(w) : IsHandlingRequest(w.conns[s]) => ~Ends(s, w.conns[s])]_vars

-----------------------------------------------------------------------------
(* What the worker implements.  A registered client whose slot is free is    *)
(* done with.  A shutdown may cut clients: begin_shutdown those that have no *)
(* output queued, write_ready those whose upstream has more to send.         *)

Fate(k) ==
  IF k > accepted THEN "absent"
  ELSE IF \E s \in Slots : w.conns[s].cid = k THEN "open"
  ELSE IF w.wire[k].torn THEN "torn"
  ELSE IF w.wire[k].len > 0 /\ Complete(w.wire[k]) THEN "whole"
  ELSE "cut"

Served == INSTANCE Service WITH
  Clients <- 1 .. MaxClients,
  Limit <- MaxConnections,
  Cuts <- {"drain"} \cup IF Faults # {} \/ Timers \cap {"idle", "phase"} # {} THEN {"fault"} ELSE {},
  phase <- CASE ~Running -> IF stop.deadline THEN "expired" ELSE "drained"
             [] OTHER -> IF w.draining THEN "draining" ELSE "serving",
  client <- [k \in 1 .. MaxClients |-> Fate(k)]

\* The readiness worker implements Service: whatever the order of events, edges and
\* shutdown, clients are admitted within the limit and before a drain, and each
\* connection ends once.  With no faults or deadlines in the instance it ends after one
\* whole response, unless a shutdown cuts it.
ReadinessServes == Served!Spec

-----------------------------------------------------------------------------
(* Liveness.  The worker thread runs.  In FairPeers some client, upstream,   *)
(* resolver or file thread that can go on does; in FairClock only time is    *)
(* sure to pass.                                                             *)

Peers ==
  \/ ResolverTakes \/ ResolverAnswers
  \/ \E s \in Slots :
       \/ ClientSends(s) \/ ClientReads(s) \/ UpstreamConnects(s) \/ UpstreamReads(s)
       \/ UpstreamSends(s) \/ UpstreamCloses(s) \/ ProducerSends(s) \/ ProducerEnds(s)

FairPeers == Spec /\ WF_vars(Worker) /\ WF_vars(Peers)
FairClock == Spec /\ WF_vars(Worker) /\ SF_vars(Clock)

HasWholeResponse(k) ==
  w.wire[k].len = w.wire[k].want /\ \A s \in Slots : w.conns[s].cid # k

\* With peers that keep going and no deadline, every registered client is sent its
\* whole response and its slot is freed, unless a shutdown is requested: no edge,
\* wakeup or rescheduling is lost, and the read budget leaves nothing behind.
EveryClientIsAnswered ==
  accepted > 0 ~> stop.requested \/ \A k \in 1 .. accepted : HasWholeResponse(k)

\* Whatever clients, upstreams, resolvers and file threads fail to do, the idle
\* and phase deadlines free every slot.
EverySlotIsFreed ==
  \A k \in 1 .. MaxClients :
    (\E s \in Slots : w.conns[s].cid = k) ~> (\A s \in Slots : w.conns[s].cid # k)

\* A requested shutdown ends the worker, by finishing its output or by the drain
\* deadline.
ShutdownEnds == stop.requested ~> ~Running

=============================================================================
