--------------------------- MODULE UringProperties ---------------------------
(***************************************************************************)
(* What the io_uring worker promises: safety, what a step may never do,    *)
(* and liveness.                                                           *)
(***************************************************************************)
EXTENDS UringWorker

Posted == cq \cup batch
Count(S) == Cardinality(S)

-----------------------------------------------------------------------------
(* Safety.                                                                   *)

\* The operations and completions of one kind that belong to the connection in s.
Outstanding(s, kinds) ==
  Count({o \in w.ops : o.kind \in kinds /\ o.id = IdOf(w, s) /\ o.cid = w.conns[s].cid})
    + Count({e \in Posted : e.kind \in kinds /\ e.id = IdOf(w, s) /\ e.cid = w.conns[s].cid})

AcceptFlagMatches ==
  w.accept.pending <=> \/ InRing("accept") # {}
                       \/ \E e \in Posted : e.kind = "accept" /\ ~e.more

\* read_pending, write_pending, operation_pending and accept_pending say exactly
\* what is in the ring or completed and not handled.  A flag left set would leave
\* the connection waiting for good, one left clear would push the operation twice.
PendingFlagsMatchTheRing ==
  /\ AcceptFlagMatches
  /\ \A s \in Live(w) : LET c == w.conns[s] IN
       /\ Outstanding(s, {"read"}) = IF c.read_pending THEN 1 ELSE 0
       /\ Outstanding(s, {"write"}) = IF c.write_pending THEN 1 ELSE 0
       /\ Outstanding(s, {"connect", "upwrite", "upread"})
            = IF c.proxy.on /\ c.proxy.pending THEN 1 ELSE 0

Names(id, cid) == is_current(w, id) => ConnOf(w, id).cid = cid

\* An id in an operation, a completion, a lookup or an answer either is stale or
\* names the connection it was made for: no late answer and no cancellation acts
\* on the slot's next occupant.
UringIdsNameOneConnection ==
  /\ \A o \in w.ops \cup Posted : o.id # NoId => Names(o.id, o.cid)
  /\ \A t \in w.tasks \cup dns.running \cup dns.results \cup dns.drained : Names(t.id, t.cid)

\* A cancellation of check_proxy_timeouts can only end the operation whose deadline
\* passed: whatever it would find in the ring belongs to a proxy marked timed_out,
\* never to the next address, phase or read of the same connection.
CancelsEndTimedOutWork ==
  \A k \in InRing("proxy cancel") : \A o \in CancelTarget(k) :
    has_current_proxy(w, o.id) /\ ConnOf(w, o.id).proxy.timed_out

\* Every provided buffer is in the ring or in a completion that is yet to be
\* handled: no path of the receive handlers drops one or publishes one twice.
BuffersAreConserved == w.free + Count({e \in Posted : e.buf}) = Buffers

\* Whatever the order of errors, timeouts, cancellations, chunks and upstream reads,
\* the bytes sent to a client are a prefix of one response, each once and in order.
UringOneResponse ==
  /\ \A s \in Live(w) : ~w.conns[s].wire.torn
  /\ \A k \in 1 .. MaxClients : w.outcome[k] # "torn"

\* Through failed accepts, their resubmission and their cancellation accept_pending is
\* exact, and a worker that leaves run() before the drain deadline leaves nothing
\* behind: no connection, no accept in the ring and no accepted client in a completion.
DrainLeavesNothing ==
  /\ AcceptFlagMatches
  /\ pc = "exited" =>
       Live(w) = {} /\ InRing("accept") = {} /\ \A e \in Posted : e.kind # "accept"

-----------------------------------------------------------------------------
(* What a step may never do.                                                 *)

\* The memory of the worker that the kernel reads for o.
Memory(ws, o) ==
  LET c == ws.conns[o.id.slot]
  IN  CASE o.kind = "write" -> <<c.cid, c.src, c.pos, c.len, c.off, c.ssl.ctl, c.ssl.app>>
        [] o.kind = "upwrite" -> <<c.cid, c.proxy.on, c.proxy.off>>
        [] OTHER -> <<c.cid, c.proxy.on, c.proxy.untried>>

\* While a send or a connect is in the ring, the connection it was built from lives
\* and the bytes it points to are neither freed, replaced nor moved on.
RingMemoryIsStable ==
  [][\A o \in w.ops \cap w'.ops :
       o.kind \in {"write", "upwrite", "connect"} => Memory(w', o) = Memory(w, o)]_vars

\* The connection c of slot s is gone after the step.
Ends(s, c) == w'.conns[s].cid # c.cid

\* The peer, a deadline or a failure of the machine made the worker give it up.
GaveUp(c) ==
  \/ Faults \cap {"halfclose", "reset"} # {} \/ "handshake" \in Timers
  \/ c.req.kind = "proxy" /\ ("upstream" \in Faults \/ c.proxy.due \/ c.proxy.timed_out)
  \/ c.req.kind = "static" /\ "file" \in Faults

\* A connection the worker closes of its own accord has been sent its whole response.
UringClosesOnlyWhenAnswered ==
  [][\A s \in Live(w) : LET c == w.conns[s] IN
       Ends(s, c) => GaveUp(c) \/ w'.outcome[c.cid] = "whole"]_vars

\* With sockets to be had, a failed connect is answered with an error only after every
\* resolved address has been tried.
UringTriesEveryAddress ==
  [][\A s \in Live(w) : LET c == w.conns[s] IN
       /\ c.proxy.on /\ c.proxy.phase = "Connecting" /\ ~c.proxy.timed_out
       /\ ~Ends(s, c) /\ ~w'.conns[s].proxy.on
       => c.proxy.untried = 0]_vars

-----------------------------------------------------------------------------
(* What the worker implements.                                               *)

\* The drain deadline drops the connections with the worker.
Fate(k) ==
  IF \E s \in Slots : w.conns[s].cid = k
  THEN IF pc = "expired" THEN Outcome(w.conns[CHOOSE s \in Slots : w.conns[s].cid = k])
                         ELSE "open"
  ELSE IF w.outcome[k] = "none" THEN "absent" ELSE w.outcome[k]

Served == INSTANCE Service WITH
  Clients <- 1 .. MaxClients,
  Limit <- MaxConnections,
  Cuts <- IF \/ Faults \cap {"halfclose", "reset", "upstream", "file"} # {}
             \/ Timers \cap {"phase", "handshake"} # {}
          THEN {"fault"} ELSE {},
  phase <- CASE pc = "exited" -> "drained"
             [] pc = "expired" -> "expired"
             [] OTHER -> IF w.shutting_down THEN "draining" ELSE "serving",
  client <- [k \in 1 .. MaxClients |-> Fate(k)]

\* The io_uring worker implements Service, and a shutdown cuts nobody: whatever the
\* order of completions, clients are admitted within the limit and before the drain,
\* and each connection ends once, after one whole response unless a fault cuts it.
UringServes == Served!Spec

-----------------------------------------------------------------------------
(* Liveness.  The worker thread runs and the kernel delivers timer ticks,    *)
(* eventfd wakeups and cancellations; some client, upstream, resolver or     *)
(* file thread that can go on does, and the drain deadline comes.            *)

Peers ==
  \/ ClientSends \/ ClientReads \/ UpstreamConnects \/ UpstreamReads \/ UpstreamSends
  \/ UpstreamCloses \/ Resolver \/ Producers

\* Peers, kernel and clock go on while the worker dispatches; they are strongly fair
\* because the model lets them act only while it waits.
FairSpec ==
  Spec /\ WF_vars(Worker) /\ SF_vars(TimerTicks)
       /\ SF_vars(Cancels) /\ SF_vars(DnsWakes) /\ SF_vars(Peers) /\ SF_vars(DeadlineReached)

\* Every client given a slot is sent its whole response, as far as its upstream had
\* one, and the slot is freed, unless the drain deadline comes first: no completion,
\* wakeup or resubmission is lost.
UringEveryClientIsAnswered ==
  \A k \in 1 .. MaxClients :
    (\E s \in Slots : w.conns[s].cid = k)
      ~> \/ pc = "expired" \/ w.outcome[k] = "whole"
         \/ w.outcome[k] = "cut" /\ "upstream" \in Faults

\* A requested shutdown ends the worker, by finishing its connections or by the
\* drain deadline.
UringShutdownEnds == requested ~> ~Running

=============================================================================
