--------------------------- MODULE ReadinessWorker ---------------------------
(***************************************************************************)
(* The readiness worker of thwip (run/slave/src/runtime/readiness): one    *)
(* thread that owns a slab of client connections, polls edge-triggered     *)
(* sockets through mio, and answers every connection from a fixed          *)
(* response, a streamed static file or a proxied upstream.                 *)
(*                                                                         *)
(* The handlers of worker.rs are operators from the worker's state w to    *)
(* its next state, composed as the code composes them; the actions at the  *)
(* end are the steps of ReadinessWorker::run and of its environment: the   *)
(* clients, the upstreams, the resolver threads, the file-reading threads  *)
(* and the clock.  Sockets are plaintext; bytes are counted in units, one  *)
(* unit being what one read() or write() call moves.                       *)
(***************************************************************************)
EXTENDS Integers, FiniteSets

CONSTANTS
  Slots,            (* keys of the connection slab                            *)
  MaxConnections,   (* limits.max_connections                                 *)
  GenMax,           (* GENERATION_MASK of token.rs                            *)
  MaxClients,       (* bound: clients that ever connect                       *)
  Requests,         (* request shapes a client may send: units of its head and *)
                    (* body, and units it sends beyond them (extra)            *)
  MaxRead,          (* limits.max_read_buffer_size                            *)
  MaxWrite,         (* limits.max_write_buffer_size                           *)
  ReadBudget,       (* MAX_READS_PER_EVENT                                    *)
  WriteBudget,      (* MAX_WRITES_PER_EVENT                                   *)
  RespLen,          (* length of a fixed response, or of a static file's head *)
  Chunks,           (* chunks of a streamed file                              *)
  ChunkLen,         (* STREAM_CHUNK_SIZE                                      *)
  ChanCap,          (* capacity of the producer's sync_channel                *)
  UpReqLen,         (* length of the request sent upstream                    *)
  UpLen,            (* length of the upstream's response                      *)
  UpReadMax,        (* the 8 KiB buffer of read_upstream_response             *)
  MaxAddresses,     (* bound: addresses one lookup returns                    *)
  SendBuf,          (* kernel send buffer of a socket                         *)
  DnsThreads,       (* dns_limits.resolver_threads                            *)
  MaxEvents,        (* capacity of the poll buffer                            *)
  Faults,           (* environment misbehaviour to include                    *)
  Timers,           (* deadlines that may elapse                              *)
  IdleDuringProxy   (* idle_timeout can elapse while a request is proxied     *)

Kinds == {"response", "static", "proxy", "invalid"}
FaultKinds == {"halfclose", "reset", "register", "accept", "dns", "upstream", "file"}
TimerKinds == {"idle", "phase", "drain"}

ASSUME SizeAssumption ==
  /\ MaxConnections \in Nat \ {0} /\ GenMax \in Nat \ {0} /\ MaxClients \in Nat
  /\ MaxClients <= GenMax
  /\ MaxRead \in Nat \ {0} /\ MaxWrite \in Nat \ {0}
  /\ ReadBudget \in Nat \ {0} /\ WriteBudget \in Nat \ {0}
  /\ RespLen \in Nat \ {0} /\ Chunks \in Nat \ {0} /\ ChunkLen \in Nat \ {0}
  /\ ChanCap \in Nat \ {0} /\ UpReqLen \in Nat \ {0} /\ UpLen \in Nat \ {0}
  /\ UpReadMax \in Nat \ {0} /\ MaxAddresses \in Nat \ {0} /\ SendBuf \in Nat \ {0}
  /\ DnsThreads \in Nat \ {0} /\ MaxEvents \in Nat \ {0}

ASSUME SlotAssumption == IsFiniteSet(Slots) /\ MaxConnections <= Cardinality(Slots)

ASSUME RequestAssumption ==
  Requests \subseteq [kind : Kinds, head : Nat \ {0}, body : Nat, extra : Nat]

ASSUME EnvironmentAssumption ==
  Faults \subseteq FaultKinds /\ Timers \subseteq TimerKinds /\ IdleDuringProxy \in BOOLEAN

VARIABLES
  w,          (* struct ReadinessWorker, with the sockets it owns            *)
  gens,       (* generations: the last generation given to each slot         *)
  pc,         (* where ReadinessWorker::run is                               *)
  work,       (* ids the current stage of the loop has yet to serve          *)
  ready,      (* the batch of events the last poll returned, not dispatched  *)
  listener,   (* the listening socket: waiting clients and its epoll edge    *)
  dns,        (* lookups running in the resolver threads, answers, waker     *)
  accepted,   (* clients registered so far; numbers them                     *)
  stop        (* ShutdownHandle requested; drain deadline elapsed            *)

vars == <<w, gens, pc, work, ready, listener, dns, accepted, stop>>

-----------------------------------------------------------------------------
(* Sockets as edge-triggered epoll presents them.  armed: the socket is on   *)
(* the ready list, so the next poll looks at it.                             *)

NoSocket ==
  [inq |-> 0, fin |-> FALSE, err |-> FALSE, space |-> 0, interest |-> {}, armed |-> FALSE]

\* register and reregister put the socket on the ready list again.
Register(k, interest) == [k EXCEPT !.interest = interest, !.armed = TRUE]

Readable(k) == "R" \in k.interest /\ (k.inq > 0 \/ k.fin \/ k.err)
Writable(k) == "W" \in k.interest /\ (k.space > 0 \/ k.err)
HasEvent(k) == k.armed /\ k.interest # {} /\ (Readable(k) \/ Writable(k) \/ k.err)

\* A kernel-side change reaches the ready list only if the interest covers it.
Arrives(k, side) == [k EXCEPT !.armed = @ \/ side \in k.interest]

\* One more unit to read; room for one more unit to write.
Received(k) == Arrives([k EXCEPT !.inq = @ + 1], "R")
Freed(k) == Arrives([k EXCEPT !.space = @ + 1], "W")

\* What a loop of writes moves before the budget, the buffer or the socket ends it.
Written(k, left) ==
  LET m == IF left < WriteBudget THEN left ELSE WriteBudget
  IN  IF m < k.space THEN m ELSE k.space

-----------------------------------------------------------------------------
(* Connections.  A vacant slab entry is the record Vacant.                   *)

NoStream == [on |-> FALSE, queued |-> 0, left |-> 0, open |-> FALSE, bad |-> FALSE]
NoProxy == [phase |-> "Connecting", off |-> 0, eof |-> FALSE, started |-> FALSE,
            untried |-> 0, sock |-> NoSocket, up |-> FALSE, todo |-> 0]
NoRequest == [kind |-> "invalid", head |-> 1, body |-> 0, extra |-> 0]

Vacant ==
  [phase |-> "Vacant", gen |-> 1, cid |-> 0, req |-> NoRequest, sent |-> 0, read |-> 0,
   src |-> "response", pos |-> 0, len |-> 0, off |-> 0, sock |-> NoSocket,
   stream |-> NoStream, proxy |-> NoProxy, idle |-> FALSE, due |-> FALSE]

\* Connection::new: reading, nothing buffered, registered for readable events.
NewConnection(gen, cid, req) ==
  [Vacant EXCEPT !.phase = "Reading", !.gen = gen, !.cid = cid, !.req = req,
                 !.sock = Register([NoSocket EXCEPT !.space = SendBuf], {"R"})]

IsHandlingRequest(c) == c.phase \in {"Resolving", "Proxying"}
IsWritingResponse(c) == c.phase = "WritingResponse"
Drained(c) == c.off = c.len

\* ProxyState::new on a socket that is still connecting.
NewProxy(untried) ==
  [NoProxy EXCEPT !.untried = untried, !.todo = UpLen,
                  !.sock = Register(NoSocket, {"R", "W"})]

Ids == [slot : Slots, gen : 1 .. GenMax]
IdOf(ws, s) == [slot |-> s, gen |-> ws.conns[s].gen]
Occupied(ws) == {s \in Slots : ws.conns[s].phase # "Vacant"}
ConnOf(ws, id) == ws.conns[id.slot]
Put(ws, id, c) == [ws EXCEPT !.conns[id.slot] = c]

is_current(ws, id) == ConnOf(ws, id).phase # "Vacant" /\ ConnOf(ws, id).gen = id.gen

\* Mutant: the slot keeps its first generation.
next_generation_fixed(g) == IF g = 0 THEN 1 ELSE g

next_generation(g) == IF g = GenMax THEN 1 ELSE g + 1

-----------------------------------------------------------------------------
(* Handlers.  ok says which (re)registrations of this call succeed: the     *)
(* client's socket and the upstream's.                                       *)

Outcomes ==
  IF "register" \in Faults THEN [client : BOOLEAN, upstream : BOOLEAN]
                           ELSE {[client |-> TRUE, upstream |-> TRUE]}

remove_connection(ws, id) ==
  IF is_current(ws, id)
  THEN [ws EXCEPT !.conns[id.slot] = Vacant,
                  !.pending_writes = @ \ {id},
                  !.pending_upstream_writes = @ \ {id},
                  !.pending_upstream_reads = @ \ {id}]
  ELSE ws

Listen(c, interest) == [c EXCEPT !.sock = Register(@, interest)]

reregister_client(ws, id, interest, ok) ==
  IF ok.client
  THEN Put(ws, id, Listen(ConnOf(ws, id), interest))
  ELSE remove_connection(ws, id)

\* Without TLS there is no close_notify to send first.
close_client(ws, id) == remove_connection(ws, id)

\* A response larger than max_write_buffer_size becomes a one-unit 500.
ResponseLen == IF RespLen > MaxWrite THEN 1 ELSE RespLen

\* begin_response drops a resolution or proxy the connection still holds.
Queued(c, src) ==
  [c EXCEPT !.phase = "WritingResponse", !.proxy = NoProxy, !.due = FALSE,
            !.src = src, !.pos = 0, !.len = ResponseLen, !.off = 0]

QueueBytes(ws, id, src, ok) ==
  IF is_current(ws, id)
  THEN reregister_client(Put(ws, id, Queued(ConnOf(ws, id), src)), id, {"W"}, ok)
  ELSE ws

queue_response(ws, id, ok) == QueueBytes(ws, id, "response", ok)

\* static_stream_response has spawned the thread that reads the file.
StartStream(c) ==
  [c EXCEPT !.stream = [on |-> TRUE, queued |-> 0, left |-> Chunks, open |-> TRUE, bad |-> FALSE]]

queue_static_response(ws, id, ok) ==
  IF is_current(ws, id)
  THEN QueueBytes(Put(ws, id, StartStream(ConnOf(ws, id))), id, "static", ok)
  ELSE ws

\* Mutant: the write offset of the previous chunk is kept.
NextChunk_keeping_offset(c) ==
  [c EXCEPT !.src = "static", !.pos = c.pos + c.len, !.len = ChunkLen,
            !.stream.queued = @ - 1]

NextChunk(c) ==
  [c EXCEPT !.src = "static", !.pos = c.pos + c.len, !.len = ChunkLen, !.off = 0,
            !.stream.queued = @ - 1]

\* One try_next: a chunk, a read error, nothing yet, or the end of the file.
\* Here a failed reregistration is returned, and ends the worker.
advance_static_stream(ws, id, ok) ==
  LET c == ConnOf(ws, id)
  IN  IF ~is_current(ws, id) THEN ws
      ELSE IF c.stream.queued = 0 /\ (c.stream.bad \/ ~c.stream.open)
           THEN remove_connection(ws, id)
      ELSE IF ~ok.client THEN [ws EXCEPT !.failed = TRUE]
      ELSE Put(ws, id, IF c.stream.queued > 0 THEN Listen(NextChunk(c), {"W"})
                                              ELSE Listen(c, {"R"}))

\* The client's byte stream so far: the response its first unit came from, how
\* many units, and whether a unit was ever out of place in that response.
Sent(line, c, n) ==
  IF n = 0 THEN line
  ELSE [line EXCEPT !.src = IF line.len = 0 THEN c.src ELSE @,
                    !.len = @ + n,
                    !.torn = @ \/ c.pos + c.off # line.len
                               \/ (line.len > 0 /\ line.src # c.src)]

Cleared(c) == [c EXCEPT !.pos = c.pos + c.len, !.len = 0, !.off = 0]

\* Mutant: the next read of the upstream is left to an edge.
AwaitUpstream_unscheduled(ws, id, ok) ==
  reregister_client(Put(ws, id, Cleared(ConnOf(ws, id))), id, {"R"}, ok)

\* More of the upstream's response is to come.
AwaitUpstream(ws, id, ok) ==
  LET next == reregister_client(Put(ws, id, Cleared(ConnOf(ws, id))), id, {"R"}, ok)
  IN  [next EXCEPT !.pending_upstream_reads = @ \cup {id}]

\* The buffer is out: stream on, read on from the upstream, or close.
WriteFinished(ws, id, ok) ==
  LET c == ConnOf(ws, id)
  IN  IF ~(IsWritingResponse(c) \/ c.phase = "Proxying")
      THEN reregister_client(ws, id, {"R"}, ok)
      ELSE IF c.stream.on THEN advance_static_stream(ws, id, ok)
      ELSE IF c.phase = "Proxying" /\ ~ws.draining /\ ~c.proxy.eof
      THEN AwaitUpstream(ws, id, ok)
      ELSE close_client(ws, id)

Wrote(c, n) == [c EXCEPT !.off = @ + n, !.sock.space = @ - n, !.idle = @ /\ n = 0]

write_ready(ws, id, ok) ==
  LET c == ConnOf(ws, id)
      n == Written(c.sock, c.len - c.off)
      c2 == Wrote(c, n)
      ws2 == [Put(ws, id, c2) EXCEPT !.wire[c.cid] = Sent(@, c, n)]
  IN  IF ~is_current(ws, id) THEN ws
      ELSE IF Drained(c) THEN WriteFinished(ws, id, ok)
      ELSE IF c.sock.err THEN remove_connection(ws, id)
      ELSE IF Drained(c2) THEN WriteFinished(ws2, id, ok)
      ELSE IF n = WriteBudget /\ IsWritingResponse(c)
      THEN [ws2 EXCEPT !.pending_writes = @ \cup {id}]
      ELSE ws2

-----------------------------------------------------------------------------
(* The proxied request: DNS, connect, request out, response in.              *)

BeginResolving(c) == [c EXCEPT !.phase = "Resolving", !.due = FALSE]

start_proxy(ws, id) ==
  [Put(ws, id, BeginResolving(ConnOf(ws, id)))
     EXCEPT !.tasks = @ \cup {[id |-> id, cid |-> ConnOf(ws, id).cid]}]

fail_resolution(ws, id, ok) ==
  IF is_current(ws, id) /\ ConnOf(ws, id).phase = "Resolving"
  THEN queue_response(ws, id, ok) ELSE ws

BeginProxy(c, untried) ==
  [c EXCEPT !.phase = "Proxying", !.due = FALSE, !.proxy = NewProxy(untried)]

\* Only the first address is connected to; connect or register may fail.
finish_resolution(ws, result, ok) ==
  LET id == result.id
      c == ConnOf(ws, id)
  IN  IF ~is_current(ws, id) \/ c.phase # "Resolving" THEN ws
      ELSE IF result.addresses = 0 THEN fail_resolution(ws, id, ok)
      ELSE IF ~ok.upstream THEN queue_response(ws, id, ok)
      ELSE Put(ws, id, BeginProxy(c, result.addresses - 1))

\* Mutant: an error response whatever has been sent.
can_send_error_always(c) == c.phase = "Proxying"

\* An error response goes out only while nothing of the upstream's has.
can_send_error(c) == c.phase = "Proxying" /\ ~c.proxy.started /\ c.len = 0

Detached(c) ==
  IF c.phase = "Proxying"
  THEN [c EXCEPT !.phase = "WritingResponse", !.proxy = NoProxy, !.due = FALSE]
  ELSE c

fail_proxy(ws, id, ok) ==
  LET c == ConnOf(ws, id)
      ws2 == [Put(ws, id, Detached(c)) EXCEPT !.pending_upstream_reads = @ \ {id},
                                              !.pending_upstream_writes = @ \ {id}]
  IN  IF ~is_current(ws, id) THEN ws
      ELSE IF can_send_error(c) THEN queue_response(ws2, id, ok)
      ELSE remove_connection(ws2, id)

\* n units go out.  The phase clock restarts with the phase and with progress.
UpstreamWrote(c, n) ==
  LET p == c.proxy
  IN  [c EXCEPT !.proxy = [p EXCEPT !.phase = "WritingRequest", !.off = @ + n,
                                    !.sock.space = @ - n],
                !.due = @ /\ n = 0 /\ p.phase = "WritingRequest"]

RequestSent(c) ==
  [c EXCEPT !.due = FALSE, !.proxy.phase = "ReadingResponse",
            !.proxy.sock = Register(@, {"R"})]

Progress(c, n) == [c EXCEPT !.idle = @ /\ n = 0]

\* WouldBlock returns before last_progress is recorded on the connection.
write_upstream_request(ws, id, ok) ==
  LET c == ConnOf(ws, id)
      p == c.proxy
      n == Written(p.sock, UpReqLen - p.off)
      c2 == UpstreamWrote(c, n)
      c3 == Progress(c2, n)
  IN  IF ~is_current(ws, id) \/ c.phase # "Proxying" \/ p.phase = "ReadingResponse" THEN ws
      ELSE IF p.sock.err THEN fail_proxy(ws, id, ok)
      ELSE IF p.off + n = UpReqLen
      THEN IF ok.upstream THEN Put(ws, id, RequestSent(c3))
                          ELSE fail_proxy(Put(ws, id, c3), id, ok)
      ELSE IF n < WriteBudget THEN Put(ws, id, c2)
      ELSE [Put(ws, id, c3) EXCEPT !.pending_upstream_writes = @ \cup {id}]

UpstreamEnded(c) == [c EXCEPT !.proxy.eof = TRUE, !.proxy.sock = NoSocket]

mark_upstream_eof(ws, id) ==
  LET c == ConnOf(ws, id)
  IN  IF c.len = 0 THEN remove_connection(ws, id) ELSE Put(ws, id, UpstreamEnded(c))

UpstreamRead(c, n) ==
  [c EXCEPT !.proxy.started = TRUE, !.proxy.sock.inq = @ - n,
            !.src = "upstream", !.len = n, !.off = 0, !.due = FALSE, !.idle = FALSE]

\* One read, and only into an empty write buffer.
read_upstream_response(ws, id, ok) ==
  LET c == ConnOf(ws, id)
      k == c.proxy.sock
      limit == IF UpReadMax < MaxWrite THEN UpReadMax ELSE MaxWrite
      n == IF k.inq < limit THEN k.inq ELSE limit
  IN  IF \/ ~is_current(ws, id) \/ c.phase # "Proxying"
         \/ c.len > 0 \/ c.proxy.phase # "ReadingResponse"
      THEN ws
      ELSE IF k.inq > 0 THEN reregister_client(Put(ws, id, UpstreamRead(c, n)), id, {"W"}, ok)
      ELSE IF k.err THEN fail_proxy(ws, id, ok)
      ELSE IF k.fin THEN mark_upstream_eof(ws, id)
      ELSE ws

-----------------------------------------------------------------------------
(* Reading the client.                                                       *)

\* Reads of one event before the budget or the socket ends the loop.
MostReads(c) == IF c.sock.inq < ReadBudget THEN c.sock.inq ELSE ReadBudget
Discarded(c, m) == [c EXCEPT !.sock.inq = @ - m, !.idle = @ /\ m = 0]

\* The client's bytes are dropped while its request is being proxied.
client_during_proxy_ready(ws, id) ==
  LET c == ConnOf(ws, id)
      m == MostReads(c)
  IN  IF m < ReadBudget /\ (c.sock.fin \/ c.sock.err)
      THEN remove_connection(ws, id) ELSE Put(ws, id, Discarded(c, m))

\* What one pass of the read loop decides once the buffer would hold t units.
\* A request head is parsed again while a response is being written, but a
\* request is only ever taken in the Reading phase.
Verdict(c, t) ==
  IF t > MaxRead THEN "too large"
  ELSE IF t < c.req.head THEN "more"
  ELSE IF c.req.kind = "invalid" THEN "invalid"
  ELSE IF c.req.head + c.req.body > MaxRead THEN "too large"
  ELSE IF c.phase = "Reading" /\ t >= c.req.head + c.req.body THEN "request"
  ELSE "more"

\* Mutant: one read per event.
ReadsMade_one(c) == IF c.sock.inq = 0 THEN 0 ELSE 1

\* The loop stops at the first decision, the budget or an empty socket.
ReadsMade(c) ==
  LET Stops == {k \in 1 .. MostReads(c) : Verdict(c, c.read + k) # "more"}
  IN  IF Stops = {} THEN MostReads(c) ELSE CHOOSE j \in Stops : \A i \in Stops : j <= i

\* Mutant: reading does not count as progress.
AfterReads_idle(c, k) ==
  [c EXCEPT !.sock.inq = @ - k, !.read = @ + (IF c.read + k > MaxRead THEN k - 1 ELSE k)]

\* A unit that overflows the buffer is read but not kept.
AfterReads(c, k) ==
  LET kept == IF c.read + k > MaxRead THEN k - 1 ELSE k
  IN  [c EXCEPT !.sock.inq = @ - k, !.read = @ + kept, !.idle = @ /\ kept = 0]

connection_ready(ws, id, ok) ==
  LET c == ConnOf(ws, id)
      k == ReadsMade(c)
      verdict == IF k = 0 THEN "more" ELSE Verdict(c, c.read + k)
      ws2 == Put(ws, id, AfterReads(c, k))
  IN  IF ~is_current(ws, id) THEN ws
      ELSE IF IsHandlingRequest(c) THEN client_during_proxy_ready(ws, id)
      ELSE CASE verdict \in {"too large", "invalid"} -> queue_response(ws2, id, ok)
             [] verdict = "request" /\ c.req.kind = "proxy" -> start_proxy(ws2, id)
             [] verdict = "request" /\ c.req.kind = "static" -> queue_static_response(ws2, id, ok)
             [] verdict = "request" /\ c.req.kind = "response" -> queue_response(ws2, id, ok)
             [] OTHER -> IF MostReads(c) < ReadBudget /\ (c.sock.fin \/ c.sock.err)
                         THEN remove_connection(ws2, id) ELSE ws2

-----------------------------------------------------------------------------
(* Dispatching one event of a batch.                                         *)

dispatch_client(ws, ev, ok) ==
  LET id == ev.id
      written == IF ev.w THEN write_ready(ws, id, ok) ELSE ws
      both == IF ev.r /\ ~ws.draining THEN connection_ready(written, id, ok) ELSE written
  IN  IF ev.err THEN remove_connection(ws, id)
      ELSE IF ev.closed /\ is_current(both, id) /\ Drained(ConnOf(both, id))
      THEN remove_connection(both, id)
      ELSE both

\* Mutant: a close notification ends the upstream's response.
dispatch_upstream_closing(ws, ev, ok) ==
  LET id == ev.id
      written == IF ev.w THEN write_upstream_request(ws, id, ok) ELSE ws
      both == IF ev.r THEN read_upstream_response(written, id, ok) ELSE written
  IN  IF ConnOf(ws, id).phase # "Proxying" THEN ws
      ELSE IF ev.err THEN fail_proxy(ws, id, ok)
      ELSE IF ev.closed /\ is_current(both, id) THEN mark_upstream_eof(both, id)
      ELSE both

\* A close notification only schedules a read: the read sees the end of file.
dispatch_upstream(ws, ev, ok) ==
  LET id == ev.id
      written == IF ev.w THEN write_upstream_request(ws, id, ok) ELSE ws
      both == IF ev.r THEN read_upstream_response(written, id, ok) ELSE written
  IN  IF ConnOf(ws, id).phase # "Proxying" THEN ws
      ELSE IF ev.err THEN fail_proxy(ws, id, ok)
      ELSE IF ev.closed /\ is_current(both, id)
      THEN [both EXCEPT !.pending_upstream_reads = @ \cup {id}]
      ELSE both

dispatch(ws, ev, ok) ==
  IF ~is_current(ws, ev.id) THEN ws
  ELSE IF ev.role = "client" THEN dispatch_client(ws, ev, ok)
  ELSE dispatch_upstream(ws, ev, ok)

Event(ws, s, role, k) ==
  [role |-> role, id |-> IdOf(ws, s), cid |-> ws.conns[s].cid,
   r |-> Readable(k), w |-> Writable(k), err |-> k.err,
   closed |-> k.err \/ ("R" \in k.interest /\ k.fin)]

SocketEvents(ws) ==
  {Event(ws, s, "client", ws.conns[s].sock) :
     s \in {x \in Occupied(ws) : HasEvent(ws.conns[x].sock)}}
  \cup
  {Event(ws, s, "upstream", ws.conns[s].proxy.sock) :
     s \in {x \in Occupied(ws) : HasEvent(ws.conns[x].proxy.sock)}}

\* Reported sockets leave the ready list until a new edge or a reregistration.
Reported(ws, E) ==
  LET Disarm(k, s, role) ==
        IF \E ev \in E : ev.role = role /\ ev.id.slot = s THEN [k EXCEPT !.armed = FALSE] ELSE k
  IN  [ws EXCEPT !.conns = [s \in Slots |->
        [ws.conns[s] EXCEPT !.sock = Disarm(@, s, "client"),
                            !.proxy.sock = Disarm(@, s, "upstream")]]]

ListenerReady == listener.armed /\ listener.waiting > 0

-----------------------------------------------------------------------------
(* ReadinessWorker::run.  One pass of the loop serves eight stages in order, *)
(* each for the ids it collected on entry, then polls.                       *)

StageName(i) ==
  CASE i = 1 -> "dns results" [] i = 2 -> "expired resolutions" [] i = 3 -> "expired proxies"
    [] i = 4 -> "idle connections" [] i = 5 -> "static streams" [] i = 6 -> "pending writes"
    [] i = 7 -> "pending upstream writes" [] i = 8 -> "pending upstream reads"
    [] OTHER -> "poll"

IdsWhere(ws, S) == {IdOf(ws, s) : s \in S}

\* Mutant: resolutions have no deadline.
Expired_proxies_only(ws, phase) ==
  {s \in Slots : ws.conns[s].phase = phase /\ phase = "Proxying" /\ ws.conns[s].due}

Expired(ws, phase) == {s \in Slots : ws.conns[s].phase = phase /\ ws.conns[s].due}

Collect(ws, results, i) ==
  LET Conns == ws.conns
  IN  CASE i = 1 -> {r.id : r \in results}
        [] i = 2 -> IdsWhere(ws, Expired(ws, "Resolving"))
        [] i = 3 -> IdsWhere(ws, Expired(ws, "Proxying"))
        [] i = 4 -> IdsWhere(ws, {s \in Occupied(ws) : ~IsHandlingRequest(Conns[s])
                                                       /\ Conns[s].idle})
        [] i = 5 -> IdsWhere(ws, {s \in Occupied(ws) : Conns[s].stream.on /\ Drained(Conns[s])})
        [] i = 6 -> ws.pending_writes
        [] i = 7 -> ws.pending_upstream_writes
        [] i = 8 -> ws.pending_upstream_reads
        [] OTHER -> {}

\* Entering a scheduled stage drains its set.
Taken(ws, i) ==
  CASE i = 6 -> [ws EXCEPT !.pending_writes = {}]
    [] i = 7 -> [ws EXCEPT !.pending_upstream_writes = {}]
    [] i = 8 -> [ws EXCEPT !.pending_upstream_reads = {}]
    [] OTHER -> ws

\* On to the first later stage with something to serve, or to the poll.
EnterStage(ws, results, from) ==
  LET Busy == {i \in from .. 8 : Collect(ws, results, i) # {}}
      next == IF Busy = {} THEN 9 ELSE CHOOSE i \in Busy : \A j \in Busy : i <= j
  IN  /\ pc' = StageName(next)
      /\ work' = Collect(ws, results, next)
      /\ w' = Taken(ws, next)

ResultFor(id) == CHOOSE r \in dns.results : r.id = id

Handle(i, ws, id, ok) ==
  CASE i = 1 -> finish_resolution(ws, ResultFor(id), ok)
    [] i = 2 -> fail_resolution(ws, id, ok)
    [] i = 3 -> fail_proxy(ws, id, ok)
    [] i = 4 -> remove_connection(ws, id)
    [] i = 5 -> advance_static_stream(ws, id, ok)
    [] i = 6 -> write_ready(ws, id, ok)
    [] i = 7 -> write_upstream_request(ws, id, ok)
    [] OTHER -> read_upstream_response(ws, id, ok)

Answered(i, id) ==
  IF i = 1 THEN [dns EXCEPT !.results = {r \in @ : r.id # id}] ELSE dns

Serve(i) ==
  /\ pc = StageName(i)
  /\ \E id \in work, ok \in Outcomes :
       LET next == Handle(i, w, id, ok)
       IN  /\ dns' = Answered(i, id)
           /\ CASE next.failed -> w' = next /\ pc' = "failed" /\ work' = {}
                [] ~next.failed /\ work = {id} -> EnterStage(next, dns'.results, i + 1)
                [] OTHER -> w' = next /\ pc' = pc /\ work' = work \ {id}
  /\ UNCHANGED <<gens, ready, listener, accepted, stop>>

ServeResults == Serve(1)
ServeExpiredResolutions == Serve(2)
ServeExpiredProxies == Serve(3)
ServeIdle == Serve(4)
ServeStreams == Serve(5)
ServeWrites == Serve(6)
ServeUpstreamWrites == Serve(7)
ServeUpstreamReads == Serve(8)

RemoveAll(ws, S) ==
  LET gone == IdsWhere(ws, S)
  IN  [ws EXCEPT !.conns = [s \in Slots |-> IF s \in S THEN Vacant ELSE ws.conns[s]],
                 !.pending_writes = @ \ gone,
                 !.pending_upstream_writes = @ \ gone,
                 !.pending_upstream_reads = @ \ gone]

\* Mutant: a stream between two chunks counts as nothing to write.
begin_shutdown_streams(ws) ==
  [RemoveAll(ws, {s \in Occupied(ws) : ws.conns[s].off >= ws.conns[s].len})
     EXCEPT !.draining = TRUE]

\* Mutant: the worker does not note that it is draining.
begin_shutdown_unmarked(ws) ==
  RemoveAll(ws, {s \in Occupied(ws) : ~ws.conns[s].stream.on /\ ws.conns[s].off >= ws.conns[s].len})

\* Listeners leave the poll; connections with no output queued are closed.
begin_shutdown(ws) ==
  LET S == {s \in Occupied(ws) : ~ws.conns[s].stream.on /\ ws.conns[s].off >= ws.conns[s].len}
  IN  [RemoveAll(ws, S) EXCEPT !.draining = TRUE]

drain_deadline_expired == stop.deadline

\* The head of the loop: start draining, finish draining, or serve a pass.
Top ==
  LET begins == stop.requested /\ ~w.draining
      ws == IF begins THEN begin_shutdown(w) ELSE w
  IN  /\ pc = "top"
      /\ listener' = [listener EXCEPT !.armed = @ /\ ~begins]
      /\ CASE ws.draining /\ Occupied(ws) = {} ->
                w' = ws /\ pc' = "exited" /\ work' = {}
           [] Occupied(ws) # {} /\ drain_deadline_expired ->
                w' = RemoveAll(ws, Occupied(ws)) /\ pc' = "exited" /\ work' = {}
           [] OTHER -> EnterStage(ws, dns.results, 1)
      /\ UNCHANGED <<gens, ready, dns, accepted, stop>>

\* At most MaxEvents are reported; the others stay on the ready list.
Poll ==
  /\ pc = "poll"
  /\ \E E \in SUBSET SocketEvents(w), l \in {FALSE, ListenerReady}, c \in {FALSE, dns.wake} :
       LET n == Cardinality(E) + (IF l THEN 1 ELSE 0) + (IF c THEN 1 ELSE 0)
           all == E = SocketEvents(w) /\ l = ListenerReady /\ c = dns.wake
       IN  /\ n = MaxEvents \/ (all /\ n < MaxEvents)
           /\ ready' = [sockets |-> E, listener |-> l, control |-> c]
           /\ w' = Reported(w, E)
           /\ listener' = [listener EXCEPT !.armed = @ /\ ~l]
           /\ dns' = [dns EXCEPT !.wake = @ /\ ~c]
           /\ pc' = IF n = 0 THEN "top" ELSE "dispatch"
  /\ UNCHANGED <<gens, work, accepted, stop>>

Finished(batch) == batch.sockets = {} /\ ~batch.listener /\ ~batch.control
NextEvent(batch) == IF Finished(batch) THEN "top" ELSE "dispatch"

DispatchSocket ==
  /\ pc = "dispatch"
  /\ \E ev \in ready.sockets, ok \in Outcomes :
       LET next == dispatch(w, ev, ok)
       IN  /\ w' = next
           /\ ready' = [ready EXCEPT !.sockets = @ \ {ev}]
           /\ pc' = IF next.failed THEN "failed" ELSE NextEvent(ready')
  /\ UNCHANGED <<gens, work, listener, dns, accepted, stop>>

\* The control token: process_dns_results between two socket events.
DispatchControl ==
  /\ pc = "dispatch" /\ ready.control
  /\ ready' = [ready EXCEPT !.control = FALSE]
  /\ work' = Collect(w, dns.results, 1)
  /\ pc' = IF work' = {} THEN NextEvent(ready') ELSE "control"
  /\ UNCHANGED <<w, gens, listener, dns, accepted, stop>>

ServeControl ==
  /\ pc = "control"
  /\ \E id \in work, ok \in Outcomes :
       /\ w' = finish_resolution(w, ResultFor(id), ok)
       /\ dns' = Answered(1, id)
       /\ work' = work \ {id}
       /\ pc' = IF work' = {} THEN NextEvent(ready) ELSE pc
  /\ UNCHANGED <<gens, ready, listener, accepted, stop>>

DispatchListener ==
  /\ pc = "dispatch" /\ ready.listener
  /\ ready' = [ready EXCEPT !.listener = FALSE]
  /\ pc' = IF w.draining THEN NextEvent(ready') ELSE "accept"
  /\ UNCHANGED <<w, gens, work, listener, dns, accepted, stop>>

\* The whole answer to a request, in units.
Expected(req) ==
  CASE req.kind = "invalid" \/ req.head + req.body > MaxRead -> ResponseLen
    [] req.kind = "response" -> ResponseLen
    [] req.kind = "static" -> ResponseLen + Chunks * ChunkLen
    [] OTHER -> UpLen

\* register_connection: any vacant entry of the slab, the slot's next generation.
AcceptOne ==
  /\ pc = "accept" /\ listener.waiting > 0
  /\ listener' = [listener EXCEPT !.waiting = @ - 1]
  /\ IF Cardinality(Occupied(w)) >= MaxConnections
     THEN UNCHANGED <<w, gens, accepted>>
     ELSE \E s \in Slots \ Occupied(w), req \in Requests, ok \in Outcomes :
            LET gen == next_generation(gens[s])
                cid == accepted + 1
                c == NewConnection(gen, cid, req)
            IN  /\ gens' = [gens EXCEPT ![s] = gen]
                /\ accepted' = cid
                /\ w' = IF ok.client
                        THEN [w EXCEPT !.conns[s] = c, !.wire[cid].want = Expected(req)]
                        ELSE w
  /\ UNCHANGED <<pc, work, ready, dns, stop>>

\* Mutant: one client per event.
AcceptDone_early ==
  /\ pc = "accept"
  /\ pc' = NextEvent(ready)
  /\ UNCHANGED <<w, gens, work, ready, listener, dns, accepted, stop>>

\* accept() would block, or failed: either way the handler returns.
AcceptDone ==
  /\ pc = "accept"
  /\ listener.waiting = 0 \/ "accept" \in Faults
  /\ pc' = NextEvent(ready)
  /\ UNCHANGED <<w, gens, work, ready, listener, dns, accepted, stop>>

Worker ==
  \/ Top \/ Poll \/ DispatchSocket \/ DispatchControl \/ ServeControl
  \/ DispatchListener \/ AcceptOne \/ AcceptDone
  \/ ServeResults \/ ServeExpiredResolutions \/ ServeExpiredProxies \/ ServeIdle
  \/ ServeStreams \/ ServeWrites \/ ServeUpstreamWrites \/ ServeUpstreamReads

-----------------------------------------------------------------------------
(* The environment.                                                          *)

Running == pc \notin {"exited", "failed"}

\* A step of the world outside on the connection in slot s.
Outside(s, c) ==
  /\ Running /\ s \in Occupied(w)
  /\ w' = [w EXCEPT !.conns[s] = c]
  /\ UNCHANGED <<gens, pc, work, ready, listener, dns, accepted, stop>>

ClientConnects ==
  /\ Running /\ listener.came < MaxClients
  /\ listener' = [waiting |-> listener.waiting + 1, came |-> listener.came + 1,
                  armed |-> ~w.draining]
  /\ UNCHANGED <<w, gens, pc, work, ready, dns, accepted, stop>>

ClientSends(s) ==
  LET c == w.conns[s]
  IN  /\ ~c.sock.fin /\ ~c.sock.err
      /\ c.sent < c.req.head + c.req.body + c.req.extra
      /\ Outside(s, [c EXCEPT !.sent = @ + 1, !.sock = Received(@)])

ClientHalfCloses(s) ==
  LET c == w.conns[s]
  IN  /\ "halfclose" \in Faults /\ ~c.sock.fin /\ ~c.sock.err
      /\ Outside(s, [c EXCEPT !.sock = Arrives([@ EXCEPT !.fin = TRUE], "R")])

ClientResets(s) ==
  LET c == w.conns[s]
  IN  /\ "reset" \in Faults /\ ~c.sock.err
      /\ Outside(s, [c EXCEPT !.sock = [@ EXCEPT !.inq = 0, !.err = TRUE, !.armed = TRUE]])

ClientReads(s) ==
  LET c == w.conns[s]
  IN  /\ c.sock.space < SendBuf /\ ~c.sock.err
      /\ Outside(s, [c EXCEPT !.sock = Freed(@)])

Upstream(s, k) == Outside(s, [w.conns[s] EXCEPT !.proxy.sock = k])
Connected(s) ==
  w.conns[s].phase = "Proxying" /\ ~w.conns[s].proxy.sock.err /\ w.conns[s].proxy.up

UpstreamConnects(s) ==
  LET c == w.conns[s]
  IN  /\ c.phase = "Proxying" /\ ~c.proxy.up /\ ~c.proxy.sock.err
      /\ Outside(s, [c EXCEPT !.proxy.up = TRUE,
                              !.proxy.sock = Arrives([@ EXCEPT !.space = SendBuf], "W")])

\* Refused while connecting, reset afterwards.
UpstreamFails(s) ==
  LET c == w.conns[s]
      k == c.proxy.sock
  IN  /\ "upstream" \in Faults /\ c.phase = "Proxying" /\ ~k.err
      /\ Upstream(s, [k EXCEPT !.inq = 0, !.err = TRUE, !.armed = TRUE])

UpstreamReads(s) ==
  LET k == w.conns[s].proxy.sock
  IN  /\ Connected(s) /\ k.space < SendBuf
      /\ Upstream(s, Freed(k))

UpstreamSends(s) ==
  LET c == w.conns[s]
  IN  /\ Connected(s) /\ c.proxy.todo > 0
      /\ Outside(s, [c EXCEPT !.proxy.todo = @ - 1, !.proxy.sock = Received(@)])

\* The end of the response, or an early close.
UpstreamCloses(s) ==
  LET k == w.conns[s].proxy.sock
  IN  /\ Connected(s) /\ ~k.fin
      /\ w.conns[s].proxy.todo = 0 \/ "upstream" \in Faults
      /\ Outside(s, [w.conns[s] EXCEPT !.proxy.todo = 0,
                                       !.proxy.sock = Arrives([k EXCEPT !.fin = TRUE], "R")])

ResolverTakes ==
  /\ Running /\ Cardinality(dns.running) < DnsThreads
  /\ \E t \in w.tasks : /\ w' = [w EXCEPT !.tasks = @ \ {t}]
                        /\ dns' = [dns EXCEPT !.running = @ \cup {t}]
  /\ UNCHANGED <<gens, pc, work, ready, listener, accepted, stop>>

\* A thread sends its answer, then wakes the poll.
ResolverAnswers ==
  /\ Running
  /\ \E t \in dns.running, n \in (IF "dns" \in Faults THEN 0 ELSE 1) .. MaxAddresses :
       dns' = [running |-> dns.running \ {t}, wake |-> TRUE,
               results |-> dns.results \cup {[id |-> t.id, cid |-> t.cid, addresses |-> n]}]
  /\ UNCHANGED <<w, gens, pc, work, ready, listener, accepted, stop>>

\* The thread of spawn_file_stream: send blocks while the channel is full.
ProducerSends(s) ==
  LET st == w.conns[s].stream
  IN  /\ st.on /\ st.left > 0 /\ st.queued < ChanCap
      /\ Outside(s, [w.conns[s] EXCEPT !.stream.queued = @ + 1, !.stream.left = @ - 1])

ProducerEnds(s) ==
  LET st == w.conns[s].stream
  IN  /\ st.on /\ st.open
      /\ \/ st.left = 0 /\ Outside(s, [w.conns[s] EXCEPT !.stream.open = FALSE])
         \/ /\ "file" \in Faults /\ st.left > 0 /\ st.queued < ChanCap
            /\ Outside(s, [w.conns[s] EXCEPT !.stream.open = FALSE, !.stream.left = 0,
                                             !.stream.bad = TRUE])

\* Deadlines are long against a pass of the loop: a connection's clocks run out
\* only while the loop is about to poll with nothing to do for that connection.
Quiet(s) ==
  /\ pc = "poll" /\ s \in Occupied(w)
  /\ ~HasEvent(w.conns[s].sock) /\ ~HasEvent(w.conns[s].proxy.sock)
  /\ IdOf(w, s) \notin
       w.pending_writes \cup w.pending_upstream_writes \cup w.pending_upstream_reads

IdleElapses(s) ==
  LET c == w.conns[s]
  IN  /\ "idle" \in Timers /\ Quiet(s) /\ ~c.idle
      /\ IsHandlingRequest(c) => IdleDuringProxy
      /\ Outside(s, [c EXCEPT !.idle = TRUE])

PhaseElapses(s) ==
  LET c == w.conns[s]
  IN  /\ "phase" \in Timers /\ Quiet(s) /\ ~c.due /\ IsHandlingRequest(c)
      /\ Outside(s, [c EXCEPT !.due = TRUE])

DrainElapses ==
  /\ Running /\ "drain" \in Timers /\ w.draining /\ ~stop.deadline
  /\ stop' = [stop EXCEPT !.deadline = TRUE]
  /\ UNCHANGED <<w, gens, pc, work, ready, listener, dns, accepted>>

\* ShutdownHandle::request: the flag, then the waker the resolvers also use.
ShutdownRequested ==
  /\ Running /\ "drain" \in Timers /\ ~stop.requested
  /\ stop' = [stop EXCEPT !.requested = TRUE]
  /\ dns' = [dns EXCEPT !.wake = TRUE]
  /\ UNCHANGED <<w, gens, pc, work, ready, listener, accepted>>

Clients == \E s \in Slots :
  ClientSends(s) \/ ClientHalfCloses(s) \/ ClientResets(s) \/ ClientReads(s)

Upstreams == \E s \in Slots :
  \/ UpstreamConnects(s) \/ UpstreamFails(s) \/ UpstreamReads(s)
  \/ UpstreamSends(s) \/ UpstreamCloses(s)

Producers == \E s \in Slots : ProducerSends(s) \/ ProducerEnds(s)
Resolver == ResolverTakes \/ ResolverAnswers
Clock == DrainElapses \/ \E s \in Slots : IdleElapses(s) \/ PhaseElapses(s)

\* The process has ended; nothing happens any more.
Ended == ~Running /\ UNCHANGED vars

Init ==
  /\ w = [conns |-> [s \in Slots |-> Vacant], pending_writes |-> {},
          pending_upstream_writes |-> {}, pending_upstream_reads |-> {}, tasks |-> {},
          wire |-> [k \in 1 .. MaxClients |->
                      [src |-> "response", len |-> 0, torn |-> FALSE, want |-> 0]],
          draining |-> FALSE, failed |-> FALSE]
  /\ gens = [s \in Slots |-> 0]
  /\ pc = "top" /\ work = {}
  /\ ready = [sockets |-> {}, listener |-> FALSE, control |-> FALSE]
  /\ listener = [waiting |-> 0, came |-> 0, armed |-> TRUE]
  /\ dns = [running |-> {}, results |-> {}, wake |-> FALSE]
  /\ accepted = 0
  /\ stop = [requested |-> FALSE, deadline |-> FALSE]

Next ==
  \/ Worker \/ ClientConnects \/ Clients \/ Upstreams \/ Producers \/ Resolver
  \/ Clock \/ ShutdownRequested \/ Ended

Spec == Init /\ [][Next]_vars

-----------------------------------------------------------------------------
(* Types.                                                                    *)

Sources == {"response", "static", "upstream"}
Phases == {"Vacant", "Reading", "WritingResponse", "Resolving", "Proxying"}
ProxyPhases == {"Connecting", "WritingRequest", "ReadingResponse"}
Places == {"top", "poll", "dispatch", "control", "accept", "exited", "failed"}
          \cup {StageName(i) : i \in 1 .. 8}

Socket == [inq : Nat, fin : BOOLEAN, err : BOOLEAN, space : 0 .. SendBuf,
           interest : SUBSET {"R", "W"}, armed : BOOLEAN]
Stream == [on : BOOLEAN, queued : Nat, left : Nat, open : BOOLEAN, bad : BOOLEAN]
Proxy == [phase : ProxyPhases, off : 0 .. UpReqLen, eof : BOOLEAN, started : BOOLEAN,
          untried : Nat, sock : Socket, up : BOOLEAN, todo : Nat]
Request == [kind : Kinds, head : Nat \ {0}, body : Nat, extra : Nat]
Connection ==
  [phase : Phases, gen : 1 .. GenMax, cid : Nat, req : Request, sent : Nat, read : Nat,
   src : Sources, pos : Nat, len : Nat, off : Nat, sock : Socket, stream : Stream,
   proxy : Proxy, idle : BOOLEAN, due : BOOLEAN]
Line == [src : Sources, len : Nat, torn : BOOLEAN, want : Nat]
Task == [id : Ids, cid : Nat]
Result == [id : Ids, cid : Nat, addresses : Nat]
SocketEvent == [role : {"client", "upstream"}, id : Ids, cid : Nat, r : BOOLEAN, w : BOOLEAN,
                err : BOOLEAN, closed : BOOLEAN]
WorkerState ==
  [conns : [Slots -> Connection], pending_writes : SUBSET Ids,
   pending_upstream_writes : SUBSET Ids, pending_upstream_reads : SUBSET Ids,
   tasks : SUBSET Task, wire : [1 .. MaxClients -> Line], draining : BOOLEAN, failed : BOOLEAN]

\* Every field of the worker and of its environment has its type, and no offset
\* of write_ready is beyond its buffer.
TypeOK ==
  /\ w \in WorkerState
  /\ \A s \in Slots : w.conns[s].off <= w.conns[s].len
  /\ gens \in [Slots -> 0 .. GenMax]
  /\ pc \in Places
  /\ work \subseteq Ids
  /\ ready \in [sockets : SUBSET SocketEvent, listener : BOOLEAN, control : BOOLEAN]
  /\ listener \in [waiting : Nat, came : Nat, armed : BOOLEAN]
  /\ dns \in [running : SUBSET Task, results : SUBSET Result, wake : BOOLEAN]
  /\ accepted \in Nat
  /\ stop \in [requested : BOOLEAN, deadline : BOOLEAN]

=============================================================================
