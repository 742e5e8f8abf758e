----------------------------- MODULE UringWorker -----------------------------
(***************************************************************************)
(* The io_uring worker of thwip (run/slave/src/runtime/io_uring): one      *)
(* thread that owns a slab of client connections, pushes operations to a   *)
(* ring and acts on their completions.                                     *)
(*                                                                         *)
(* The handlers of worker.rs are operators from the worker's state w to    *)
(* its next state.  w.ops holds the operations pushed to the ring that     *)
(* have not completed: the worker looks at completions only between two    *)
(* batches, so the moment the kernel takes a pushed entry is not           *)
(* observable.  A peer is what its operations complete with: the kernel    *)
(* may complete an operation with any length, end of file or error that    *)
(* the peer's behaviour allows.  Bytes are counted in units.               *)
(***************************************************************************)
EXTENDS Integers, FiniteSets

CONSTANTS
  Slots,            (* keys of the connection slab                            *)
  NoSlot,           (* the slot of an operation that has none                 *)
  MaxConnections,   (* limits.max_connections                                 *)
  GenMax,           (* the largest u16 generation                             *)
  MaxClients,       (* bound: clients that ever connect                       *)
  Requests,         (* request shapes a client may send                       *)
  Extra,            (* bound: units a client sends beyond its request         *)
  MaxRead,          (* limits.max_read_buffer_size                            *)
  MaxWrite,         (* limits.max_write_buffer_size                           *)
  RespLen,          (* length of a fixed response, or of a static file's head *)
  Chunks,           (* chunks of a streamed file                              *)
  ChunkLen,         (* STREAM_CHUNK_SIZE                                      *)
  ChanCap,          (* capacity of the producer's sync_channel                *)
  UpReqLen,         (* length of the request sent upstream                    *)
  UpLen,            (* length of the upstream's response                      *)
  MaxAddresses,     (* bound: addresses one lookup returns                    *)
  BufLen,           (* runtime.buf_size                                       *)
  Buffers,          (* runtime.buf_ring_size                                  *)
  DnsThreads,       (* dns_limits.resolver_threads                            *)
  Tls,              (* the listener has an SSL configuration                  *)
  Faults,           (* environment misbehaviour to include                    *)
  Timers            (* deadlines that may elapse                              *)

Kinds == {"response", "static", "proxy", "invalid"}
FaultKinds == {"multishot", "accept", "halfclose", "reset", "retry", "dns", "socket",
               "upstream", "file"}
TimerKinds == {"phase", "handshake", "drain"}

ASSUME UringSizes ==
  /\ MaxConnections \in Nat \ {0} /\ GenMax \in Nat \ {0} /\ MaxClients \in Nat
  /\ MaxClients <= GenMax
  /\ Extra \in Nat /\ MaxRead \in Nat \ {0} /\ MaxWrite \in Nat \ {0}
  /\ RespLen \in Nat \ {0} /\ Chunks \in Nat \ {0} /\ ChunkLen \in Nat \ {0}
  /\ ChanCap \in Nat \ {0} /\ UpReqLen \in Nat \ {0} /\ UpLen \in Nat \ {0}
  /\ MaxAddresses \in Nat \ {0} /\ BufLen \in Nat \ {0} /\ Buffers \in Nat \ {0}
  /\ DnsThreads \in Nat \ {0} /\ Tls \in BOOLEAN

ASSUME UringSlots ==
  NoSlot \notin Slots /\ IsFiniteSet(Slots) /\ MaxConnections <= Cardinality(Slots)

ASSUME UringRequests ==
  /\ Requests \subseteq [kind : Kinds, head : Nat \ {0}, body : Nat]
  /\ Tls => \A req \in Requests : req.kind # "proxy"

ASSUME UringEnvironment == Faults \subseteq FaultKinds /\ Timers \subseteq TimerKinds

VARIABLES
  w,        (* struct IoUringWorker, its ring's operations and its buffers    *)
  gens,     (* generations: the last generation given to each slot            *)
  pc,       (* where IoUringWorker::run is                                    *)
  work,     (* ids a handler that walks the slab has yet to serve             *)
  cq,       (* completions posted and not collected                           *)
  batch,    (* completions collected and not dispatched                       *)
  dns,      (* the resolver threads, their answers and their eventfd          *)
  came,     (* clients that have connected; numbers them                      *)
  requested (* ShutdownHandle's flag; its eventfd is readable from then on    *)

vars == <<w, gens, pc, work, cq, batch, dns, came, requested>>

\* What an operation completes with besides a length: EAGAIN or EINTR, any other
\* error, ENOBUFS, ECANCELED, and EINVAL of a kernel without multishot accept.
EAGAIN == -1
FAILED == -2
ENOBUFS == -3
ECANCELED == -4
EINVAL == -5

Least(a, b) == IF a < b THEN a ELSE b

-----------------------------------------------------------------------------
(* Connections.  A vacant slab entry is the record Vacant.                   *)

NoStream == [on |-> FALSE, queued |-> 0, left |-> 0, open |-> FALSE, bad |-> FALSE]

\* off: of the request; pending, timed_out: operation_pending and timed_out;
\* due: the phase's deadline has passed; todo: what the upstream has yet to send.
NoProxy == [on |-> FALSE, phase |-> "Resolving", off |-> 0, started |-> FALSE, untried |-> 0,
            pending |-> FALSE, timed_out |-> FALSE, due |-> FALSE, todo |-> 0]

\* hs: handshake flights taken from the client, two in all; wants: records the
\* session has to write; ctl, app: session and response units in ssl_write_buffer.
NoSsl == [on |-> FALSE, hs |-> 0, wants |-> 0, ctl |-> 0, app |-> 0, closing |-> FALSE]

\* The bytes on the client's socket: the response the first one came from, how many,
\* whether one was ever out of place in that response.
NoBytes == [src |-> "response", len |-> 0, torn |-> FALSE]

NoRequest == [kind |-> "invalid", head |-> 1, body |-> 0]

Vacant ==
  [live |-> FALSE, gen |-> 1, cid |-> 0, req |-> NoRequest, sent |-> 0, read |-> 0,
   src |-> "response", pos |-> 0, len |-> 0, off |-> 0,
   read_pending |-> FALSE, write_pending |-> FALSE, wire |-> NoBytes,
   stream |-> NoStream, proxy |-> NoProxy, ssl |-> NoSsl]

NewConnection(gen, cid, req) ==
  [Vacant EXCEPT !.live = TRUE, !.gen = gen, !.cid = cid, !.req = req, !.ssl.on = Tls]

Ids == [slot : Slots, gen : 1 .. GenMax]
NoId == [slot |-> NoSlot, gen |-> 0]
IdOf(ws, s) == [slot |-> s, gen |-> ws.conns[s].gen]
Live(ws) == {s \in Slots : ws.conns[s].live}
ConnOf(ws, id) == ws.conns[id.slot]
Put(ws, id, c) == [ws EXCEPT !.conns[id.slot] = c]
is_current(ws, id) == ConnOf(ws, id).live /\ ConnOf(ws, id).gen = id.gen

\* A response larger than max_write_buffer_size becomes a one-unit 500; the head of a
\* static file is not checked.
ResponseLen == IF RespLen > MaxWrite THEN 1 ELSE RespLen

\* The whole answer to a request, in units; an error is answered with a response.
Expected(c) ==
  CASE c.wire.src = "static" -> RespLen + Chunks * ChunkLen
    [] c.wire.src = "upstream" -> UpLen
    [] OTHER -> ResponseLen

\* What the client of a connection that ends now has been sent.
Outcome(c) ==
  IF c.wire.torn THEN "torn" ELSE IF c.wire.len = Expected(c) THEN "whole" ELSE "cut"

\* Dropping the connections of the slots in S closes their sockets.
Dropped(ws, S) ==
  [ws EXCEPT !.conns = [s \in Slots |-> IF s \in S THEN Vacant ELSE @[s]],
             !.outcome = [k \in DOMAIN @ |->
                IF \E s \in S : ws.conns[s].cid = k
                THEN Outcome(ws.conns[CHOOSE s \in S : ws.conns[s].cid = k]) ELSE @[k]]]

Removed(ws, id) == Dropped(ws, {id.slot})

\* Mutant: the slot keeps its first generation.
next_generation_fixed(g) == IF g = 0 THEN 1 ELSE g

next_generation(g) == IF g = GenMax THEN 1 ELSE g + 1

-----------------------------------------------------------------------------
(* Operations.  kind and id are what user_data encodes; cid tells for which  *)
(* client the entry was built, and of names what a cancellation is for.      *)

Op(kind, id, cid, of) == [kind |-> kind, id |-> id, cid |-> cid, of |-> of]
Control(kind) == Op(kind, NoId, 0, "none")

push_entry(ws, op) == [ws EXCEPT !.ops = @ \cup {op}]
PushFor(ws, id, kind) == push_entry(ws, Op(kind, id, ConnOf(ws, id).cid, "none"))

submit_accept(ws) ==
  IF ws.accept.pending THEN ws
  ELSE [push_entry(ws, Control("accept")) EXCEPT !.accept.pending = TRUE]

submit_recv(ws, id) ==
  IF ConnOf(ws, id).gen # id.gen \/ ConnOf(ws, id).read_pending THEN ws
  ELSE PushFor(Put(ws, id, [ConnOf(ws, id) EXCEPT !.read_pending = TRUE]), id, "read")

\* A drained ssl_write_buffer takes the rest of the response and what the session
\* has to say.
Sealed(c) ==
  IF ~c.ssl.on \/ c.ssl.ctl + c.ssl.app > 0 THEN c
  ELSE [c EXCEPT !.off = c.len, !.ssl.app = c.len - c.off, !.ssl.ctl = c.ssl.wants,
                 !.ssl.wants = 0]

Unsent(c) == IF c.ssl.on THEN c.ssl.ctl + c.ssl.app ELSE c.len - c.off

submit_send(ws, id) ==
  LET c == Sealed(ConnOf(ws, id))
  IN  IF c.gen # id.gen \/ c.write_pending THEN ws
      ELSE IF Unsent(c) = 0 THEN Put(ws, id, c)
      ELSE PushFor(Put(ws, id, [c EXCEPT !.write_pending = TRUE]), id, "write")

SubmitUpstream(ws, id, kind) ==
  PushFor(Put(ws, id, [ConnOf(ws, id) EXCEPT !.proxy.pending = TRUE]), id, kind)

submit_proxy_connect(ws, id) == SubmitUpstream(ws, id, "connect")
submit_proxy_write(ws, id) == SubmitUpstream(ws, id, "upwrite")
submit_proxy_read(ws, id) == SubmitUpstream(ws, id, "upread")

-----------------------------------------------------------------------------
(* Responses.                                                                *)

queue_response(c, src, pos, n) ==
  [c EXCEPT !.src = src, !.pos = pos, !.len = n, !.off = 0]

Answer(ws, id, c) == submit_send(Put(ws, id, queue_response(c, "response", 0, ResponseLen)), id)

queue_http_error(ws, id) == Answer(ws, id, ConnOf(ws, id))

queue_static_response(ws, id) ==
  LET c == [ConnOf(ws, id) EXCEPT !.stream =
              [on |-> TRUE, queued |-> 0, left |-> Chunks, open |-> TRUE, bad |-> FALSE]]
  IN  submit_send(Put(ws, id, queue_response(c, "static", 0, RespLen)), id)

NextChunk(c) ==
  [queue_response(c, "static", c.pos, ChunkLen) EXCEPT !.stream.queued = @ - 1]

\* One try_next: a chunk, the end of the file or a read error, or nothing yet.
advance_static_stream(ws, id) ==
  LET c == ConnOf(ws, id)
  IN  IF c.stream.queued > 0 THEN submit_send(Put(ws, id, NextChunk(c)), id)
      ELSE IF c.stream.bad \/ ~c.stream.open THEN Removed(ws, id)
      ELSE ws

queue_proxy_error(ws, id) ==
  IF ~is_current(ws, id) THEN ws
  ELSE Answer(ws, id, [ConnOf(ws, id) EXCEPT !.proxy = NoProxy])

\* Mutant: an error response whatever has been sent.
fail_proxy_always(ws, id) == queue_proxy_error(ws, id)

fail_proxy(ws, id) ==
  IF ConnOf(ws, id).proxy.started THEN Removed(ws, id) ELSE queue_proxy_error(ws, id)

\* n units more on the client's socket, from the given place of the response src.
Sent(wire, src, place, n) ==
  IF n = 0 THEN wire
  ELSE [wire EXCEPT !.src = IF wire.len = 0 THEN src ELSE @,
                    !.len = @ + n,
                    !.torn = @ \/ place # wire.len \/ (wire.len > 0 /\ wire.src # src)]

Cleared(c) == [c EXCEPT !.pos = c.pos + c.len, !.len = 0, !.off = 0]

\* n units of the buffer are out; session records go before the response's.
Wrote(c, n) ==
  IF ~c.ssl.on THEN [c EXCEPT !.off = @ + n]
  ELSE LET m == Least(n, c.ssl.ctl)
       IN  [c EXCEPT !.ssl.ctl = @ - m, !.ssl.app = @ - (n - m)]

\* How many of those are the response's, and where in the response they begin.
Delivered(c, n) == IF c.ssl.on THEN n - Least(n, c.ssl.ctl) ELSE n
Place(c) == c.pos + c.off - c.ssl.app

output_drained(c) == Unsent(c) = 0 /\ c.off = c.len /\ c.ssl.wants = 0

\* Mutant: the upstream's first read is taken for its whole response.
OutputDrained_closing(ws, id) == Removed(ws, id)

\* The buffer is out: stream on, read on from the upstream, or close.
OutputDrained(ws, id) ==
  LET c == ConnOf(ws, id)
  IN  IF c.stream.on THEN advance_static_stream(Put(ws, id, Cleared(c)), id)
      ELSE IF c.proxy.on
      THEN submit_proxy_read(Put(ws, id, [Cleared(c) EXCEPT !.proxy.due = FALSE]), id)
      ELSE IF c.ssl.on /\ ~c.ssl.closing
      THEN submit_send(Put(ws, id, [c EXCEPT !.ssl.closing = TRUE, !.ssl.wants = @ + 1]), id)
      ELSE Removed(ws, id)

handle_write_completion(ws, e) ==
  LET c == [ConnOf(ws, e.id) EXCEPT !.write_pending = FALSE]
      c2 == [Wrote(c, e.res) EXCEPT !.wire = Sent(@, c.src, Place(c), Delivered(c, e.res))]
      ws2 == Put(ws, e.id, c2)
  IN  IF ~is_current(ws, e.id) THEN ws
      ELSE IF e.res = EAGAIN THEN submit_send(Put(ws, e.id, c), e.id)
      ELSE IF e.res <= 0 \/ e.res > Unsent(c) THEN Removed(ws, e.id)
      ELSE IF output_drained(c2) THEN OutputDrained(ws2, e.id)
      ELSE submit_send(ws2, e.id)

-----------------------------------------------------------------------------
(* The proxied request.                                                      *)

start_proxy(ws, id) ==
  LET c == ConnOf(ws, id)
  IN  [Put(ws, id, [c EXCEPT !.proxy = [NoProxy EXCEPT !.on = TRUE]])
         EXCEPT !.tasks = @ \cup {[id |-> id, cid |-> c.cid]}]

\* Mutant: an address whose connect failed is the last one.
try_next_proxy_address_once(ws, id, bad) ==
  IF ConnOf(ws, id).proxy.off = 0 /\ ConnOf(ws, id).proxy.untried < MaxAddresses
  THEN queue_proxy_error(ws, id)
  ELSE submit_proxy_connect(
         Put(ws, id, [ConnOf(ws, id) EXCEPT !.proxy.untried = @ - 1, !.proxy.due = FALSE,
                                            !.proxy.todo = UpLen]), id)

\* No socket could be made for the next bad addresses; the one after is tried.
try_next_proxy_address(ws, id, bad) ==
  LET c == ConnOf(ws, id)
  IN  IF c.proxy.untried <= bad THEN queue_proxy_error(ws, id)
      ELSE submit_proxy_connect(
             Put(ws, id, [c EXCEPT !.proxy.untried = @ - bad - 1, !.proxy.due = FALSE,
                                   !.proxy.todo = UpLen]), id)

\* UringProxy::transition: a new phase, its clock and timed_out start afresh.
Transition(c, phase) ==
  [c EXCEPT !.proxy.phase = phase, !.proxy.due = FALSE, !.proxy.timed_out = FALSE]

finish_resolution(ws, result, bad) ==
  LET id == result.id
      c == ConnOf(ws, id)
      c2 == [Transition(c, "Connecting") EXCEPT !.proxy.untried = result.addresses]
  IN  IF ~is_current(ws, id) \/ ~c.proxy.on \/ c.proxy.phase # "Resolving" THEN ws
      ELSE IF result.addresses = 0 THEN queue_proxy_error(ws, id)
      ELSE try_next_proxy_address(Put(ws, id, c2), id, bad)

has_current_proxy(ws, id) == is_current(ws, id) /\ ConnOf(ws, id).proxy.on

\* Mutant: operation_pending is not cleared.
Answered_pending(ws, id) == ws

Answered(ws, id) == Put(ws, id, [ConnOf(ws, id) EXCEPT !.proxy.pending = FALSE])

handle_proxy_connect(ws, e, bad) ==
  LET ws2 == Answered(ws, e.id)
  IN  IF ~has_current_proxy(ws, e.id) THEN ws
      ELSE IF ConnOf(ws, e.id).proxy.timed_out THEN fail_proxy(ws2, e.id)
      ELSE IF e.res < 0 THEN try_next_proxy_address(ws2, e.id, bad)
      ELSE submit_proxy_write(Put(ws2, e.id, Transition(ConnOf(ws2, e.id), "WritingRequest")), e.id)

handle_proxy_write(ws, e) ==
  LET ws2 == Answered(ws, e.id)
      c == ConnOf(ws2, e.id)
      c2 == [c EXCEPT !.proxy.off = @ + e.res, !.proxy.due = FALSE]
  IN  IF ~has_current_proxy(ws, e.id) THEN ws
      ELSE IF c.proxy.timed_out THEN fail_proxy(ws2, e.id)
      ELSE IF e.res = EAGAIN THEN submit_proxy_write(ws2, e.id)
      ELSE IF e.res <= 0 \/ e.res > UpReqLen - c.proxy.off THEN fail_proxy(ws2, e.id)
      ELSE IF c2.proxy.off = UpReqLen
      THEN submit_proxy_read(Put(ws2, e.id, Transition(c2, "ReadingResponse")), e.id)
      ELSE submit_proxy_write(Put(ws2, e.id, c2), e.id)

\* Mutant: the buffer of a stale or failed receive is kept.
Release_received(ws, e) == IF e.buf /\ e.res > 0 /\ is_current(ws, e.id)
                           THEN [ws EXCEPT !.free = @ + 1] ELSE ws

\* copy_and_release publishes the completion's buffer again, whatever its result.
Release(ws, e) == IF e.buf THEN [ws EXCEPT !.free = @ + 1] ELSE ws

handle_proxy_read(ws, e) ==
  LET ws1 == Release(ws, e)
      ws2 == Answered(ws1, e.id)
      c == ConnOf(ws2, e.id)
      c2 == [c EXCEPT !.proxy.started = TRUE, !.proxy.due = FALSE]
  IN  IF ~has_current_proxy(ws, e.id) THEN ws1
      ELSE IF c.proxy.timed_out THEN fail_proxy(ws2, e.id)
      ELSE IF e.res \in {EAGAIN, ENOBUFS} THEN submit_proxy_read(ws2, e.id)
      ELSE IF e.res < 0 THEN fail_proxy(ws2, e.id)
      ELSE IF e.res = 0 THEN Removed(ws2, e.id)
      ELSE IF e.res > MaxWrite THEN fail_proxy(ws2, e.id)
      ELSE submit_send(Put(ws2, e.id, queue_response(c2, "upstream", c.pos, e.res)), e.id)

-----------------------------------------------------------------------------
(* Reading the client.                                                       *)

prepare_response(ws, id) ==
  LET kind == ConnOf(ws, id).req.kind
  IN  CASE kind = "proxy" -> start_proxy(ws, id)
        [] kind = "static" -> queue_static_response(ws, id)
        [] OTHER -> Answer(ws, id, ConnOf(ws, id))

\* What handle_read_completion decides once the buffer would hold t units.
Verdict(c, t) ==
  IF t > MaxRead THEN "error"
  ELSE IF t < c.req.head THEN "more"
  ELSE IF c.req.kind = "invalid" \/ c.req.head + c.req.body > MaxRead THEN "error"
  ELSE IF t >= c.req.head + c.req.body THEN "request"
  ELSE "more"

\* n units reach the session: flights of the handshake first, each answered with
\* a record of the server's, then the request's units.
Unsealed(c, n) ==
  LET m == Least(n, 2 - c.ssl.hs)
  IN  [c EXCEPT !.ssl.hs = @ + m, !.ssl.wants = @ + m]

Plain(c, n) == IF c.ssl.on THEN n - Least(n, 2 - c.ssl.hs) ELSE n

\* The units of one completion, p of them in clear.
Received(ws, id, p) ==
  LET c == ConnOf(ws, id)
      kept == Put(ws, id, [c EXCEPT !.read = @ + p])
      verdict == Verdict(c, c.read + p)
  IN  CASE p = 0 \/ verdict = "more" -> submit_recv(kept, id)
        [] p > 0 /\ verdict = "error" -> queue_http_error(ws, id)
        [] p > 0 /\ verdict = "request" -> prepare_response(kept, id)

handle_read_completion(ws, e) ==
  LET ws1 == Release(ws, e)
      c == [ConnOf(ws, e.id) EXCEPT !.read_pending = FALSE]
      c2 == IF c.ssl.on THEN Unsealed(c, e.res) ELSE c
      ws2 == Put(ws1, e.id, c2)
  IN  IF ~is_current(ws, e.id) THEN ws1
      ELSE IF e.res \in {EAGAIN, ENOBUFS} THEN submit_recv(Put(ws1, e.id, c), e.id)
      ELSE IF e.res <= 0 THEN Removed(ws1, e.id)
      ELSE Received(IF c2.ssl.wants > 0 THEN submit_send(ws2, e.id) ELSE ws2,
                    e.id, Plain(c, e.res))

-----------------------------------------------------------------------------
(* Accepting.                                                                *)

\* record_completion, and fall_back_to_single_shot.
AcceptCompleted(a, e) ==
  [pending |-> a.multi /\ e.more, multi |-> a.multi /\ e.res # EINVAL]

\* insert_connection and the first receive, in the vacant slot s.
Inserted(ws, s, gen, cid, req) ==
  submit_recv([ws EXCEPT !.conns[s] = NewConnection(gen, cid, req)], [slot |-> s, gen |-> gen])

Rearmed(ws) == IF requested THEN ws ELSE submit_accept(ws)

-----------------------------------------------------------------------------
(* IoUringWorker::run.                                                       *)

AfterBatch(b) == IF b = {} THEN "top" ELSE "dispatch"

\* A handler that walks the slab serves one id of its list per step.
Walk(stage, ids, b) == pc' = (IF ids = {} THEN AfterBatch(b) ELSE stage) /\ work' = ids

\* Mutant: accepts in flight are not waited for.
begin_shutdown_uncounted(ws) ==
  LET ws2 == [ws EXCEPT !.shutting_down = TRUE, !.accept.pending = FALSE]
  IN  IF ws.accept.pending
      THEN push_entry(ws2, Op("accept cancel", NoId, 0, "accept")) ELSE ws2

\* Mutant: connections are dropped rather than drained.
begin_shutdown_dropping(ws) ==
  [Dropped(ws, Live(ws)) EXCEPT !.shutting_down = TRUE]

\* The accept in flight is cancelled; connections go on.
begin_shutdown(ws) ==
  LET ws2 == [ws EXCEPT !.shutting_down = TRUE]
  IN  IF ws.accept.pending
      THEN [push_entry(ws2, Op("accept cancel", NoId, 0, "accept"))
              EXCEPT !.pending_cancellations = 1]
      ELSE ws2

shutdown_drained(ws) ==
  ws.pending_cancellations = 0 /\ ~ws.accept.pending /\ Live(ws) = {}

\* The head of the loop, for a worker that has noticed the shutdown or not.
Passes(ws, place) ==
  /\ pc = "top"
  /\ w' = ws /\ pc' = place
  /\ UNCHANGED <<gens, work, cq, batch, dns, came, requested>>

Noticed == IF requested /\ ~w.shutting_down THEN begin_shutdown(w) ELSE w

Top ==
  Passes(Noticed, IF Noticed.shutting_down /\ shutdown_drained(Noticed) THEN "exited" ELSE "wait")

\* shutdown_deadline_reached.
DeadlineReached ==
  /\ "drain" \in Timers
  /\ w.shutting_down /\ ~shutdown_drained(w)
  /\ Passes(w, "expired")

\* submit_and_wait(1) returns with every completion posted so far.
Wait ==
  /\ pc = "wait" /\ cq # {}
  /\ batch' = cq /\ cq' = {}
  /\ pc' = "dispatch"
  /\ UNCHANGED <<w, gens, work, dns, came, requested>>

\* Operations complete in any order, but the last completion of a multishot accept
\* comes after the others.
Takes(e, kinds) ==
  /\ pc = "dispatch" /\ e.kind \in kinds
  /\ e.kind = "accept" /\ ~e.more => \A d \in batch \ {e} : d.kind # "accept"
  /\ batch' = batch \ {e}

Handled(ws, b) == w' = ws /\ pc' = AfterBatch(b)

\* The eventfd of ShutdownHandle: request() once more.
DispatchShutdown(e) ==
  /\ Takes(e, {"shutdown"})
  /\ requested' = TRUE
  /\ Handled(w, batch')
  /\ UNCHANGED <<gens, work, cq, dns, came>>

\* pending_cancellations counts only the accepts that begin_shutdown cancelled.
DispatchCancel(e) ==
  /\ Takes(e, {"accept cancel", "proxy cancel"})
  /\ Handled(IF e.kind = "proxy cancel" \/ w.pending_cancellations = 0 THEN w
             ELSE [w EXCEPT !.pending_cancellations = @ - 1], batch')
  /\ UNCHANGED <<gens, work, cq, dns, came, requested>>

DispatchAccept(e) ==
  LET ws == [w EXCEPT !.accept = AcceptCompleted(@, e)]
      keeps == /\ e.res >= 0 /\ ~w.shutting_down
               /\ Cardinality(Live(w)) < MaxConnections
  IN  /\ Takes(e, {"accept"})
      /\ \/ /\ ~keeps /\ Handled(Rearmed(ws), batch') /\ UNCHANGED gens
         \/ /\ keeps
            /\ \E s \in Slots \ Live(w), req \in Requests :
                 LET gen == next_generation(gens[s])
                 IN  /\ gens' = [gens EXCEPT ![s] = gen]
                     /\ Handled(Rearmed(Inserted(ws, s, gen, e.cid, req)), batch')
      /\ UNCHANGED <<work, cq, dns, came, requested>>

\* How many addresses in a row have no socket when the next one is tried.
NoSockets == IF "socket" \in Faults THEN 0 .. MaxAddresses ELSE {0}

dispatch_completion(ws, e, bad) ==
  CASE e.kind = "read" -> handle_read_completion(ws, e)
    [] e.kind = "write" -> handle_write_completion(ws, e)
    [] e.kind = "connect" -> handle_proxy_connect(ws, e, bad)
    [] e.kind = "upwrite" -> handle_proxy_write(ws, e)
    [] OTHER -> handle_proxy_read(ws, e)

IoKinds == {"read", "write", "connect", "upwrite", "upread"}

DispatchIo(e) ==
  /\ Takes(e, IoKinds)
  /\ \E bad \in NoSockets : Handled(dispatch_completion(w, e, bad), batch')
  /\ UNCHANGED <<gens, work, cq, dns, came, requested>>

\* process_dns_results re-arms the eventfd read, unless the worker is draining.
EndResults(ws) == IF ws.shutting_down THEN ws ELSE push_entry(ws, Control("dns"))

DispatchDns(e) ==
  /\ Takes(e, {"dns"})
  /\ dns' = [dns EXCEPT !.results = {}, !.drained = dns.results]
  /\ IF dns.results = {} THEN Handled(EndResults(w), batch') ELSE w' = w /\ pc' = "results"
  /\ UNCHANGED <<gens, work, cq, came, requested>>

ServeResult ==
  /\ pc = "results"
  /\ \E r \in dns.drained, bad \in NoSockets :
       LET ws == finish_resolution(w, r, bad)
       IN  /\ dns' = [dns EXCEPT !.drained = @ \ {r}]
           /\ IF dns.drained = {r} THEN Handled(EndResults(ws), batch) ELSE w' = ws /\ pc' = pc
  /\ UNCHANGED <<gens, work, cq, batch, came, requested>>

\* Mutant: a deadline is checked while the client's buffer is being sent.
Expired_writing(ws) ==
  {s \in Live(ws) : LET p == ws.conns[s].proxy IN p.on /\ ~p.timed_out /\ p.due}

Expired(ws) ==
  {s \in Live(ws) : LET p == ws.conns[s].proxy
                    IN  ~ws.conns[s].write_pending /\ p.on /\ ~p.timed_out /\ p.due}

\* Mutant: the operation is cancelled but not marked as timed out.
time_out_unmarked(ws, id) ==
  LET c == ConnOf(ws, id)
      of == CASE c.proxy.phase = "Connecting" -> "connect"
              [] c.proxy.phase = "WritingRequest" -> "upwrite"
              [] OTHER -> "upread"
  IN  IF ~c.proxy.pending THEN fail_proxy(ws, id)
      ELSE push_entry(ws, Op("proxy cancel", id, c.cid, of))

\* A deadline with no operation in flight fails the request; else the operation
\* is cancelled and its completion fails the request.
time_out(ws, id) ==
  LET c == ConnOf(ws, id)
      of == CASE c.proxy.phase = "Connecting" -> "connect"
              [] c.proxy.phase = "WritingRequest" -> "upwrite"
              [] OTHER -> "upread"
  IN  IF ~c.proxy.pending THEN fail_proxy(ws, id)
      ELSE push_entry(Put(ws, id, [c EXCEPT !.proxy.timed_out = TRUE]),
                      Op("proxy cancel", id, c.cid, of))

is_handshaking(c) == c.ssl.on /\ c.ssl.hs < 2

\* The connections whose handshake began handshake_timeout ago: any of those that
\* are handshaking.
HandshakeExpired(ws) ==
  IF "handshake" \in Timers THEN SUBSET {s \in Live(ws) : is_handshaking(ws.conns[s])} ELSE {{}}

\* Mutant: the timer is not read again.
EndTimeouts_once(ws, b) ==
  /\ w' = ws
  /\ Walk("streams", {IdOf(ws, s) : s \in {x \in Live(ws) : LET c == ws.conns[x]
                                      IN  c.stream.on /\ ~c.write_pending /\ c.len = 0}}, b)

\* Mutant: streams are left to write completions.
EndTimeouts_unpumped(ws, b) ==
  w' = push_entry(ws, Control("timer")) /\ Walk("streams", {}, b)

\* Handshakes past their deadline are closed and the timer is read again; then
\* pump_static_streams visits the streams whose buffer is out.
EndTimeouts(ws, b) == \E late \in HandshakeExpired(ws) :
  LET ws2 == Dropped(ws, late)
      idle == {s \in Live(ws2) : LET c == ws2.conns[s]
                                 IN  c.stream.on /\ ~c.write_pending /\ c.len = 0}
  IN  /\ w' = push_entry(ws2, Control("timer"))
      /\ Walk("streams", {IdOf(ws2, s) : s \in idle}, b)

DispatchTimer(e) ==
  /\ Takes(e, {"timer"})
  /\ IF Expired(w) = {} THEN EndTimeouts(w, batch')
     ELSE w' = w /\ Walk("timeouts", {IdOf(w, s) : s \in Expired(w)}, batch')
  /\ UNCHANGED <<gens, cq, dns, came, requested>>

ServeTimeout ==
  /\ pc = "timeouts"
  /\ \E id \in work :
       IF work = {id} THEN EndTimeouts(time_out(w, id), batch)
       ELSE w' = time_out(w, id) /\ Walk("timeouts", work \ {id}, batch)
  /\ UNCHANGED <<gens, cq, batch, dns, came, requested>>

ServeStream ==
  /\ pc = "streams"
  /\ \E id \in work :
       w' = advance_static_stream(w, id) /\ Walk("streams", work \ {id}, batch)
  /\ UNCHANGED <<gens, cq, batch, dns, came, requested>>

Dispatch == \E e \in batch :
  \/ DispatchShutdown(e) \/ DispatchCancel(e) \/ DispatchAccept(e) \/ DispatchIo(e)
  \/ DispatchDns(e) \/ DispatchTimer(e)

Worker == Top \/ DeadlineReached \/ Wait \/ Dispatch \/ ServeResult \/ ServeTimeout \/ ServeStream

-----------------------------------------------------------------------------
(* The kernel and the world outside.                                         *)

Running == pc \notin {"exited", "expired"}

\* The worker looks at completions only when it returns from submit_and_wait, so the
\* kernel posts them while it is there: earlier is no different.
Waiting == pc = "wait"

Completion(o, res, buf, more) ==
  [kind |-> o.kind, id |-> o.id, cid |-> o.cid, res |-> res, buf |-> buf, more |-> more]

\* The operation o is over: it leaves the ring and its completion is posted.
Completes(ws, o, res, buf) ==
  /\ Waiting
  /\ w' = [ws EXCEPT !.ops = @ \ {o}, !.free = IF buf THEN @ - 1 ELSE @]
  /\ cq' = cq \cup {Completion(o, res, buf, FALSE)}
  /\ UNCHANGED <<gens, pc, work, batch, dns, came, requested>>

\* The connection o was pushed for.
OwnerOf(o) == w.conns[o.id.slot]
HasOwner(o) == OwnerOf(o).cid = o.cid
InRing(kind) == {o \in w.ops : o.kind = kind}

\* A multishot accept stays in the ring, unless the kernel ends it.
ClientConnects ==
  /\ Waiting /\ came < MaxClients /\ came' = came + 1
  /\ \E o \in InRing("accept"), more \in BOOLEAN :
       /\ more => w.accept.multi
       /\ ~more => ~w.accept.multi \/ "multishot" \in Faults
       /\ w' = IF more THEN w ELSE [w EXCEPT !.ops = @ \ {o}]
       /\ cq' = cq \cup {[Completion(o, 0, FALSE, more) EXCEPT !.cid = came']}
  /\ UNCHANGED <<gens, pc, work, batch, dns, requested>>

AcceptFails == \E o \in InRing("accept") :
  \/ "multishot" \in Faults /\ w.accept.multi /\ came = 0 /\ Completes(w, o, EINVAL, FALSE)
  \/ "accept" \in Faults /\ Completes(w, o, FAILED, FALSE)

\* What the client has yet to send; over TLS it answers the server's flight, whose
\* completion is posted, and so handled, before the answer's.
ToSend(c) ==
  LET request == c.req.head + c.req.body + Extra
  IN  IF ~c.ssl.on THEN request - c.sent
      ELSE IF c.ssl.hs = 0 THEN 1
      ELSE IF c.ssl.hs = 1 /\ c.ssl.wants + c.ssl.ctl > 0 THEN 0
      ELSE request + 2 - c.sent

\* A receive takes what is there, up to one provided buffer.
ClientSends == \E o \in InRing("read") :
  LET c == OwnerOf(o)
  IN  /\ HasOwner(o) /\ ToSend(c) > 0
      /\ \/ w.free = 0 /\ Completes(w, o, ENOBUFS, FALSE)
         \/ /\ w.free > 0
            /\ \E n \in 1 .. Least(BufLen, ToSend(c)) :
                 Completes([w EXCEPT !.conns[o.id.slot].sent = @ + n], o, n, TRUE)

\* An end of file may or may not have used a buffer up.
ClientLeaves == \E o \in InRing("read") :
  \/ "halfclose" \in Faults /\ \E buf \in {FALSE, w.free > 0} : Completes(w, o, 0, buf)
  \/ "reset" \in Faults /\ Completes(w, o, FAILED, FALSE)

ClientReads == \E o \in InRing("write") :
  IF HasOwner(o) THEN \E n \in 1 .. Unsent(OwnerOf(o)) : Completes(w, o, n, FALSE)
                 ELSE Completes(w, o, FAILED, FALSE)

ClientResets == \E o \in InRing("write") : "reset" \in Faults /\ Completes(w, o, FAILED, FALSE)

\* EAGAIN or EINTR.
Interrupted == \E o \in w.ops :
  /\ "retry" \in Faults /\ o.kind \in IoKinds \ {"connect"}
  /\ Completes(w, o, EAGAIN, FALSE)

UpstreamConnects == \E o \in InRing("connect") : Completes(w, o, 0, FALSE)

UpstreamReads == \E o \in InRing("upwrite") :
  \E n \in 1 .. UpReqLen - OwnerOf(o).proxy.off : Completes(w, o, n, FALSE)

UpstreamSends == \E o \in InRing("upread") :
  LET todo == OwnerOf(o).proxy.todo
  IN  /\ HasOwner(o) /\ todo > 0
      /\ \/ w.free = 0 /\ Completes(w, o, ENOBUFS, FALSE)
         \/ /\ w.free > 0
            /\ \E n \in 1 .. Least(BufLen, todo) :
                 Completes([w EXCEPT !.conns[o.id.slot].proxy.todo = @ - n], o, n, TRUE)

\* The end of the response, or an early close.
UpstreamCloses == \E o \in InRing("upread"), buf \in {FALSE, w.free > 0} :
  /\ OwnerOf(o).proxy.todo = 0 \/ "upstream" \in Faults
  /\ Completes(w, o, 0, buf)

UpstreamFails == \E o \in w.ops :
  /\ "upstream" \in Faults /\ o.kind \in {"connect", "upwrite", "upread"}
  /\ Completes(w, o, FAILED, FALSE)

\* A cancellation ends the operation whose user_data it names, if it is still in
\* the ring, and completes itself.
CancelTarget(k) == {o \in w.ops : o.kind = k.of /\ o.id = k.id}

Cancels == \E k \in InRing("accept cancel") \cup InRing("proxy cancel") :
  /\ Waiting
  /\ w' = [w EXCEPT !.ops = @ \ ({k} \cup CancelTarget(k))]
  /\ cq' = cq \cup {Completion(o, IF o = k THEN 0 ELSE ECANCELED, FALSE, FALSE) :
                      o \in {k} \cup CancelTarget(k)}
  /\ UNCHANGED <<gens, pc, work, batch, dns, came, requested>>

ResolverTakes ==
  /\ Running /\ Cardinality(dns.running) < DnsThreads
  /\ \E t \in w.tasks : /\ w' = [w EXCEPT !.tasks = @ \ {t}]
                        /\ dns' = [dns EXCEPT !.running = @ \cup {t}]
  /\ UNCHANGED <<gens, pc, work, cq, batch, came, requested>>

\* A thread sends its answer, then writes the eventfd.
ResolverAnswers ==
  /\ Running
  /\ \E t \in dns.running, n \in (IF "dns" \in Faults THEN 0 ELSE 1) .. MaxAddresses :
       dns' = [dns EXCEPT !.running = @ \ {t}, !.wake = TRUE,
                          !.results = @ \cup {[id |-> t.id, cid |-> t.cid, addresses |-> n]}]
  /\ UNCHANGED <<w, gens, pc, work, cq, batch, came, requested>>

\* A read of an eventfd or of the timer completes: the counter is reset.
DnsWakes ==
  /\ dns.wake
  /\ \E o \in InRing("dns") :
       /\ Waiting
       /\ w' = [w EXCEPT !.ops = @ \ {o}]
       /\ cq' = cq \cup {Completion(o, 0, FALSE, FALSE)}
  /\ dns' = [dns EXCEPT !.wake = FALSE]
  /\ UNCHANGED <<gens, pc, work, batch, came, requested>>

TimerTicks == \E o \in InRing("timer") : Completes(w, o, 0, FALSE)

ShutdownWakes == requested /\ \E o \in InRing("shutdown") : Completes(w, o, 0, FALSE)

\* A step of the world outside on the connection in slot s.
Outside(s, c) ==
  /\ Waiting /\ s \in Live(w)
  /\ w' = [w EXCEPT !.conns[s] = c]
  /\ UNCHANGED <<gens, pc, work, cq, batch, dns, came, requested>>

\* The thread of spawn_file_stream: send blocks while the channel is full.
ProducerSends(s) ==
  LET st == w.conns[s].stream
  IN  /\ st.on /\ st.left > 0 /\ st.queued < ChanCap
      /\ Outside(s, [w.conns[s] EXCEPT !.stream.queued = @ + 1, !.stream.left = @ - 1])

ProducerEnds(s) ==
  LET st == w.conns[s].stream
  IN  /\ st.on /\ st.open
      /\ \/ st.left = 0 /\ Outside(s, [w.conns[s] EXCEPT !.stream.open = FALSE])
         \/ /\ "file" \in Faults /\ st.left > 0 /\ st.queued < ChanCap
            /\ Outside(s, [w.conns[s] EXCEPT !.stream.open = FALSE, !.stream.left = 0,
                                             !.stream.bad = TRUE])

PhaseElapses(s) ==
  /\ "phase" \in Timers /\ w.conns[s].proxy.on /\ ~w.conns[s].proxy.due
  /\ Outside(s, [w.conns[s] EXCEPT !.proxy.due = TRUE])

\* ShutdownHandle::request: the flag, then the eventfd.
ShutdownRequested ==
  /\ Running /\ "drain" \in Timers /\ ~requested
  /\ requested' = TRUE
  /\ UNCHANGED <<w, gens, pc, work, cq, batch, dns, came>>

Clients == ClientSends \/ ClientLeaves \/ ClientReads \/ ClientResets
Upstreams ==
  UpstreamConnects \/ UpstreamReads \/ UpstreamSends \/ UpstreamCloses \/ UpstreamFails
Resolver == ResolverTakes \/ ResolverAnswers
Producers == \E s \in Slots : ProducerSends(s) \/ ProducerEnds(s)
Kernel == Cancels \/ DnsWakes \/ TimerTicks \/ ShutdownWakes
Clock == \E s \in Slots : PhaseElapses(s)

\* The process has ended; nothing happens any more.
Ended == ~Running /\ UNCHANGED vars

\* The operations run() pushes before its loop.
Init ==
  /\ w = [conns |-> [s \in Slots |-> Vacant],
          ops |-> {Control(kind) : kind \in {"accept", "shutdown", "dns", "timer"}},
          accept |-> [pending |-> TRUE, multi |-> TRUE],
          free |-> Buffers, tasks |-> {}, shutting_down |-> FALSE, pending_cancellations |-> 0,
          outcome |-> [k \in 1 .. MaxClients |-> "none"]]
  /\ gens = [s \in Slots |-> 0]
  /\ pc = "top" /\ work = {}
  /\ cq = {} /\ batch = {}
  /\ dns = [running |-> {}, results |-> {}, drained |-> {}, wake |-> FALSE]
  /\ came = 0
  /\ requested = FALSE

Next ==
  \/ Worker \/ ClientConnects \/ AcceptFails \/ Clients \/ Interrupted \/ Upstreams
  \/ Resolver \/ Producers \/ Kernel \/ Clock \/ ShutdownRequested \/ Ended

Spec == Init /\ [][Next]_vars

=============================================================================
