# Thwip in TLA+

Models of the thwip HTTP server and reverse proxy, checked with TLC and, for the
central invariants of most parts, proved with TLAPS.

## The system

A **master** process (`run/master`) forks one **worker** per CPU (`run/slave`),
restarts workers that fail and passes a shutdown on to them. A worker binds the
listen addresses of the configuration, groups its servers by address, and runs one
thread: on epoll and kqueue the **readiness worker** (`runtime/readiness`, over
mio), or the **io_uring worker** (`runtime/io_uring`). A request is assigned a server
by its Host header and a location by its target; the location answers with a fixed
response, a **static file** read by a thread of its own, or an **upstream** chosen by
the **load balancer**, whose name is looked up by **DNS threads**. Every connection
serves one request.

| Part | Source | Modules | State |
|---|---|---|---|
| Readiness worker, DNS threads, mio | `runtime/readiness/*.rs` | `ReadinessWorker`, `ReadinessProperties` | all but TLS |
| io_uring worker, its DNS threads | `runtime/io_uring/*.rs` | `UringWorker`, `UringProperties` | one listener; TLS without proxying |
| Provided buffers of the ring | `runtime/io_uring/buffer_ring.rs` | `BufferRing`, `BufferPool` | modelled |
| What either worker promises | | `Service` | abstract specification |
| From a read request to its action | `http.rs` (`body_length`), both `worker.rs` | `RequestPath` | modelled |
| Load balancer | `load_balancer.rs` | `LoadBalancer` | modelled |
| Configuration, its validation | `config.rs` | `Configuration` | `from_toml`; schema and defaults left |
| Listener groups, virtual hosts, routes | `listener.rs`, `router.rs` | `Routing` | control modelled |
| File responses, ranges, reading thread | `static_files.rs` | `FileStream` | path resolution left |
| Master, worker signals and exits | `master/src/main.rs`, `startup.rs` | `Supervisor` | modelled |
| Shutdown flag, limits | `runtime/mod.rs` | variables and constants of the workers | metrics left |

`PROJECT.json` has the line-by-line map, the hazards each part is exposed to, and the
disagreements with the documentation.

## Modules

**`ReadinessWorker`**. The handlers of `worker.rs` keep their names and are operators
from the worker's state `w` to the next one (`connection_ready`, `write_ready`,
`fail_proxy`, `advance_static_stream`, ...), composed as the code composes them. The
actions are the steps of `ReadinessWorker::run`: the shutdown tests at the top, one
action per connection and stage (answers, three kinds of deadline, streams, the three
pending sets), `poll`, and the dispatch of one event. Between any two of them the
environment moves: clients connect, send, read, close their sending side or reset;
upstreams connect, read, answer, close or fail; resolver threads take and answer
lookups; file threads produce or fail; deadlines elapse.

- A socket is `[inq, fin, err, space, interest, armed]`: units to read, end of stream,
  error, room to write, registered interest, and whether the next poll reports it.
  It is armed by a change of what is ready and by (re)registering, and disarmed by
  poll. This edge-triggered delivery is external, taken from how the worker uses mio.
- One unit is what one `read` or `write` moves. Contents are abstracted to the
  response a byte belongs to, which `w.wire` records for each client: the bytes it got,
  and whether they ever stopped being a prefix of one response (`torn`).
- A deadline is a Boolean set only when its connection has made no progress since it
  was last looked at; `IdleDuringProxy` says whether `idle_timeout` may elapse while a
  request is being proxied.
- A request is the units of its head and body, and those the client sends beyond them.
- `Faults` and `Timers` choose which misbehaviour an instance includes. A failing
  `reregister` (`register`) ends the worker in `advance_static_stream`, as in the code.
- Left out: TLS, metrics, and `start_proxy`'s own errors (a bad URL, an oversized
  upstream request), which are answered like a fixed response.

**`ReadinessProperties`** states what the worker promises. **`ReadinessHandlers`**,
**`ReadinessSteps`** and **`ReadinessProofs`** hold the proofs.

**`UringWorker`**. The same service on completions. Handlers are again operators on
`w`; `w.ops` are the operations pushed and not completed, `cq` and `batch` the
completions posted and collected. An operation has its kind and id, which `user_data`
encodes, and the client it was built for. The actions are the steps of
`IoUringWorker::run`: the head of the loop, `submit_and_wait`, the dispatch of one
completion, and one action per connection where a handler walks the slab (answers of
the resolver, expired phases, streams). The kernel completes operations in any order,
with any length, end of file or error the peer allows.

- The worker looks at completions only when it returns from `submit_and_wait`, so the
  kernel posts them while it waits there; anything earlier is no different.
- A cancellation ends the operation its `user_data` names if it is still in the ring,
  whichever that is by then.
- Receives take one of `Buffers` provided buffers, or fail with ENOBUFS.
- With `Tls`, a session takes two flights from the client, answers each with a record,
  and shares `ssl_write_buffer` with the response.
- `UringProperties` states what the worker promises.

**`BufferRing`**. `publish` and `copy_and_release` step by step (copy, descriptor, tail)
against a kernel that takes descriptors and posts completions at any moment. It
implements **`BufferPool`**, in which a buffer goes from the kernel to a completion, is
copied, and returns.

**`Service`**. What both workers promise, without connections, buffers or events:
a client is admitted once, within the limit and before a drain; its connection ends
once, with a whole response unless the instance lets a fault or a drain cut it; a drain
ends when nobody is left or at the deadline. `ReadinessServes` and `UringServes` are the
two refinements. The readiness worker may cut clients once a drain begins (`Cuts` has
"drain"), the io_uring worker may not. `ReadinessServes` is checked without faults, where
nothing else may cut a client, for two clients over a limit of one. `UringServes` is
checked with failing upstreams, so the part about whole responses rests on
`UringClosesOnlyWhenAnswered` there.

**`Supervisor`**. `supervise_workers`, with one action per section of its loop (the
shutdown test, `waitpid`, the exit tests, one action per restart), and the children: a
child that has not yet run `install_shutdown_signals` swallows a SIGTERM, because the
master's handler was inherited by `fork`. Time is in units of `RESTART_BASE_DELAY`.

**`RequestPath`** composes what decides about a request: `bind_worker_listeners`, then
framing (`body_length`, the end of the body), `select_server` and `route`, and
`prepare_response`, which answers, streams a file or asks the balancer. It starts from
any configuration that `from_toml` accepts.

**`Configuration`**. Servers, locations, upstream groups, and `Config::from_toml`: the check of
each weight, then `Config::validate`.

**`LoadBalancer`**. `UpstreamBalancer::select`: cursors by group name or by contents for
inline pools, round robin and weighted, arithmetic modulo `Modulus` for 2^64.

**`Routing`**. `bind_worker_listeners` as one action per server, `select_server`, `route`.
Paths and targets are sequences of characters; a host is the Host value after
`hostname` has removed the port. Requests choose their group.

**`FileStream`**. `static_stream_response` with `parse_range`, then the thread of
`spawn_file_stream` against the receiving connection, while the file is resized,
replaced or removed. The worker modules use the same channel with its chunks counted
only; they share no variables.

**`SupervisorProofs`**, **`BufferRingProofs`** and **`RequestPathProofs`** hold the proofs
about the modules they are named after; **`RequestParts`** has the lemmas on files, routes,
balancers and framing the last one rests on.

## Runs

Passing, with distinct states:

| Run | States | What it shows |
|---|---|---|
| `readiness_faults` | 579 k | static, invalid and proxied requests of two clients in one reused slot, with every fault and deadline: `TypeOK`, `IdsNameOneConnection`, `OneResponse`, `EdgesKept` (read, write and upstream edges), and `IdleSparesUnsentResponse` |
| `readiness_answers` | 56 k | no faults, two clients over a limit of one, every kind of answer, a shutdown at any moment: `AcceptEdgeKept`, `ReadinessServes` (refinement); `EveryClientIsAnswered` (liveness), events dispatched one per poll |
| `readiness_shutdown` | 24 k | half-closing clients, failing lookups, upstreams and files, bytes beyond the request, deadlines and a shutdown at any moment: `ResponsesAreDelivered`; `ShutdownEnds` and `EverySlotIsFreed` (liveness) with peers that may stop anywhere |
| `uring_faults` | 507 k | two clients in two slots with faults, retries, phase deadlines and cancellations: `PendingFlagsMatchTheRing`, `UringIdsNameOneConnection`, `CancelsEndTimedOutWork`, `BuffersAreConserved`, `UringOneResponse`, `RingMemoryIsStable` |
| `uring_drain` | 42 k | every kind of request, accepts and upstreams that fail, a shutdown at any moment: `DrainLeavesNothing` (with the flag of the accept), `UringServes` (refinement, a drain cuts nobody), `UringTriesEveryAddress`, `UringClosesOnlyWhenAnswered`; `UringEveryClientIsAnswered` and `UringShutdownEnds` (liveness) |
| `buffer_ring` | 48 k | `DescriptorsAreFresh`, `RingIsAPool` (refinement), `EveryBufferReturns` (liveness), the indices wrapping every second round |
| `request_path` | 340 k | grouping, Host and location (`RequestIsRouted`), framing (`BodyIsFramedOnce`) and ranges (`RangeIsWhatWasAsked`), each against a reference; `ValidatedRoutesGetAnUpstream` and `GroupShareIsExact` of the balancer; a changing file is sent as announced or cut (`BodyIsTheRange`); `ThreadOutlivesNoConnection` and `EveryStreamEnds` (liveness) |
| `supervisor` | 65 k | `EveryChildIsTracked`, `CleanExitLeavesNoWorker`, `RestartsFollowFailures`, `RestartsAreSpaced`; `FailedWorkerIsReplaced` and `ShutdownEndsUnlessUnheard` (liveness) |

Runs that end in a counterexample, each with a finding in `PROJECT.json`:

| Run | What the code does |
|---|---|
| `readiness_gateway_timeout` | a 504 is dropped by the idle deadline in the same pass when `idle_timeout` is not longer than the proxy timeout; both default to 30 s |
| `readiness_shutdown_work` | a shutdown closes requests that are being resolved or proxied |
| `uring_tls` | on the ring, a TLS connection is closed when the server's handshake flight is out, before its request is answered |
| `supervisor_early_signal` | a SIGTERM before the child's registration is lost and the shutdown never ends |

### Boundaries of the checks

The passing runs stay on one side of these limits of the code; on the other side the
named property fails, or none is stated:

- *Read budget*: with a `ReadBudget` one smaller than in the runs `EdgesKept` and
  `EveryClientIsAnswered` fail. `connection_ready` stops after 16 reads of 8 KiB and leaves
  the rest to an edge that was consumed. It takes a `max_read_buffer_size` of 128 KiB or
  more, or bytes that keep arriving in small pieces.
- *Write budget*: with `WriteBudget` 1 and `UpReadMax` 2 `EdgesKept` fails, as
  `write_ready` reschedules itself only in the phase WritingResponse, not in Proxying.
  It takes 16 partial writes of one 8 KiB buffer.
- *Accept errors*: with the fault `accept` `AcceptEdgeKept` fails: `accept_ready` returns
  with clients waiting and no edge to come.
- *Oversized input*: extra bytes beyond `MaxRead` while a file is streamed queue a 413
  that does not end the stream; `OneResponse` and `ResponsesAreDelivered` then fail.
- *Late oversized input*: the read that overflows the buffer does not renew
  `last_progress`. If the idle deadline passed while the loop slept in the poll that
  reports it, the next pass closes the connection before its 413 is sent, and
  `IdleSparesUnsentResponse` fails.
- *Half-closed clients*: a client that half-closes while its request is proxied, or while
  a file is between two chunks, loses the rest. `ResponsesAreDelivered` leaves these out.
- *Proxied responses during a drain*: `write_ready` closes a proxied client when its buffer
  is out, although the upstream may have more to send, so `Service` lets a drain cut
  clients after it began as well.
- *Addresses*: the readiness worker connects to the first resolved address only and
  answers a failure with 502, where `public/docs/workers/index.html:140` calls the
  others "connection fallbacks". The io_uring worker tries them all, as
  `UringTriesEveryAddress` states while sockets can be made for them.
- *Idle clients on the ring*: the io_uring worker has no idle timer, so a client that
  stays silent before its request keeps its slot (`public/docs/workers/index.html:99`
  describes `idle_timeout_ms` for all workers). `EverySlotIsFreed` is stated for the
  readiness worker only.
- *Lookups during a drain on the ring*: `process_dns_results` does not push the eventfd
  read again while draining. A lookup answered after the first one of the drain waits
  for its DNS timeout or the drain deadline.
- *Handshake timeout on the ring*: `check_proxy_timeouts` removes the connection although
  its receive, or a send from its buffer, may be in the ring: with the handshake timer
  `RingMemoryIsStable` fails. The timer is modelled and in no passing run.
- *Registration errors*: a failing `reregister` gives up its connection everywhere but in
  `advance_static_stream`, where it ends the worker. No document says which is meant.
- *Pace of the master*: with every child reaped and a restart pending, `waitpid` returns
  ECHILD at once and the loop goes round without its 50 ms sleep. CPU time is not
  modelled.
- *Waiting clients on the ring*: that a client in the backlog is accepted again after an
  accept failed is not stated; `DrainLeavesNothing` covers the flag that decides it, in the
  run with failing and single-shot accepts. In `uring_faults` accepts do not fail, and the
  part of `PendingFlagsMatchTheRing` about that flag is not exercised.
- *Chunk size*: a chunk of a file is queued whatever `max_write_buffer_size` is.
- *Inline pools*: two routes with equal inline pools have one cursor, so
  `GroupShareIsExact` is about the pool and not about each route. Its key is a tuple here
  and a text in `group_key`; only URLs that contain `#`, digits and `|` could make the
  texts of two different pools equal.
- *Wrap of the cursor*: shares are counted from one wrap of the 64-bit cursor to the next.
- *Queries*: `route` compares the whole target; an exact location does not match its
  path followed by a query.

### Bounds

- *Slots and clients*: the second client reuses the slot of the first, which is what a
  stale id needs; `uring_faults` has two slots, so that a client may come to either.
  Generations go to 3. In the liveness runs one client is served at a time.
- *Lengths*: a response of two units over a send buffer of one gives partial writes;
  two chunks give a gap between chunks. On the ring, a send may complete with any part
  of its buffer.
- *Budgets*: the read budgets are the smallest that suffice. `readiness_answers` has a
  request larger than `MaxRead`, found so by read `MaxRead` + 1, the last of the budget; in
  `readiness_faults` the longest request takes the whole budget. `WriteBudget` 1 in
  `readiness_faults` makes the budget run out on every response of more than one unit.
- *Requests*: `readiness_shutdown` has a client that sends one unit more than its request,
  within `MaxRead`, while a file is streamed to it. In `readiness_faults` requests fit in
  `MaxRead` and `IdleDuringProxy` is FALSE: the idle deadline is longer than the others,
  the case in which `IdleSparesUnsentResponse` holds.
- *Limit*: `readiness_answers` has two slots for one allowed connection, so that it is
  `max_connections` and not the slab that turns a client away.
- *Events*: `MaxEvents` 1 splits batches, 8 does not.
- *Ring*: one provided buffer for two clients, so that receives do meet ENOBUFS; two
  addresses in `uring_drain`.
- *Buffer ring*: four buffers and indices modulo 8 wrap every second round; two receives
  at once post in either order.
- *Supervisor*: three crashes among two workers pass the cap of the backoff
  (`MaxDelay` 2) and the stable window.
- *Request path*: one family of configurations per concern. Three servers on two
  addresses, so that the servers of one address need not be adjacent, with two
  spellings of a name; two proxy routes and a group with ten requests, which pass the
  wrap of a cursor modulo 8; every Range over files of up to three chunks, the last one
  short, against a channel of two, with two changes of the file; up to three headers.
  Only the balancer keeps state between requests, so the others get one.

Deadlock is checked in the worker and buffer runs, whose modules let an ended process
stutter. Supervisor runs end when all processes have, the request path with its
last request.

### Fairness

- `FairPeers`: the worker thread runs, and some peer that can move does. It is the
  hypothesis under which a server can promise an answer at all.
- `FairClock`: the worker thread runs and time passes; nothing is asked of peers. It is
  strong fairness because a deadline is enabled only between two signs of progress.
- `FairSupervisor`: the master's loop, the children's startup and draining (which the
  drain deadline bounds) and time go on; crashes are never required.
- `FairSpec` of `UringWorker`: the worker thread runs; some peer that can move does; ticks
  of the timer, eventfd wakeups and cancellations are delivered, and the drain deadline
  comes. Strong, because the model lets them act only while the worker waits, where the
  real ones go on all the time.
- `FairSpec` of `RequestPath`: the reading thread goes on, and the connection's `try_next`
  is called again and again, by the writable client or by `pump_static_streams`.
- `FairSpec` of `BufferRing`: the worker handles completions; nothing of the kernel.

## Proofs

Each proof is for every value of the constants that satisfies the named assumptions of
the module it extends. The provers cannot treat liveness under fairness.

| Module | Theorems | Assumptions |
|---|---|---|
| `ReadinessProofs` (with `ReadinessHandlers`, `ReadinessSteps`) | `Inductive`, `TypeCorrect`, `IdsSafe` | sizes are positive, `Slots` is finite, `MaxClients <= GenMax` |
| `SupervisorProofs` | `SupervisorSound`, `ChildrenTracked`, `ExitLeavesNoWorker`, `RestartsFollow`, `RestartsSpaced` | the largest delay is within the stable window |
| `BufferRingProofs` | `RingSound`, `Fresh`, `RingImplementsPool` | the number of buffers divides the range of the indices and is smaller |
| `RequestPathProofs` (with `RequestParts`) | `StreamExact`, `RangeHonoured`, `Routed`, `RoutesGetUpstreams`, `SharesAreExact`, `FramingUnambiguous`, from `RequestPathSound` | configurations and requests are well formed, `MaxRead` is below the range of the integers |

**Readiness worker.** No event, lookup or answer ever acts on another connection than the
one it was made for (`IdsSafe`), for any number of slots, resolver threads and events per
batch. `IdsNameOneConnection` is not inductive: a stale id in flight could become current
again when its slot is given a new generation. `IInv` adds that an id in flight (an
event, a task, a running lookup, an answer) is no newer than the last generation of its
slot (`Named`), that an occupant is not either (`Aged`), that generations are counted by
the clients that came, so none wraps (`Counted`), and that the answers the loop is serving
are still there (`AnswersKept`). A new occupant then has a generation no id in flight can
have. `ReadinessHandlers` proves of each handler that it keeps the worker's type and
`Follows`: it never adds an occupant, keeps the generation and client of those it leaves,
and makes tasks only for occupants. `ReadinessSteps` proves that each step of the loop
keeps `IInv`, `ReadinessProofs` the same of the environment. `MaxClients <= GenMax` is the
code's own limit: after as many occupants of one slot as the generation field can count,
an id comes round again.

**Master.** The slots agree with the processes: they name exactly those not reaped, each
the latest of its CPU (`Agree`); a restart is pending only where the latest process failed
and the rest of its backoff is still to come (`Scheduled`). `EveryChildIsTracked` and
`CleanExitLeavesNoWorker` follow from the first, `RestartsFollowFailures` and
`RestartsAreSpaced` from the second. `Caused` counts forks against failures, so that a
fork always finds a fresh pid: it is about the bound of the model, not about the code.

**Provided buffers.** The window between the kernel's head and the shared tail, modulo
the range of the indices, is never wider than the ring, and each descriptor in it names a
different buffer that nobody else has. Remainders of the index modulo the size then tell
the descriptors of the window apart even across a wrap, which is where the assumption on
the size is needed. The refinement of `BufferPool` maps each step to one step of the pool or to none.

**Request path.** The chunks in the channel continue the body and each other, and end
where the thread has read to (`Continues`), whatever happens to the file: the body is a
prefix of what was announced. Listener groups hold the servers bound so far, in order of
configuration (`Grouped`), from which `select_server` and `route` are shown to choose what
their reference definitions say. The counts of a balancer's endpoints are those of its
cursor in the sequence of weights (`Counted`). The framing of a request is proved by
following `content_length` header by header.

Only model-checked: what the io_uring worker promises, `OneResponse`, `EdgesKept` and the
action properties of the readiness worker, both refinements of `Service`, and all liveness.

## Not modelled

- *TLS in the readiness worker*: `read_tls`, `wants_write` and `close_notify` interleave
  with every handler of `worker.rs`; the handlers here are those of plaintext clients.
  `ssl.rs` loads certificates: pure I/O.
- *Proxied requests of TLS clients* on the ring, several listeners of one worker, and the
  errors of `io_uring` calls that end the worker.
- *The bit layout of ids*: tokens and `user_data` are records of kind, slot and
  generation; that generations wrap is modelled, the shifts and masks are not.
- *Path resolution of static files*: percent decoding, canonicalisation and symbolic links
  are a function of the file system without state of the server. `serve_static` reads
  whole files and is called by no worker.
- *`parse_request_head`, `Upstream::parse`, `request_bytes`, `response_bytes`*: parsing and
  formatting of text. Their outcome (incomplete, complete, error; a length) is an input.
- *Metrics* are counters no decision reads; *capability probing*, *CPU pinning*, *privilege
  drop* and *socket options* are system calls at startup.

## Plan

*Proofs*: the safety of the io_uring worker (`UringIdsNameOneConnection`,
`PendingFlagsMatchTheRing`, `BuffersAreConserved`), then `OneResponse`.
*Models*: TLS sessions of the readiness worker.
