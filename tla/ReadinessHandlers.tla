-------------------------- MODULE ReadinessHandlers --------------------------
(***************************************************************************)
(* What the handlers of the readiness worker do to its state, for every    *)
(* value of the constants: each keeps the types, and leaves every slot with *)
(* the client it had or vacant.                                             *)
(***************************************************************************)
EXTENDS ReadinessProperties, WellFoundedInduction, TLAPS

-----------------------------------------------------------------------------
\* The least-number principle, which the CHOOSEs of ReadsMade and EnterStage use.
LEMMA Least ==
  ASSUME NEW S \in SUBSET Nat, S # {}
  PROVE  \E x \in S : \A y \in S : x <= y
<1> DEFINE R == OpToRel(<, Nat)
<1>1. IsWellFoundedOn(R, Nat)  BY NatLessThanWellFounded
<1>2. \A x \in Nat, y \in Nat : y < x => <<y, x>> \in R  BY DEF OpToRel
<1> HIDE DEF R
<1>3. PICK x \in S : \A y \in S : ~(<<y, x>> \in R)  BY <1>1, WFMin
<1>4. ASSUME NEW y \in S  PROVE x <= y
  <2>1. ~(<<y, x>> \in R) /\ x \in Nat /\ y \in Nat  BY <1>3
  <2>2. ~(y < x)  BY <1>2, <2>1
  <2> QED  BY <2>1, <2>2
<1> QED  BY <1>4

-----------------------------------------------------------------------------
(* What every handler keeps: the types, and who is in which slot.            *)

Typed(ws) == ws \in WorkerState /\ \A s \in Slots : ws.conns[s].off <= ws.conns[s].len

TypedConn(c) == c \in Connection /\ c.off <= c.len

\* A slot keeps its occupant or is vacated.
SameOccupants(ws, ws2) ==
  \A s \in Slots : ws2.conns[s].phase # "Vacant" =>
    /\ ws.conns[s].phase # "Vacant"
    /\ ws2.conns[s].gen = ws.conns[s].gen
    /\ ws2.conns[s].cid = ws.conns[s].cid

\* A new lookup is for the occupant of its slot.
TasksOfOccupants(ws, ws2) ==
  \A t \in ws2.tasks : \/ t \in ws.tasks
                       \/ /\ ws.conns[t.id.slot].phase # "Vacant"
                          /\ ws.conns[t.id.slot].gen = t.id.gen
                          /\ ws.conns[t.id.slot].cid = t.cid

Follows(ws, ws2) == Typed(ws2) /\ SameOccupants(ws, ws2) /\ TasksOfOccupants(ws, ws2)

\* Put replaces one connection by another typed one of the same client.
LEMMA PutFollows ==
  ASSUME NEW ws, NEW id \in Ids, NEW c,
         Typed(ws), TypedConn(c), ConnOf(ws, id).phase # "Vacant",
         c.gen = ConnOf(ws, id).gen, c.cid = ConnOf(ws, id).cid
  PROVE  Follows(ws, Put(ws, id, c))
BY DEF Typed, TypedConn, Follows, SameOccupants, TasksOfOccupants, Put, ConnOf, WorkerState, Ids

LEMMA VacantTyped == TypedConn(Vacant)
BY SizeAssumption DEF TypedConn, Vacant, Connection, NoRequest, NoSocket, NoStream, NoProxy, Request, Socket, Stream, Proxy, Kinds, Sources, Phases, ProxyPhases

LEMMA RemoveFollows ==
  ASSUME NEW ws, NEW id \in Ids, Typed(ws)
  PROVE  Follows(ws, remove_connection(ws, id))
BY VacantTyped DEF Typed, TypedConn, Follows, SameOccupants, TasksOfOccupants, remove_connection, WorkerState, Ids, Vacant

LEMMA FollowsTransitive ==
  ASSUME NEW a, NEW b, NEW c, Typed(a), Follows(a, b), Follows(b, c)
  PROVE  Follows(a, c)
BY DEF Follows, SameOccupants, TasksOfOccupants, Typed, WorkerState, Task, Ids

LEMMA FollowsReflexive == ASSUME NEW ws, Typed(ws) PROVE Follows(ws, ws)
BY DEF Follows, SameOccupants, TasksOfOccupants

-----------------------------------------------------------------------------
(* What the handlers make of a connection: a typed one of the same client.   *)

Successor(c, d) ==
  /\ d \in Connection /\ d.off <= d.len
  /\ d.gen = c.gen /\ d.cid = c.cid /\ d.phase # "Vacant"

LEMMA RegisterTyped ==
  ASSUME NEW k \in Socket, NEW i \in SUBSET {"R", "W"}
  PROVE  Register(k, i) \in Socket
BY DEF Register, Socket

LEMMA NoSocketTyped == NoSocket \in Socket
BY SizeAssumption DEF NoSocket, Socket

LEMMA NoProxyTyped == NoProxy \in Proxy
BY SizeAssumption, NoSocketTyped DEF NoProxy, Proxy, ProxyPhases

LEMMA NewProxyTyped == ASSUME NEW u \in Nat PROVE NewProxy(u) \in Proxy
<1>1. Register(NoSocket, {"R", "W"}) \in Socket  BY NoSocketTyped, RegisterTyped
<1> QED  BY <1>1, SizeAssumption, NoProxyTyped DEF NewProxy, Proxy

LEMMA ResponseLenTyped == ResponseLen \in Nat
BY SizeAssumption DEF ResponseLen

LEMMA ListenSucceeds ==
  ASSUME NEW c, Successor(c, c), NEW i \in SUBSET {"R", "W"}
  PROVE  Successor(c, Listen(c, i))
<1>1. c \in Connection  BY DEF Successor
<1>2. Register(c.sock, i) \in Socket  BY <1>1, RegisterTyped DEF Connection
<1>3. Listen(c, i) \in Connection  BY <1>1, <1>2 DEF Listen, Connection
<1>4. Listen(c, i).off = c.off /\ Listen(c, i).len = c.len
  BY <1>1 DEF Listen, Connection
<1>5. Listen(c, i).gen = c.gen /\ Listen(c, i).cid = c.cid /\ Listen(c, i).phase = c.phase
  BY <1>1 DEF Listen, Connection
<1> QED  BY <1>3, <1>4, <1>5 DEF Successor

LEMMA QueuedSucceeds ==
  ASSUME NEW c \in Connection, NEW src \in Sources
  PROVE  Successor(c, Queued(c, src))
<1> DEFINE d == Queued(c, src)
<1>1. d \in Connection
  BY ResponseLenTyped, NoProxyTyped DEF Queued, Connection, Phases
<1>2. d.off = 0 /\ d.len = ResponseLen  BY DEF Queued, Connection
<1>3. d.gen = c.gen /\ d.cid = c.cid /\ d.phase = "WritingResponse"  BY DEF Queued, Connection
<1> QED  BY <1>1, <1>2, <1>3, ResponseLenTyped DEF Successor

LEMMA StartStreamSucceeds ==
  ASSUME NEW c, Successor(c, c)
  PROVE  Successor(c, StartStream(c))
<1> DEFINE d == StartStream(c)
<1>0. c \in Connection  BY DEF Successor
<1>1. [on |-> TRUE, queued |-> 0, left |-> Chunks, open |-> TRUE, bad |-> FALSE] \in Stream
  BY SizeAssumption DEF Stream
<1>2. d \in Connection  BY <1>0, <1>1 DEF StartStream, Connection
<1>3. d.off = c.off /\ d.len = c.len  BY <1>0 DEF StartStream, Connection
<1>4. d.gen = c.gen /\ d.cid = c.cid /\ d.phase = c.phase
  BY <1>0 DEF StartStream, Connection
<1> QED  BY <1>2, <1>3, <1>4 DEF Successor

\* A new write buffer, with any stream, proxy and clocks.
Refill(c, src, pos, len, st, p, due, idle) ==
  [c EXCEPT !.src = src, !.pos = pos, !.len = len, !.off = 0, !.stream = st, !.proxy = p,
            !.due = due, !.idle = idle]

LEMMA RefillSucceeds ==
  ASSUME NEW c, Successor(c, c), NEW src \in Sources, NEW pos \in Nat, NEW len \in Nat,
         NEW st \in Stream, NEW p \in Proxy, NEW due \in BOOLEAN, NEW idle \in BOOLEAN
  PROVE  Successor(c, Refill(c, src, pos, len, st, p, due, idle))
<1> DEFINE d == Refill(c, src, pos, len, st, p, due, idle)
<1>0. c \in Connection  BY DEF Successor
<1>1. d \in Connection  BY <1>0 DEF Connection, Refill
<1>2. d.off = 0 /\ d.len = len  BY <1>0 DEF Connection, Refill
<1>3. d.gen = c.gen /\ d.cid = c.cid /\ d.phase = c.phase  BY <1>0 DEF Connection, Refill
<1> QED  BY <1>1, <1>2, <1>3 DEF Successor

\* The fields of a connection that RefillSucceeds may leave alone.
LEMMA FieldsTyped ==
  ASSUME NEW c \in Connection
  PROVE  /\ c.src \in Sources /\ c.pos \in Nat /\ c.len \in Nat /\ c.off \in Nat
         /\ c.stream \in Stream /\ c.proxy \in Proxy /\ c.sock \in Socket
         /\ c.due \in BOOLEAN /\ c.idle \in BOOLEAN /\ c.pos + c.len \in Nat
BY DEF Connection

LEMMA NextChunkSucceeds ==
  ASSUME NEW c, Successor(c, c), c.stream.queued > 0
  PROVE  Successor(c, NextChunk(c))
<1> DEFINE st == [c.stream EXCEPT !.queued = c.stream.queued - 1]
<1>0. c \in Connection  BY DEF Successor
<1>1. c.stream \in Stream  BY <1>0, FieldsTyped
<1>2. c.stream.queued - 1 \in Nat  BY <1>1 DEF Stream
<1>3. st \in Stream  BY <1>1, <1>2 DEF Stream
<1>4. NextChunk(c) = Refill(c, "static", c.pos + c.len, ChunkLen, st, c.proxy, c.due, c.idle)
  BY <1>0 DEF NextChunk, Connection, Refill
<1>5. "static" \in Sources /\ ChunkLen \in Nat  BY SizeAssumption DEF Sources
<1>6. c.pos + c.len \in Nat /\ c.proxy \in Proxy /\ c.due \in BOOLEAN /\ c.idle \in BOOLEAN
  BY <1>0, FieldsTyped
<1> HIDE DEF st
<1>7. Successor(c, Refill(c, "static", c.pos + c.len, ChunkLen, st, c.proxy, c.due, c.idle))
  BY <1>3, <1>5, <1>6, RefillSucceeds, Zenon
<1> QED  BY <1>4, <1>7, Zenon

LEMMA ClearedSucceeds ==
  ASSUME NEW c, Successor(c, c)
  PROVE  Successor(c, Cleared(c))
<1>0. c \in Connection  BY DEF Successor
<1>1. Cleared(c) = Refill(c, c.src, c.pos + c.len, 0, c.stream, c.proxy, c.due, c.idle)
  BY <1>0 DEF Cleared, Connection, Refill
<1> QED  BY <1>0, <1>1, FieldsTyped, RefillSucceeds

\* A write moves no more than is left and no more than the socket takes.
LEMMA WrittenBounds ==
  ASSUME NEW k \in Socket, NEW left \in Nat
  PROVE  Written(k, left) \in Nat /\ Written(k, left) <= left /\ Written(k, left) <= k.space
<1>1. k.space \in Nat  BY SizeAssumption DEF Socket
<1> QED  BY <1>1, SizeAssumption DEF Written

LEMMA WroteSucceeds ==
  ASSUME NEW c, Successor(c, c), NEW n \in Nat, n <= c.len - c.off, n <= c.sock.space
  PROVE  Successor(c, Wrote(c, n))
<1> DEFINE d == Wrote(c, n)
           k == [c.sock EXCEPT !.space = @ - n]
<1>0. c \in Connection /\ c.sock \in Socket  BY DEF Successor, Connection
<1>1. c.sock.space \in 0 .. SendBuf  BY <1>0 DEF Socket
<1>2. c.sock.space - n \in 0 .. SendBuf  BY <1>1, SizeAssumption
<1>3. k \in Socket  BY <1>0, <1>2 DEF Socket
<1>4. c.off + n \in Nat /\ c.off + n <= c.len  BY <1>0 DEF Connection
<1>5. (c.idle /\ n = 0) \in BOOLEAN  OBVIOUS
<1>6. d = [c EXCEPT !.off = c.off + n, !.sock = k, !.idle = (c.idle /\ n = 0)]
  BY <1>0 DEF Wrote, Connection
<1>7. d \in Connection  BY <1>0, <1>3, <1>4, <1>5, <1>6 DEF Connection
<1>8. d.off = c.off + n /\ d.len = c.len  BY <1>0, <1>6 DEF Connection
<1>9. d.gen = c.gen /\ d.cid = c.cid /\ d.phase = c.phase  BY <1>0, <1>6 DEF Connection
<1> QED  BY <1>4, <1>7, <1>8, <1>9 DEF Successor

LEMMA BeginResolvingSucceeds ==
  ASSUME NEW c, Successor(c, c)
  PROVE  Successor(c, BeginResolving(c))
<1> DEFINE d == BeginResolving(c)
<1>0. c \in Connection  BY DEF Successor
<1>1. d \in Connection  BY <1>0 DEF BeginResolving, Connection, Phases
<1>2. d.off = c.off /\ d.len = c.len  BY <1>0 DEF BeginResolving, Connection
<1>3. d.gen = c.gen /\ d.cid = c.cid /\ d.phase = "Resolving"
  BY <1>0 DEF BeginResolving, Connection
<1> QED  BY <1>1, <1>2, <1>3 DEF Successor

LEMMA BeginProxySucceeds ==
  ASSUME NEW c, Successor(c, c), NEW u \in Nat
  PROVE  Successor(c, BeginProxy(c, u))
<1> DEFINE d == BeginProxy(c, u)
<1>0. c \in Connection  BY DEF Successor
<1>1. d \in Connection  BY <1>0, NewProxyTyped DEF BeginProxy, Connection, Phases
<1>2. d.off = c.off /\ d.len = c.len  BY <1>0 DEF BeginProxy, Connection
<1>3. d.gen = c.gen /\ d.cid = c.cid /\ d.phase = "Proxying"
  BY <1>0 DEF BeginProxy, Connection
<1> QED  BY <1>1, <1>2, <1>3 DEF Successor

LEMMA DetachedSucceeds ==
  ASSUME NEW c, Successor(c, c)
  PROVE  Successor(c, Detached(c))
<1> DEFINE d == [c EXCEPT !.phase = "WritingResponse", !.proxy = NoProxy, !.due = FALSE]
<1>0. c \in Connection  BY DEF Successor
<1>1. d \in Connection  BY <1>0, NoProxyTyped DEF Connection, Phases
<1>2. d.off = c.off /\ d.len = c.len  BY <1>0 DEF Connection
<1>3. d.gen = c.gen /\ d.cid = c.cid /\ d.phase = "WritingResponse"  BY <1>0 DEF Connection
<1>4. Successor(c, d)  BY <1>1, <1>2, <1>3 DEF Successor
<1> QED  BY <1>4 DEF Detached

\* Any change of the proxy and the two clocks of a connection.
LEMMA ProxySucceeds ==
  ASSUME NEW c, Successor(c, c), NEW p \in Proxy, NEW due \in BOOLEAN, NEW idle \in BOOLEAN,
         NEW d, d = [c EXCEPT !.proxy = p, !.due = due, !.idle = idle]
  PROVE  Successor(c, d)
<1>0. c \in Connection  BY DEF Successor
<1>1. d \in Connection  BY <1>0 DEF Connection
<1>2. d.off = c.off /\ d.len = c.len  BY <1>0 DEF Connection
<1>3. d.gen = c.gen /\ d.cid = c.cid /\ d.phase = c.phase  BY <1>0 DEF Connection
<1> QED  BY <1>1, <1>2, <1>3 DEF Successor

LEMMA UpstreamWroteSucceeds ==
  ASSUME NEW c, Successor(c, c), NEW n \in Nat,
         n <= UpReqLen - c.proxy.off, n <= c.proxy.sock.space
  PROVE  Successor(c, UpstreamWrote(c, n))
<1> DEFINE p == c.proxy
           k == [p.sock EXCEPT !.space = p.sock.space - n]
           q == [p EXCEPT !.phase = "WritingRequest", !.off = p.off + n, !.sock = k]
           due == (c.due /\ n = 0 /\ p.phase = "WritingRequest")
<1>0. c \in Connection /\ p \in Proxy /\ p.sock \in Socket
  BY DEF Successor, Connection, Proxy
<1>1. p.sock.space \in 0 .. SendBuf  BY <1>0 DEF Socket
<1>2. p.sock.space - n \in 0 .. SendBuf  BY <1>1, SizeAssumption
<1>3. k \in Socket  BY <1>0, <1>2 DEF Socket
<1>4. p.off + n \in 0 .. UpReqLen  BY <1>0, SizeAssumption DEF Proxy
<1>5. q \in Proxy  BY <1>0, <1>3, <1>4 DEF Proxy, ProxyPhases
<1>6. due \in BOOLEAN /\ c.idle \in BOOLEAN  BY <1>0 DEF Connection
<1>7. UpstreamWrote(c, n) = [c EXCEPT !.proxy = q, !.due = due, !.idle = c.idle]
  BY <1>0 DEF UpstreamWrote, Connection, Proxy
<1> QED  BY <1>5, <1>6, <1>7, ProxySucceeds

LEMMA ProgressSucceeds ==
  ASSUME NEW c, Successor(c, c), NEW n
  PROVE  Successor(c, Progress(c, n))
<1>0. c \in Connection /\ c.proxy \in Proxy /\ c.due \in BOOLEAN  BY DEF Successor, Connection
<1>1. (c.idle /\ n = 0) \in BOOLEAN  OBVIOUS
<1>2. Progress(c, n) = [c EXCEPT !.proxy = c.proxy, !.due = c.due, !.idle = (c.idle /\ n = 0)]
  BY <1>0 DEF Progress, Connection
<1> QED  BY <1>0, <1>1, <1>2, ProxySucceeds

LEMMA RequestSentSucceeds ==
  ASSUME NEW c, Successor(c, c)
  PROVE  Successor(c, RequestSent(c))
<1> DEFINE k == Register(c.proxy.sock, {"R"})
           q == [c.proxy EXCEPT !.phase = "ReadingResponse", !.sock = k]
<1>0. c \in Connection /\ c.proxy \in Proxy /\ c.proxy.sock \in Socket /\ c.idle \in BOOLEAN
  BY DEF Successor, Connection, Proxy
<1>1. k \in Socket  BY <1>0, RegisterTyped
<1>2. q \in Proxy  BY <1>0, <1>1 DEF Proxy, ProxyPhases
<1>3. RequestSent(c) = [c EXCEPT !.proxy = q, !.due = FALSE, !.idle = c.idle]
  BY <1>0 DEF RequestSent, Connection, Proxy
<1> QED  BY <1>0, <1>2, <1>3, ProxySucceeds

LEMMA UpstreamEndedSucceeds ==
  ASSUME NEW c, Successor(c, c)
  PROVE  Successor(c, UpstreamEnded(c))
<1> DEFINE q == [c.proxy EXCEPT !.eof = TRUE, !.sock = NoSocket]
<1>0. c \in Connection /\ c.proxy \in Proxy /\ c.due \in BOOLEAN /\ c.idle \in BOOLEAN
  BY DEF Successor, Connection
<1>1. q \in Proxy  BY <1>0, NoSocketTyped DEF Proxy
<1>2. UpstreamEnded(c) = [c EXCEPT !.proxy = q, !.due = c.due, !.idle = c.idle]
  BY <1>0 DEF UpstreamEnded, Connection, Proxy
<1> QED  BY <1>0, <1>1, <1>2, ProxySucceeds

LEMMA UpstreamReadSucceeds ==
  ASSUME NEW c, Successor(c, c), NEW n \in Nat, n <= c.proxy.sock.inq
  PROVE  Successor(c, UpstreamRead(c, n))
<1> DEFINE k == [c.proxy.sock EXCEPT !.inq = c.proxy.sock.inq - n]
           q == [c.proxy EXCEPT !.started = TRUE, !.sock = k]
<1>0. c \in Connection  BY DEF Successor
<1>1. c.proxy \in Proxy /\ c.proxy.sock \in Socket  BY <1>0 DEF Connection, Proxy
<1>2. c.proxy.sock.inq - n \in Nat  BY <1>1 DEF Socket
<1>3. k \in Socket  BY <1>1, <1>2 DEF Socket
<1>4. q \in Proxy  BY <1>1, <1>3 DEF Proxy
<1>5. UpstreamRead(c, n) = Refill(c, "upstream", c.pos, n, c.stream, q, FALSE, FALSE)
  BY <1>0, <1>1 DEF UpstreamRead, Connection, Proxy, Refill
<1>6. "upstream" \in Sources  BY DEF Sources
<1>7. c.pos \in Nat /\ c.stream \in Stream  BY <1>0, FieldsTyped
<1> HIDE DEF q
<1>8. Successor(c, Refill(c, "upstream", c.pos, n, c.stream, q, FALSE, FALSE))
  BY <1>4, <1>6, <1>7, RefillSucceeds, Zenon
<1> QED  BY <1>5, <1>8, Zenon

LEMMA DiscardedSucceeds ==
  ASSUME NEW c, Successor(c, c), NEW m \in Nat, m <= c.sock.inq
  PROVE  Successor(c, Discarded(c, m))
<1> DEFINE d == Discarded(c, m)
           k == [c.sock EXCEPT !.inq = c.sock.inq - m]
<1>0. c \in Connection /\ c.sock \in Socket  BY DEF Successor, Connection
<1>1. c.sock.inq - m \in Nat  BY <1>0 DEF Socket
<1>2. k \in Socket  BY <1>0, <1>1 DEF Socket
<1>3. (c.idle /\ m = 0) \in BOOLEAN  OBVIOUS
<1>4. d = [c EXCEPT !.sock = k, !.idle = (c.idle /\ m = 0)]  BY <1>0 DEF Discarded, Connection
<1>5. d \in Connection  BY <1>0, <1>2, <1>3, <1>4 DEF Connection
<1>6. d.off = c.off /\ d.len = c.len  BY <1>0, <1>4 DEF Connection
<1>7. d.gen = c.gen /\ d.cid = c.cid /\ d.phase = c.phase  BY <1>0, <1>4 DEF Connection
<1> QED  BY <1>5, <1>6, <1>7 DEF Successor

LEMMA AfterReadsSucceeds ==
  ASSUME NEW c, Successor(c, c), NEW m \in Nat, m <= c.sock.inq
  PROVE  Successor(c, AfterReads(c, m))
<1> DEFINE d == AfterReads(c, m)
           k == [c.sock EXCEPT !.inq = c.sock.inq - m]
           kept == IF c.read + m > MaxRead THEN m - 1 ELSE m
<1>0. c \in Connection /\ c.sock \in Socket  BY DEF Successor, Connection
<1>1. c.sock.inq - m \in Nat  BY <1>0 DEF Socket
<1>2. k \in Socket  BY <1>0, <1>1 DEF Socket
<1>3. (c.idle /\ kept = 0) \in BOOLEAN  OBVIOUS
<1>4. c.read + kept \in Nat  BY <1>0, SizeAssumption DEF Connection
<1>5. d = [c EXCEPT !.sock = k, !.read = c.read + kept, !.idle = (c.idle /\ kept = 0)]
  BY <1>0 DEF AfterReads, Connection
<1> HIDE DEF kept
<1>6. d \in Connection  BY <1>0, <1>2, <1>3, <1>4, <1>5 DEF Connection
<1>7. d.off = c.off /\ d.len = c.len  BY <1>0, <1>5 DEF Connection
<1>8. d.gen = c.gen /\ d.cid = c.cid /\ d.phase = c.phase  BY <1>0, <1>5 DEF Connection
<1> QED  BY <1>6, <1>7, <1>8 DEF Successor

-----------------------------------------------------------------------------
(* The handlers follow: lemmas on the steps they are made of, then each one. *)

LEMMA CurrentConn ==
  ASSUME NEW ws, NEW id \in Ids, Typed(ws), is_current(ws, id)
  PROVE  Successor(ConnOf(ws, id), ConnOf(ws, id))
BY DEF Typed, is_current, ConnOf, WorkerState, Ids, Successor

LEMMA PutCurrent ==
  ASSUME NEW ws, NEW id \in Ids, NEW c, Typed(ws), is_current(ws, id),
         Successor(ConnOf(ws, id), c)
  PROVE  /\ Follows(ws, Put(ws, id, c)) /\ Typed(Put(ws, id, c))
         /\ is_current(Put(ws, id, c), id) /\ ConnOf(Put(ws, id, c), id) = c
<1>1. TypedConn(c) /\ c.gen = ConnOf(ws, id).gen /\ c.cid = ConnOf(ws, id).cid
  BY DEF Successor, TypedConn
<1>2. ConnOf(ws, id).phase # "Vacant"  BY DEF is_current
<1>3. Follows(ws, Put(ws, id, c))  BY <1>1, <1>2, PutFollows
<1>4. ConnOf(Put(ws, id, c), id) = c  BY DEF Typed, Put, ConnOf, WorkerState, Ids
<1> QED  BY <1>1, <1>3, <1>4 DEF Follows, is_current, Successor

\* Changing neither connections nor lookups is harmless.
LEMMA SameSlots ==
  ASSUME NEW a, Typed(a), NEW b \in WorkerState, b.conns = a.conns, b.tasks = a.tasks
  PROVE  Follows(a, b)
BY DEF Follows, Typed, SameOccupants, TasksOfOccupants

LEMMA ScheduledFollows ==
  ASSUME NEW a, Typed(a), NEW P \in SUBSET Ids
  PROVE  /\ Follows(a, [a EXCEPT !.pending_writes = P])
         /\ Follows(a, [a EXCEPT !.pending_upstream_writes = P])
         /\ Follows(a, [a EXCEPT !.pending_upstream_reads = P])
         /\ Follows(a, [a EXCEPT !.failed = TRUE])
<1>1. a \in WorkerState  BY DEF Typed
<1>2. Follows(a, [a EXCEPT !.pending_writes = P])  BY <1>1, SameSlots DEF WorkerState
<1>3. Follows(a, [a EXCEPT !.pending_upstream_writes = P])  BY <1>1, SameSlots DEF WorkerState
<1>4. Follows(a, [a EXCEPT !.pending_upstream_reads = P])  BY <1>1, SameSlots DEF WorkerState
<1>5. Follows(a, [a EXCEPT !.failed = TRUE])
  <2> DEFINE b == [a EXCEPT !.failed = TRUE]
  <2>1. b \in WorkerState  BY <1>1 DEF WorkerState
  <2>2. b.conns = a.conns /\ b.tasks = a.tasks  BY <1>1 DEF WorkerState
  <2> HIDE DEF b
  <2>3. Follows(a, b)  BY <2>1, <2>2, SameSlots
  <2> QED  BY <2>3 DEF b
<1> QED  BY <1>2, <1>3, <1>4, <1>5

LEMMA PendingTyped ==
  ASSUME NEW a, Typed(a), NEW id \in Ids
  PROVE  /\ a.pending_writes \cup {id} \in SUBSET Ids
         /\ a.pending_upstream_writes \cup {id} \in SUBSET Ids
         /\ a.pending_upstream_reads \cup {id} \in SUBSET Ids
         /\ a.pending_upstream_writes \ {id} \in SUBSET Ids
         /\ a.pending_upstream_reads \ {id} \in SUBSET Ids
BY DEF Typed, WorkerState

LEMMA ReregisterFollows ==
  ASSUME NEW ws, NEW id \in Ids, NEW i \in SUBSET {"R", "W"}, NEW ok,
         Typed(ws), is_current(ws, id)
  PROVE  Follows(ws, reregister_client(ws, id, i, ok))
BY CurrentConn, ListenSucceeds, PutCurrent, RemoveFollows DEF reregister_client

LEMMA QueueBytesFollows ==
  ASSUME NEW ws, NEW id \in Ids, NEW src \in Sources, NEW ok, Typed(ws)
  PROVE  Follows(ws, QueueBytes(ws, id, src, ok))
<1>1. CASE is_current(ws, id)
  <2> DEFINE c == Queued(ConnOf(ws, id), src)
             ws2 == Put(ws, id, c)
  <2>1. ConnOf(ws, id) \in Connection  BY <1>1, CurrentConn DEF Successor
  <2>2. Successor(ConnOf(ws, id), c)  BY <2>1, QueuedSucceeds
  <2>3. Follows(ws, ws2) /\ Typed(ws2) /\ is_current(ws2, id)  BY <1>1, <2>2, PutCurrent
  <2>4. Follows(ws2, reregister_client(ws2, id, {"W"}, ok))  BY <2>3, ReregisterFollows
  <2> QED  BY <1>1, <2>3, <2>4, FollowsTransitive DEF QueueBytes
<1>2. CASE ~is_current(ws, id)  BY <1>2, FollowsReflexive DEF QueueBytes
<1> QED  BY <1>1, <1>2

LEMMA QueueResponseFollows ==
  ASSUME NEW ws, NEW id \in Ids, NEW ok, Typed(ws)
  PROVE  Follows(ws, queue_response(ws, id, ok))
BY QueueBytesFollows DEF queue_response, Sources

LEMMA QueueStaticFollows ==
  ASSUME NEW ws, NEW id \in Ids, NEW ok, Typed(ws)
  PROVE  Follows(ws, queue_static_response(ws, id, ok))
<1>1. CASE is_current(ws, id)
  <2> DEFINE ws2 == Put(ws, id, StartStream(ConnOf(ws, id)))
  <2>1. Follows(ws, ws2) /\ Typed(ws2)
    BY <1>1, CurrentConn, StartStreamSucceeds, PutCurrent
  <2>2. "static" \in Sources  BY DEF Sources
  <2>3. Follows(ws2, QueueBytes(ws2, id, "static", ok))  BY <2>1, <2>2, QueueBytesFollows
  <2> QED  BY <1>1, <2>1, <2>3, FollowsTransitive DEF queue_static_response
<1>2. CASE ~is_current(ws, id)  BY <1>2, FollowsReflexive DEF queue_static_response
<1> QED  BY <1>1, <1>2

LEMMA AdvanceFollows ==
  ASSUME NEW ws, NEW id \in Ids, NEW ok, Typed(ws)
  PROVE  Follows(ws, advance_static_stream(ws, id, ok))
<1> DEFINE c == ConnOf(ws, id)
<1>1. CASE ~is_current(ws, id)  BY <1>1, FollowsReflexive DEF advance_static_stream
<1>2. CASE is_current(ws, id)
  <2>1. Successor(c, c)  BY <1>2, CurrentConn
  <2>2. Follows(ws, remove_connection(ws, id))  BY RemoveFollows
  <2>3. Follows(ws, [ws EXCEPT !.failed = TRUE])  BY ScheduledFollows
  <2>4. Follows(ws, Put(ws, id, Listen(c, {"R"})))
    BY <1>2, <2>1, ListenSucceeds, PutCurrent
  <2>5. ASSUME c.stream.queued > 0
        PROVE  Follows(ws, Put(ws, id, Listen(NextChunk(c), {"W"})))
    <3>1. Successor(c, NextChunk(c))  BY <2>1, <2>5, NextChunkSucceeds
    <3>2. Successor(NextChunk(c), NextChunk(c))  BY <3>1 DEF Successor
    <3>3. Successor(NextChunk(c), Listen(NextChunk(c), {"W"}))  BY <3>2, ListenSucceeds
    <3>4. Successor(c, Listen(NextChunk(c), {"W"}))  BY <3>1, <3>3 DEF Successor
    <3> QED  BY <1>2, <3>4, PutCurrent
  <2> QED  BY <1>2, <2>2, <2>3, <2>4, <2>5 DEF advance_static_stream
<1> QED  BY <1>1, <1>2

LEMMA AwaitUpstreamFollows ==
  ASSUME NEW ws, NEW id \in Ids, NEW ok, Typed(ws), is_current(ws, id)
  PROVE  Follows(ws, AwaitUpstream(ws, id, ok))
<1> DEFINE ws2 == Put(ws, id, Cleared(ConnOf(ws, id)))
           next == reregister_client(ws2, id, {"R"}, ok)
<1>1. Follows(ws, ws2) /\ Typed(ws2) /\ is_current(ws2, id)
  BY CurrentConn, ClearedSucceeds, PutCurrent
<1>2. Follows(ws2, next)  BY <1>1, ReregisterFollows
<1>3. Follows(ws, next) /\ Typed(next)  BY <1>1, <1>2, FollowsTransitive DEF Follows
<1> HIDE DEF next
<1>4. Follows(next, [next EXCEPT !.pending_upstream_reads = next.pending_upstream_reads \cup {id}])
  BY <1>3, PendingTyped, ScheduledFollows
<1>5. Follows(ws, [next EXCEPT !.pending_upstream_reads = next.pending_upstream_reads \cup {id}])
  BY <1>3, <1>4, FollowsTransitive
<1> QED  BY <1>5 DEF AwaitUpstream, next

LEMMA WriteFinishedFollows ==
  ASSUME NEW ws, NEW id \in Ids, NEW ok, Typed(ws), is_current(ws, id)
  PROVE  Follows(ws, WriteFinished(ws, id, ok))
<1>1. Follows(ws, reregister_client(ws, id, {"R"}, ok))  BY ReregisterFollows
<1>2. Follows(ws, advance_static_stream(ws, id, ok))  BY AdvanceFollows
<1>3. Follows(ws, AwaitUpstream(ws, id, ok))  BY AwaitUpstreamFollows
<1>4. Follows(ws, close_client(ws, id))  BY RemoveFollows DEF close_client
<1> QED  BY <1>1, <1>2, <1>3, <1>4 DEF WriteFinished

\* The ghost byte stream of a client keeps its type.
LEMMA SentTyped ==
  ASSUME NEW line \in Line, NEW c \in Connection, NEW n \in Nat
  PROVE  Sent(line, c, n) \in Line
<1> DEFINE torn == (line.torn \/ c.pos + c.off # line.len \/ (line.len > 0 /\ line.src # c.src))
           src == IF line.len = 0 THEN c.src ELSE line.src
<1>1. torn \in BOOLEAN  OBVIOUS
<1>2. src \in Sources /\ line.len + n \in Nat  BY DEF Line, Connection
<1>3. n # 0 => Sent(line, c, n) = [line EXCEPT !.src = src, !.len = line.len + n, !.torn = torn]
  BY DEF Sent, Line
<1> HIDE DEF torn, src
<1>4. [line EXCEPT !.src = src, !.len = line.len + n, !.torn = torn] \in Line
  BY <1>1, <1>2 DEF Line
<1> QED  BY <1>3, <1>4 DEF Sent

LEMMA WireFollows ==
  ASSUME NEW a, Typed(a), NEW c \in Connection, NEW n \in Nat
  PROVE  Follows(a, [a EXCEPT !.wire[c.cid] = Sent(@, c, n)])
<1> DEFINE wire == [a.wire EXCEPT ![c.cid] = Sent(a.wire[c.cid], c, n)]
           b == [a EXCEPT !.wire = wire]
<1>1. a \in WorkerState /\ a.wire \in [1 .. MaxClients -> Line]  BY DEF Typed, WorkerState
<1>2. c.cid \in 1 .. MaxClients => Sent(a.wire[c.cid], c, n) \in Line  BY <1>1, SentTyped
<1>3. wire \in [1 .. MaxClients -> Line]  BY <1>1, <1>2
<1> HIDE DEF wire
<1>4. b \in WorkerState  BY <1>1, <1>3 DEF WorkerState
<1>5. b.conns = a.conns /\ b.tasks = a.tasks  BY <1>1 DEF WorkerState
<1>6. Follows(a, b)
  <2> HIDE DEF b
  <2> QED  BY <1>4, <1>5, SameSlots
<1> QED  BY <1>6 DEF wire

LEMMA WriteReadyFollows ==
  ASSUME NEW ws, NEW id \in Ids, NEW ok, Typed(ws)
  PROVE  Follows(ws, write_ready(ws, id, ok))
<1>1. CASE ~is_current(ws, id)  BY <1>1, FollowsReflexive DEF write_ready
<1>2. CASE is_current(ws, id)
  <2> DEFINE c == ConnOf(ws, id)
             n == Written(c.sock, c.len - c.off)
             a == Put(ws, id, Wrote(c, n))
             b == [a EXCEPT !.wire[c.cid] = Sent(@, c, n)]
  <2>1. Successor(c, c) /\ c \in Connection /\ c.sock \in Socket
    BY <1>2, CurrentConn DEF Successor, Connection
  <2>2. c.len - c.off \in Nat  BY <2>1 DEF Successor, Connection
  <2>3. n \in Nat /\ n <= c.len - c.off /\ n <= c.sock.space  BY <2>1, <2>2, WrittenBounds
  <2> HIDE DEF n
  <2>4. Follows(ws, a) /\ Typed(a) /\ is_current(a, id)
    BY <1>2, <2>1, <2>3, WroteSucceeds, PutCurrent
  <2> HIDE DEF a
  <2>5. Follows(a, b)  BY <2>1, <2>3, <2>4, WireFollows
  <2>6. Follows(ws, b) /\ Typed(b)  BY <2>4, <2>5, FollowsTransitive DEF Follows
  <2>7. is_current(b, id)
    <3>1. b.conns = a.conns  BY <2>4 DEF Typed, WorkerState
    <3> QED  BY <2>4, <3>1 DEF is_current, ConnOf
  <2> HIDE DEF b
  <2>8. Follows(b, WriteFinished(b, id, ok))  BY <2>6, <2>7, WriteFinishedFollows
  <2>9. Follows(b, [b EXCEPT !.pending_writes = b.pending_writes \cup {id}])
    BY <2>6, PendingTyped, ScheduledFollows
  <2>10. Follows(ws, WriteFinished(b, id, ok))
    BY <2>6, <2>8, FollowsTransitive
  <2>11. Follows(ws, [b EXCEPT !.pending_writes = b.pending_writes \cup {id}])
    BY <2>6, <2>9, FollowsTransitive
  <2>12. Follows(ws, WriteFinished(ws, id, ok))  BY <1>2, WriteFinishedFollows
  <2>13. Follows(ws, remove_connection(ws, id))  BY RemoveFollows
  <2> QED  BY <1>2, <2>6, <2>10, <2>11, <2>12, <2>13 DEF write_ready, n, a, b
<1> QED  BY <1>1, <1>2

\* A new lookup names the connection that asks for it.
LEMMA StartProxyFollows ==
  ASSUME NEW ws, NEW id \in Ids, Typed(ws), is_current(ws, id)
  PROVE  Follows(ws, start_proxy(ws, id))
<1> DEFINE a == Put(ws, id, BeginResolving(ConnOf(ws, id)))
           t == [id |-> id, cid |-> ConnOf(ws, id).cid]
           b == [a EXCEPT !.tasks = a.tasks \cup {t}]
<1>1. Follows(ws, a) /\ Typed(a)  BY CurrentConn, BeginResolvingSucceeds, PutCurrent
<1>2. t \in Task  BY CurrentConn DEF Successor, Connection, Task
<1>3. a \in WorkerState  BY <1>1 DEF Typed
<1>4. start_proxy(ws, id) = b  BY DEF start_proxy
<1>a. t.id = id /\ t.cid = ConnOf(ws, id).cid  OBVIOUS
<1> HIDE DEF a, t
<1>5. b \in WorkerState  BY <1>2, <1>3 DEF WorkerState
<1>6. b.conns = a.conns /\ b.tasks = a.tasks \cup {t}  BY <1>3 DEF WorkerState
<1> HIDE DEF b
<1>7. Typed(b) /\ SameOccupants(ws, b)  BY <1>1, <1>5, <1>6 DEF Follows, Typed, SameOccupants
<1>8. TasksOfOccupants(ws, b)
  BY <1>1, <1>6, <1>a DEF Follows, TasksOfOccupants, is_current, ConnOf
<1> QED  BY <1>4, <1>7, <1>8 DEF Follows

LEMMA FailResolutionFollows ==
  ASSUME NEW ws, NEW id \in Ids, NEW ok, Typed(ws)
  PROVE  Follows(ws, fail_resolution(ws, id, ok))
BY QueueResponseFollows, FollowsReflexive DEF fail_resolution

LEMMA FinishResolutionFollows ==
  ASSUME NEW ws, NEW r \in Result, NEW ok, Typed(ws)
  PROVE  Follows(ws, finish_resolution(ws, r, ok))
<1>1. r.id \in Ids /\ r.addresses \in Nat  BY DEF Result
<1>2. Follows(ws, fail_resolution(ws, r.id, ok))  BY <1>1, FailResolutionFollows
<1>3. Follows(ws, queue_response(ws, r.id, ok))  BY <1>1, QueueResponseFollows
<1>4. ASSUME is_current(ws, r.id), r.addresses # 0
      PROVE  Follows(ws, Put(ws, r.id, BeginProxy(ConnOf(ws, r.id), r.addresses - 1)))
  <2>1. r.addresses - 1 \in Nat  BY <1>1, <1>4
  <2> QED  BY <1>1, <1>4, <2>1, CurrentConn, BeginProxySucceeds, PutCurrent
<1> QED  BY <1>2, <1>3, <1>4, FollowsReflexive DEF finish_resolution

LEMMA FailProxyFollows ==
  ASSUME NEW ws, NEW id \in Ids, NEW ok, Typed(ws)
  PROVE  Follows(ws, fail_proxy(ws, id, ok))
<1>1. CASE ~is_current(ws, id)  BY <1>1, FollowsReflexive DEF fail_proxy
<1>2. CASE is_current(ws, id)
  <2> DEFINE a == Put(ws, id, Detached(ConnOf(ws, id)))
             b == [a EXCEPT !.pending_upstream_reads = a.pending_upstream_reads \ {id}]
             d == [b EXCEPT !.pending_upstream_writes = b.pending_upstream_writes \ {id}]
  <2>1. Follows(ws, a) /\ Typed(a)  BY <1>2, CurrentConn, DetachedSucceeds, PutCurrent
  <2>2. fail_proxy(ws, id, ok) = IF can_send_error(ConnOf(ws, id))
                                 THEN queue_response(d, id, ok) ELSE remove_connection(d, id)
    BY <1>2 DEF fail_proxy
  <2> HIDE DEF a
  <2>3. Follows(a, b) /\ Typed(b)  BY <2>1, PendingTyped, ScheduledFollows DEF Follows
  <2> HIDE DEF b
  <2>4. Follows(b, d) /\ Typed(d)  BY <2>3, PendingTyped, ScheduledFollows DEF Follows
  <2>5. Follows(ws, d)  BY <2>1, <2>3, <2>4, FollowsTransitive
  <2> HIDE DEF d
  <2>6. Follows(d, queue_response(d, id, ok)) /\ Follows(d, remove_connection(d, id))
    BY <2>4, QueueResponseFollows, RemoveFollows
  <2> QED  BY <2>2, <2>5, <2>6, FollowsTransitive
<1> QED  BY <1>1, <1>2

LEMMA WriteUpstreamFollows ==
  ASSUME NEW ws, NEW id \in Ids, NEW ok, Typed(ws)
  PROVE  Follows(ws, write_upstream_request(ws, id, ok))
<1>1. CASE ~is_current(ws, id)  BY <1>1, FollowsReflexive DEF write_upstream_request
<1>2. CASE is_current(ws, id)
  <2> DEFINE c == ConnOf(ws, id)
             n == Written(c.proxy.sock, UpReqLen - c.proxy.off)
             c2 == UpstreamWrote(c, n)
             c3 == Progress(c2, n)
             b == Put(ws, id, c3)
  <2>1. Successor(c, c)  BY <1>2, CurrentConn
  <2>2. c.proxy.sock \in Socket /\ c.proxy.off \in 0 .. UpReqLen
    BY <2>1 DEF Successor, Connection, Proxy
  <2>3. UpReqLen - c.proxy.off \in Nat  BY <2>2, SizeAssumption
  <2>4. n \in Nat /\ n <= UpReqLen - c.proxy.off /\ n <= c.proxy.sock.space
    BY <2>2, <2>3, WrittenBounds
  <2> HIDE DEF n
  <2>5. Successor(c, c2)  BY <2>1, <2>4, UpstreamWroteSucceeds
  <2> HIDE DEF c2
  <2>6. Successor(c2, c2)  BY <2>5 DEF Successor
  <2>7. Successor(c2, c3)  BY <2>6, ProgressSucceeds
  <2> HIDE DEF c3
  <2>8. Successor(c3, c3) /\ Successor(c, c3)  BY <2>5, <2>7 DEF Successor
  <2>9. Successor(c3, RequestSent(c3))  BY <2>8, RequestSentSucceeds
  <2>10. Successor(c, RequestSent(c3))  BY <2>8, <2>9 DEF Successor
  <2>11. Follows(ws, Put(ws, id, RequestSent(c3)))  BY <1>2, <2>10, PutCurrent
  <2>12. Follows(ws, Put(ws, id, c2))  BY <1>2, <2>5, PutCurrent
  <2>13. Follows(ws, b) /\ Typed(b)  BY <1>2, <2>8, PutCurrent
  <2> HIDE DEF b
  <2>14. Follows(b, fail_proxy(b, id, ok))  BY <2>13, FailProxyFollows
  <2>15. Follows(b, [b EXCEPT !.pending_upstream_writes = b.pending_upstream_writes \cup {id}])
    BY <2>13, PendingTyped, ScheduledFollows
  <2>16. Follows(ws, fail_proxy(b, id, ok))  BY <2>13, <2>14, FollowsTransitive
  <2>17. Follows(ws, [b EXCEPT !.pending_upstream_writes = b.pending_upstream_writes \cup {id}])
    BY <2>13, <2>15, FollowsTransitive
  <2>18. Follows(ws, fail_proxy(ws, id, ok)) /\ Follows(ws, ws)
    BY FailProxyFollows, FollowsReflexive
  <2> QED
    BY <2>11, <2>12, <2>16, <2>17, <2>18 DEF write_upstream_request, n, c2, c3, b
<1> QED  BY <1>1, <1>2

LEMMA MarkEofFollows ==
  ASSUME NEW ws, NEW id \in Ids, Typed(ws), is_current(ws, id)
  PROVE  Follows(ws, mark_upstream_eof(ws, id))
BY CurrentConn, UpstreamEndedSucceeds, PutCurrent, RemoveFollows DEF mark_upstream_eof

LEMMA ReadUpstreamFollows ==
  ASSUME NEW ws, NEW id \in Ids, NEW ok, Typed(ws)
  PROVE  Follows(ws, read_upstream_response(ws, id, ok))
<1>1. CASE ~is_current(ws, id)  BY <1>1, FollowsReflexive DEF read_upstream_response
<1>2. CASE is_current(ws, id)
  <2> DEFINE c == ConnOf(ws, id)
             k == c.proxy.sock
             limit == IF UpReadMax < MaxWrite THEN UpReadMax ELSE MaxWrite
             n == IF k.inq < limit THEN k.inq ELSE limit
             b == Put(ws, id, UpstreamRead(c, n))
  <2>1. Successor(c, c)  BY <1>2, CurrentConn
  <2>2. k.inq \in Nat  BY <2>1 DEF Successor, Connection, Proxy, Socket
  <2>3. n \in Nat /\ n <= k.inq  BY <2>2, SizeAssumption
  <2> HIDE DEF n
  <2>4. Successor(c, UpstreamRead(c, n))  BY <2>1, <2>3, UpstreamReadSucceeds
  <2>5. Follows(ws, b) /\ Typed(b) /\ is_current(b, id)  BY <1>2, <2>4, PutCurrent
  <2> HIDE DEF b
  <2>6. Follows(b, reregister_client(b, id, {"W"}, ok))  BY <2>5, ReregisterFollows
  <2>7. Follows(ws, reregister_client(b, id, {"W"}, ok))  BY <2>5, <2>6, FollowsTransitive
  <2>8. Follows(ws, fail_proxy(ws, id, ok))  BY FailProxyFollows
  <2>9. Follows(ws, mark_upstream_eof(ws, id))  BY <1>2, MarkEofFollows
  <2> QED  BY <2>7, <2>8, <2>9, FollowsReflexive DEF read_upstream_response, n, b
<1> QED  BY <1>1, <1>2

LEMMA MostReadsBounds ==
  ASSUME NEW c \in Connection
  PROVE  MostReads(c) \in Nat /\ MostReads(c) <= c.sock.inq
<1>1. c.sock.inq \in Nat  BY DEF Connection, Socket
<1> QED  BY <1>1, SizeAssumption DEF MostReads

LEMMA ReadsMadeBounds ==
  ASSUME NEW c \in Connection
  PROVE  ReadsMade(c) \in Nat /\ ReadsMade(c) <= c.sock.inq
<1> DEFINE Stops == {k \in 1 .. MostReads(c) : Verdict(c, c.read + k) # "more"}
<1>1. MostReads(c) \in Nat /\ MostReads(c) <= c.sock.inq /\ c.sock.inq \in Nat
  BY MostReadsBounds DEF Connection, Socket
<1>2. Stops \in SUBSET Nat /\ \A k \in Stops : k <= MostReads(c)  BY <1>1
<1>3. ReadsMade(c) = IF Stops = {} THEN MostReads(c)
                                   ELSE CHOOSE j \in Stops : \A i \in Stops : j <= i
  BY DEF ReadsMade
<1> HIDE DEF Stops
<1>4. CASE Stops = {}  BY <1>1, <1>3, <1>4
<1>5. CASE Stops # {}
  <2>1. \E j \in Stops : \A i \in Stops : j <= i  BY <1>2, <1>5, Least
  <2>2. ReadsMade(c) \in Stops  BY <1>3, <1>5, <2>1
  <2>3. ReadsMade(c) \in Nat /\ ReadsMade(c) <= MostReads(c)  BY <1>2, <2>2
  <2> QED  BY <1>1, <2>3
<1> QED  BY <1>4, <1>5

LEMMA DuringProxyFollows ==
  ASSUME NEW ws, NEW id \in Ids, Typed(ws), is_current(ws, id)
  PROVE  Follows(ws, client_during_proxy_ready(ws, id))
<1> DEFINE c == ConnOf(ws, id)
           m == MostReads(c)
<1>1. Successor(c, c) /\ c \in Connection  BY CurrentConn DEF Successor
<1>2. m \in Nat /\ m <= c.sock.inq  BY <1>1, MostReadsBounds
<1>3. Follows(ws, Put(ws, id, Discarded(c, m)))
  BY <1>1, <1>2, DiscardedSucceeds, PutCurrent
<1> QED  BY <1>3, RemoveFollows DEF client_during_proxy_ready

LEMMA ConnectionReadyFollows ==
  ASSUME NEW ws, NEW id \in Ids, NEW ok, Typed(ws)
  PROVE  Follows(ws, connection_ready(ws, id, ok))
<1>1. CASE ~is_current(ws, id)  BY <1>1, FollowsReflexive DEF connection_ready
<1>2. CASE is_current(ws, id)
  <2> DEFINE c == ConnOf(ws, id)
             k == ReadsMade(c)
             b == Put(ws, id, AfterReads(c, k))
  <2>1. Successor(c, c) /\ c \in Connection  BY <1>2, CurrentConn DEF Successor
  <2>2. k \in Nat /\ k <= c.sock.inq  BY <2>1, ReadsMadeBounds
  <2>3. Follows(ws, b) /\ Typed(b) /\ is_current(b, id)
    BY <1>2, <2>1, <2>2, AfterReadsSucceeds, PutCurrent
  <2> HIDE DEF b
  <2>4. Follows(ws, client_during_proxy_ready(ws, id))  BY <1>2, DuringProxyFollows
  <2>5. Follows(ws, queue_response(b, id, ok))
    BY <2>3, QueueResponseFollows, FollowsTransitive
  <2>6. Follows(ws, queue_static_response(b, id, ok))
    BY <2>3, QueueStaticFollows, FollowsTransitive
  <2>7. Follows(ws, start_proxy(b, id))  BY <2>3, StartProxyFollows, FollowsTransitive
  <2>8. Follows(ws, remove_connection(b, id))  BY <2>3, RemoveFollows, FollowsTransitive
  <2> QED
    BY <1>2, <2>3, <2>4, <2>5, <2>6, <2>7, <2>8 DEF connection_ready, b
<1> QED  BY <1>1, <1>2

LEMMA DispatchClientFollows ==
  ASSUME NEW ws, NEW ev, ev.id \in Ids, NEW ok, Typed(ws)
  PROVE  Follows(ws, dispatch_client(ws, ev, ok))
<1> DEFINE id == ev.id
           written == IF ev.w THEN write_ready(ws, id, ok) ELSE ws
           both == IF ev.r /\ ~ws.draining THEN connection_ready(written, id, ok) ELSE written
<1>1. Follows(ws, written) /\ Typed(written)
  BY WriteReadyFollows, FollowsReflexive DEF Follows
<1>2. dispatch_client(ws, ev, ok) =
        IF ev.err THEN remove_connection(ws, id)
        ELSE IF ev.closed /\ is_current(both, id) /\ Drained(ConnOf(both, id))
        THEN remove_connection(both, id) ELSE both
  BY DEF dispatch_client
<1> HIDE DEF written
<1>3. Follows(written, both) /\ Typed(both)
  BY <1>1, ConnectionReadyFollows, FollowsReflexive DEF Follows
<1> HIDE DEF both
<1>4. Follows(ws, both)  BY <1>1, <1>3, FollowsTransitive
<1>5. Follows(ws, remove_connection(both, id))  BY <1>3, <1>4, RemoveFollows, FollowsTransitive
<1> QED  BY <1>2, <1>4, <1>5, RemoveFollows

LEMMA DispatchUpstreamFollows ==
  ASSUME NEW ws, NEW ev, ev.id \in Ids, NEW ok, Typed(ws)
  PROVE  Follows(ws, dispatch_upstream(ws, ev, ok))
<1> DEFINE id == ev.id
           written == IF ev.w THEN write_upstream_request(ws, id, ok) ELSE ws
           both == IF ev.r THEN read_upstream_response(written, id, ok) ELSE written
           later == [both EXCEPT !.pending_upstream_reads = both.pending_upstream_reads \cup {id}]
<1>1. Follows(ws, written) /\ Typed(written)
  BY WriteUpstreamFollows, FollowsReflexive DEF Follows
<1>2. dispatch_upstream(ws, ev, ok) =
        IF ConnOf(ws, id).phase # "Proxying" THEN ws
        ELSE IF ev.err THEN fail_proxy(ws, id, ok)
        ELSE IF ev.closed /\ is_current(both, id) THEN later ELSE both
  BY DEF dispatch_upstream
<1> HIDE DEF written
<1>3. Follows(written, both) /\ Typed(both)
  BY <1>1, ReadUpstreamFollows, FollowsReflexive DEF Follows
<1> HIDE DEF both
<1>4. Follows(ws, both)  BY <1>1, <1>3, FollowsTransitive
<1>5. Follows(both, later)  BY <1>3, PendingTyped, ScheduledFollows
<1>6. Follows(ws, later)  BY <1>4, <1>5, FollowsTransitive
<1>7. Follows(ws, fail_proxy(ws, id, ok)) /\ Follows(ws, ws)
  BY FailProxyFollows, FollowsReflexive
<1> HIDE DEF later
<1> QED  BY <1>2, <1>4, <1>6, <1>7

LEMMA DispatchFollows ==
  ASSUME NEW ws, NEW ev \in SocketEvent, NEW ok, Typed(ws)
  PROVE  Follows(ws, dispatch(ws, ev, ok))
<1>1. ev.id \in Ids  BY DEF SocketEvent
<1> QED
  BY <1>1, DispatchClientFollows, DispatchUpstreamFollows, FollowsReflexive DEF dispatch

-----------------------------------------------------------------------------
(* The steps of the loop that touch every connection at once.                *)

LEMMA RemoveAllFollows ==
  ASSUME NEW ws, NEW S, Typed(ws)
  PROVE  Follows(ws, RemoveAll(ws, S))
<1> DEFINE b == RemoveAll(ws, S)
<1>0. ws \in WorkerState  BY DEF Typed
<1>1. Vacant \in Connection /\ Vacant.off <= Vacant.len /\ Vacant.phase = "Vacant"
  BY VacantTyped DEF TypedConn, Vacant
<1>2. b \in WorkerState  BY <1>0, <1>1 DEF RemoveAll, WorkerState
<1>3. b.conns = [s \in Slots |-> IF s \in S THEN Vacant ELSE ws.conns[s]] /\ b.tasks = ws.tasks
  BY <1>0 DEF RemoveAll, WorkerState
<1> HIDE DEF b
<1>4. Typed(b)  BY <1>1, <1>2, <1>3 DEF Typed
<1>5. SameOccupants(ws, b) /\ TasksOfOccupants(ws, b)
  BY <1>1, <1>3 DEF SameOccupants, TasksOfOccupants
<1> QED  BY <1>4, <1>5 DEF Follows, b

LEMMA BeginShutdownFollows ==
  ASSUME NEW ws, Typed(ws)
  PROVE  Follows(ws, begin_shutdown(ws))
<1> DEFINE S == {s \in Occupied(ws) : ~ws.conns[s].stream.on /\ ws.conns[s].off >= ws.conns[s].len}
           a == RemoveAll(ws, S)
           b == [a EXCEPT !.draining = TRUE]
<1>1. Follows(ws, a) /\ Typed(a)  BY RemoveAllFollows DEF Follows
<1>2. begin_shutdown(ws) = b  BY DEF begin_shutdown
<1> HIDE DEF a
<1>3. a \in WorkerState  BY <1>1 DEF Typed
<1>4. b \in WorkerState  BY <1>3 DEF WorkerState
<1>5. b.conns = a.conns /\ b.tasks = a.tasks  BY <1>3 DEF WorkerState
<1> HIDE DEF b
<1>6. Follows(a, b)  BY <1>1, <1>4, <1>5, SameSlots
<1> QED  BY <1>1, <1>2, <1>6, FollowsTransitive

LEMMA ReportedFollows ==
  ASSUME NEW ws, NEW E, Typed(ws)
  PROVE  Follows(ws, Reported(ws, E))
<1> DEFINE b == Reported(ws, E)
           Disarm(k, s, role) ==
             IF \E ev \in E : ev.role = role /\ ev.id.slot = s THEN [k EXCEPT !.armed = FALSE] ELSE k
           F(s) == [ws.conns[s] EXCEPT
                      !.sock = Disarm(ws.conns[s].sock, s, "client"),
                      !.proxy = [ws.conns[s].proxy EXCEPT
                                   !.sock = Disarm(ws.conns[s].proxy.sock, s, "upstream")]]
<1>0. ws \in WorkerState  BY DEF Typed
<1>1. ASSUME NEW s \in Slots
      PROVE  /\ F(s) \in Connection
             /\ F(s).off = ws.conns[s].off /\ F(s).len = ws.conns[s].len
             /\ F(s).gen = ws.conns[s].gen /\ F(s).cid = ws.conns[s].cid
             /\ F(s).phase = ws.conns[s].phase
  <2> DEFINE c == ws.conns[s]
             k == Disarm(c.sock, s, "client")
             j == Disarm(c.proxy.sock, s, "upstream")
             q == [c.proxy EXCEPT !.sock = j]
  <2>1. c \in Connection  BY <1>0 DEF WorkerState
  <2>2. c.sock \in Socket /\ c.proxy \in Proxy /\ c.proxy.sock \in Socket
    BY <2>1 DEF Connection, Proxy
  <2>3. k \in Socket /\ j \in Socket  BY <2>2 DEF Socket
  <2> HIDE DEF k, j
  <2>4. q \in Proxy  BY <2>2, <2>3 DEF Proxy
  <2>5. F(s) = [c EXCEPT !.sock = k, !.proxy = q]  BY DEF k, j
  <2> HIDE DEF q, c, F
  <2>6. F(s) \in Connection  BY <2>1, <2>3, <2>4, <2>5 DEF Connection
  <2>7. /\ F(s).off = c.off /\ F(s).len = c.len /\ F(s).gen = c.gen /\ F(s).cid = c.cid
        /\ F(s).phase = c.phase
    BY <2>1, <2>5 DEF Connection
  <2> QED  BY <2>6, <2>7 DEF c
<1>2. b = [ws EXCEPT !.conns = [s \in Slots |-> F(s)]]  BY <1>0 DEF Reported, WorkerState
<1> HIDE DEF F, b
<1>3. b \in WorkerState  BY <1>0, <1>1, <1>2 DEF WorkerState
<1>4. b.conns = [s \in Slots |-> F(s)] /\ b.tasks = ws.tasks  BY <1>0, <1>2 DEF WorkerState
<1>5. Typed(b)  BY <1>1, <1>3, <1>4 DEF Typed
<1>6. SameOccupants(ws, b) /\ TasksOfOccupants(ws, b)
  BY <1>1, <1>4 DEF SameOccupants, TasksOfOccupants
<1> QED  BY <1>5, <1>6 DEF Follows, b

\* The events the poll returns are typed and name the connections they are of.
LEMMA SocketEventsTyped ==
  ASSUME NEW ws, Typed(ws), NEW ev \in SocketEvents(ws)
  PROVE  /\ ev \in SocketEvent /\ ev.id.slot \in Slots
         /\ ws.conns[ev.id.slot].phase # "Vacant"
         /\ ev.id.gen = ws.conns[ev.id.slot].gen /\ ev.cid = ws.conns[ev.id.slot].cid
<1>1. PICK s \in Slots, role \in {"client", "upstream"}, k \in Socket :
        ev = Event(ws, s, role, k) /\ ws.conns[s].phase # "Vacant"
  <2>1. \A s \in Slots : ws.conns[s].sock \in Socket /\ ws.conns[s].proxy.sock \in Socket
    BY DEF Typed, WorkerState, Connection, Proxy
  <2> QED  BY <2>1 DEF SocketEvents, Occupied
<1>2. ws.conns[s].gen \in 1 .. GenMax /\ ws.conns[s].cid \in Nat
  BY DEF Typed, WorkerState, Connection
<1>3. IdOf(ws, s) \in Ids /\ IdOf(ws, s).slot = s /\ IdOf(ws, s).gen = ws.conns[s].gen
  BY <1>2 DEF IdOf, Ids
<1>4. Readable(k) \in BOOLEAN /\ Writable(k) \in BOOLEAN /\ k.err \in BOOLEAN
  BY DEF Readable, Writable, Socket
<1>5. (k.err \/ ("R" \in k.interest /\ k.fin)) \in BOOLEAN  OBVIOUS
<1>6. ev \in SocketEvent  BY <1>1, <1>2, <1>3, <1>4, <1>5 DEF Event, SocketEvent
<1>7. ev.id = IdOf(ws, s) /\ ev.cid = ws.conns[s].cid  BY <1>1 DEF Event
<1> QED  BY <1>1, <1>3, <1>6, <1>7

=============================================================================
