--------------------------- MODULE ReadinessProofs ---------------------------
(***************************************************************************)
(* Type correctness of the readiness worker, and the safety of its ids, for *)
(* every value of the constants.                                            *)
(***************************************************************************)
EXTENDS ReadinessSteps

-----------------------------------------------------------------------------
(* The environment.                                                          *)

\* A change of the sockets, the stream, the clocks and what the client has sent.
World(c, sent, k, st, p, idle, due) ==
  [c EXCEPT !.sent = sent, !.sock = k, !.stream = st, !.proxy = p, !.idle = idle, !.due = due]

LEMMA WorldSucceeds ==
  ASSUME NEW c, Successor(c, c), NEW sent \in Nat, NEW k \in Socket, NEW st \in Stream,
         NEW p \in Proxy, NEW idle \in BOOLEAN, NEW due \in BOOLEAN
  PROVE  Successor(c, World(c, sent, k, st, p, idle, due))
<1> DEFINE d == World(c, sent, k, st, p, idle, due)
<1>0. c \in Connection  BY DEF Successor
<1>1. d \in Connection  BY <1>0 DEF Connection, World
<1>2. d.off = c.off /\ d.len = c.len  BY <1>0 DEF Connection, World
<1>3. d.gen = c.gen /\ d.cid = c.cid /\ d.phase = c.phase  BY <1>0 DEF Connection, World
<1> QED  BY <1>1, <1>2, <1>3 DEF Successor

LEMMA OccupantTyped ==
  ASSUME IInv, NEW s \in Occupied(w)
  PROVE  /\ Successor(w.conns[s], w.conns[s]) /\ w.conns[s] \in Connection
         /\ w.conns[s].sent \in Nat /\ w.conns[s].sock \in Socket
         /\ w.conns[s].stream \in Stream /\ w.conns[s].proxy \in Proxy
         /\ w.conns[s].proxy.sock \in Socket
         /\ w.conns[s].idle \in BOOLEAN /\ w.conns[s].due \in BOOLEAN
<1>1. Typed(w)  BY LoopTypes
<1>2. Successor(w.conns[s], w.conns[s]) /\ w.conns[s] \in Connection
  BY <1>1 DEF Typed, Occupied, WorkerState, Successor
<1> QED  BY <1>2 DEF Connection, Proxy

LEMMA OutsideKeeps ==
  ASSUME IInv, NEW s \in Slots, NEW d, Outside(s, d),
         s \in Occupied(w) => Successor(w.conns[s], d)
  PROVE  IInv'
<1>1. LoopTyped /\ CountTyped /\ Typed(w)  BY LoopTypes
<1>2. /\ s \in Occupied(w) /\ w' = [w EXCEPT !.conns[s] = d]
      /\ gens' = gens /\ pc' = pc /\ work' = work /\ ready' = ready /\ listener' = listener
      /\ dns' = dns /\ accepted' = accepted /\ stop' = stop
  BY DEF Outside
<1>3. IdOf(w, s) \in Ids /\ IdOf(w, s).slot = s /\ is_current(w, IdOf(w, s))
  BY <1>1, <1>2, IdOfTyped DEF IdOf, is_current, ConnOf, Occupied
<1>4. Successor(ConnOf(w, IdOf(w, s)), d) /\ w' = Put(w, IdOf(w, s), d)
  BY <1>2, <1>3 DEF ConnOf, Put
<1>5. Follows(w, w')  BY <1>1, <1>3, <1>4, PutCurrent
<1>6. LoopTyped' /\ AnswersKept'  BY <1>1, <1>2 DEF LoopTyped, AnswersKept, IInv
<1>7. listener \in [waiting : Nat, came : Nat, armed : BOOLEAN]  BY <1>1 DEF CountTyped
<1> QED  BY <1>1, <1>2, <1>5, <1>6, <1>7, FollowsHolders, HarmlessKeeps DEF Harmless

LEMMA ArrivesTyped ==
  ASSUME NEW k \in Socket, NEW side PROVE Arrives(k, side) \in Socket
<1>1. (k.armed \/ side \in k.interest) \in BOOLEAN  OBVIOUS
<1> QED  BY <1>1 DEF Arrives, Socket

\* The changes the kernel makes to a socket.
LEMMA SocketChanges ==
  ASSUME NEW k \in Socket
  PROVE  /\ [k EXCEPT !.fin = TRUE] \in Socket
         /\ [k EXCEPT !.inq = 0, !.err = TRUE, !.armed = TRUE] \in Socket
         /\ [k EXCEPT !.space = SendBuf] \in Socket
<1>1. SendBuf \in 0 .. SendBuf  BY SizeAssumption
<1>2. [k EXCEPT !.fin = TRUE] \in Socket  BY DEF Socket
<1>3. [k EXCEPT !.inq = 0, !.err = TRUE, !.armed = TRUE] \in Socket  BY DEF Socket
<1>4. [k EXCEPT !.space = SendBuf] \in Socket  BY <1>1 DEF Socket
<1> QED  BY <1>2, <1>3, <1>4

LEMMA ReceivedTyped == ASSUME NEW k \in Socket PROVE Received(k) \in Socket
<1>1. k.inq + 1 \in Nat  BY DEF Socket
<1>2. [k EXCEPT !.inq = k.inq + 1] \in Socket  BY <1>1 DEF Socket
<1> QED  BY <1>2, ArrivesTyped DEF Received

LEMMA FreedTyped == ASSUME NEW k \in Socket, k.space < SendBuf PROVE Freed(k) \in Socket
<1>1. k.space + 1 \in 0 .. SendBuf  BY SizeAssumption DEF Socket
<1>2. [k EXCEPT !.space = k.space + 1] \in Socket  BY <1>1 DEF Socket
<1> QED  BY <1>2, ArrivesTyped DEF Freed

\* A step on the client's socket.
LEMMA ClientSocketKeeps ==
  ASSUME IInv, NEW s \in Slots, NEW k, NEW sent,
         s \in Occupied(w) => k \in Socket /\ sent \in Nat,
         Outside(s, [w.conns[s] EXCEPT !.sent = sent, !.sock = k])
  PROVE  IInv'
<1> DEFINE c == w.conns[s]
           d == [c EXCEPT !.sent = sent, !.sock = k]
<1>1. s \in Occupied(w)  BY DEF Outside
<1>2. d = World(c, sent, k, c.stream, c.proxy, c.idle, c.due)
  BY <1>1, OccupantTyped DEF World, Connection
<1>3. Successor(c, d)  BY <1>1, <1>2, OccupantTyped, WorldSucceeds
<1> HIDE DEF d
<1>4. Outside(s, d)  BY DEF d
<1> QED  BY <1>3, <1>4, OutsideKeeps

LEMMA ClientsKeep == ASSUME IInv, Clients PROVE IInv'
<1>1. PICK s \in Slots :
        ClientSends(s) \/ ClientHalfCloses(s) \/ ClientResets(s) \/ ClientReads(s)
  BY DEF Clients
<1> DEFINE c == w.conns[s]
<1>2. s \in Occupied(w)
  BY <1>1 DEF ClientSends, ClientHalfCloses, ClientResets, ClientReads, Outside
<1>3. c \in Connection /\ c.sent \in Nat /\ c.sent + 1 \in Nat /\ c.sock \in Socket
  BY <1>2, OccupantTyped
<1>4. CASE ClientSends(s)
  <2>1. Received(c.sock) \in Socket  BY <1>3, ReceivedTyped
  <2>2. Outside(s, [c EXCEPT !.sent = c.sent + 1, !.sock = Received(c.sock)])
    BY <1>4 DEF ClientSends
  <2> QED  BY <1>3, <2>1, <2>2, ClientSocketKeeps
<1>5. CASE ClientHalfCloses(s)
  <2> DEFINE k == Arrives([c.sock EXCEPT !.fin = TRUE], "R")
  <2>1. k \in Socket  BY <1>3, SocketChanges, ArrivesTyped
  <2>2. Outside(s, [c EXCEPT !.sent = c.sent, !.sock = k])
    BY <1>3, <1>5 DEF ClientHalfCloses, Connection
  <2> HIDE DEF k
  <2> QED  BY <1>3, <2>1, <2>2, ClientSocketKeeps
<1>6. CASE ClientResets(s)
  <2> DEFINE k == [c.sock EXCEPT !.inq = 0, !.err = TRUE, !.armed = TRUE]
  <2>1. k \in Socket  BY <1>3, SocketChanges
  <2>2. Outside(s, [c EXCEPT !.sent = c.sent, !.sock = k])
    BY <1>3, <1>6 DEF ClientResets, Connection
  <2> HIDE DEF k
  <2> QED  BY <1>3, <2>1, <2>2, ClientSocketKeeps
<1>7. CASE ClientReads(s)
  <2>1. Freed(c.sock) \in Socket  BY <1>3, <1>7, FreedTyped DEF ClientReads
  <2>2. Outside(s, [c EXCEPT !.sent = c.sent, !.sock = Freed(c.sock)])
    BY <1>3, <1>7 DEF ClientReads, Connection
  <2> QED  BY <1>3, <2>1, <2>2, ClientSocketKeeps
<1> QED  BY <1>1, <1>4, <1>5, <1>6, <1>7

\* A step on the upstream's side.
LEMMA UpstreamSideKeeps ==
  ASSUME IInv, NEW s \in Slots, NEW p, s \in Occupied(w) => p \in Proxy,
         Outside(s, [w.conns[s] EXCEPT !.proxy = p])
  PROVE  IInv'
<1> DEFINE c == w.conns[s]
           d == [c EXCEPT !.proxy = p]
<1>1. s \in Occupied(w)  BY DEF Outside
<1>2. d = World(c, c.sent, c.sock, c.stream, p, c.idle, c.due)
  BY <1>1, OccupantTyped DEF World, Connection
<1>3. Successor(c, d)  BY <1>1, <1>2, OccupantTyped, WorldSucceeds
<1> HIDE DEF d
<1>4. Outside(s, d)  BY DEF d
<1> QED  BY <1>3, <1>4, OutsideKeeps

LEMMA ProxyChanges ==
  ASSUME NEW p \in Proxy, NEW k \in Socket, NEW todo \in Nat
  PROVE  /\ [p EXCEPT !.sock = k] \in Proxy
         /\ [p EXCEPT !.up = TRUE, !.sock = k] \in Proxy
         /\ [p EXCEPT !.todo = todo, !.sock = k] \in Proxy
<1>1. [p EXCEPT !.sock = k] \in Proxy  BY DEF Proxy
<1>2. [p EXCEPT !.up = TRUE, !.sock = k] \in Proxy  BY DEF Proxy
<1>3. [p EXCEPT !.todo = todo, !.sock = k] \in Proxy  BY DEF Proxy
<1> QED  BY <1>1, <1>2, <1>3

\* Two updates inside the proxy are one update of the proxy.
LEMMA ProxyUpdates ==
  ASSUME NEW c \in Connection, NEW k, NEW v
  PROVE  /\ [c EXCEPT !.proxy.sock = k] = [c EXCEPT !.proxy = [c.proxy EXCEPT !.sock = k]]
         /\ [c EXCEPT !.proxy.up = v, !.proxy.sock = k]
              = [c EXCEPT !.proxy = [c.proxy EXCEPT !.up = v, !.sock = k]]
         /\ [c EXCEPT !.proxy.todo = v, !.proxy.sock = k]
              = [c EXCEPT !.proxy = [c.proxy EXCEPT !.todo = v, !.sock = k]]
<1>1. c.proxy \in Proxy  BY DEF Connection
<1>2. [c EXCEPT !.proxy.sock = k] = [c EXCEPT !.proxy = [c.proxy EXCEPT !.sock = k]]
  OBVIOUS
<1>3. [c EXCEPT !.proxy.up = v, !.proxy.sock = k]
        = [c EXCEPT !.proxy = [c.proxy EXCEPT !.up = v, !.sock = k]]
  BY <1>1 DEF Connection, Proxy
<1>4. [c EXCEPT !.proxy.todo = v, !.proxy.sock = k]
        = [c EXCEPT !.proxy = [c.proxy EXCEPT !.todo = v, !.sock = k]]
  BY <1>1 DEF Connection, Proxy
<1> QED  BY <1>2, <1>3, <1>4

LEMMA UpstreamsKeep == ASSUME IInv, Upstreams PROVE IInv'
<1>1. PICK s \in Slots : \/ UpstreamConnects(s) \/ UpstreamFails(s) \/ UpstreamReads(s)
                         \/ UpstreamSends(s) \/ UpstreamCloses(s)
  BY DEF Upstreams
<1> DEFINE c == w.conns[s]
           j == c.proxy.sock
<1>2. s \in Occupied(w)
  BY <1>1 DEF UpstreamConnects, UpstreamFails, UpstreamReads, UpstreamSends, UpstreamCloses,
              Upstream, Outside
<1>3. c \in Connection /\ c.proxy \in Proxy /\ j \in Socket /\ c.proxy.todo \in Nat
  BY <1>2, OccupantTyped DEF Proxy
<1>4. CASE UpstreamConnects(s)
  <2>0. PICK k : k = Arrives([j EXCEPT !.space = SendBuf], "W")  OBVIOUS
  <2>1. k \in Socket  BY <1>3, <2>0, SocketChanges, ArrivesTyped
  <2>2. Outside(s, [c EXCEPT !.proxy.up = TRUE,
                             !.proxy.sock = Arrives([@ EXCEPT !.space = SendBuf], "W")])
    BY <1>4, Zenon DEF UpstreamConnects
  <2>3. Outside(s, [c EXCEPT !.proxy.up = TRUE, !.proxy.sock = k])  BY <2>0, <2>2, Zenon
  <2>4. [c.proxy EXCEPT !.up = TRUE, !.sock = k] \in Proxy  BY <1>3, <2>1, ProxyChanges
  <2>5. Outside(s, [c EXCEPT !.proxy = [c.proxy EXCEPT !.up = TRUE, !.sock = k]])
    BY ZenonT(60), <1>3, <2>3, ProxyUpdates
  <2> QED  BY <2>4, <2>5, UpstreamSideKeeps
<1>5. CASE UpstreamFails(s)
  <2>0. PICK k : k = [j EXCEPT !.inq = 0, !.err = TRUE, !.armed = TRUE]  OBVIOUS
  <2>1. k \in Socket  BY <1>3, <2>0, SocketChanges
  <2>2. Outside(s, [c EXCEPT !.proxy.sock = [j EXCEPT !.inq = 0, !.err = TRUE, !.armed = TRUE]])
    BY <1>5, Zenon DEF UpstreamFails, Upstream
  <2>3. Outside(s, [c EXCEPT !.proxy.sock = k])  BY <2>0, <2>2, Zenon
  <2>4. [c.proxy EXCEPT !.sock = k] \in Proxy  BY <1>3, <2>1, ProxyChanges
  <2> QED  BY <1>3, <2>3, <2>4, ProxyUpdates, UpstreamSideKeeps
<1>6. CASE UpstreamReads(s)
  <2>1. Freed(j) \in Socket  BY <1>3, <1>6, FreedTyped DEF UpstreamReads
  <2>2. Outside(s, [c EXCEPT !.proxy.sock = Freed(j)])
    BY <1>6, Zenon DEF UpstreamReads, Upstream
  <2>3. [c.proxy EXCEPT !.sock = Freed(j)] \in Proxy  BY <1>3, <2>1, ProxyChanges
  <2> QED  BY <1>3, <2>2, <2>3, ProxyUpdates, UpstreamSideKeeps
<1>7. CASE UpstreamSends(s)
  <2>1. Received(j) \in Socket  BY <1>3, ReceivedTyped
  <2>2. c.proxy.todo - 1 \in Nat  BY <1>3, <1>7 DEF UpstreamSends
  <2>3. Outside(s, [c EXCEPT !.proxy.todo = c.proxy.todo - 1, !.proxy.sock = Received(j)])
    BY <1>7, Zenon DEF UpstreamSends
  <2>4. [c.proxy EXCEPT !.todo = c.proxy.todo - 1, !.sock = Received(j)] \in Proxy
    BY <1>3, <2>1, <2>2, ProxyChanges
  <2>5. Outside(s, [c EXCEPT !.proxy = [c.proxy EXCEPT !.todo = c.proxy.todo - 1,
                                                       !.sock = Received(j)]])
    BY ZenonT(60), <1>3, <2>3, ProxyUpdates
  <2> QED  BY <2>4, <2>5, UpstreamSideKeeps
<1>8. CASE UpstreamCloses(s)
  <2>0. PICK k : k = Arrives([j EXCEPT !.fin = TRUE], "R")  OBVIOUS
  <2>1. k \in Socket  BY <1>3, <2>0, SocketChanges, ArrivesTyped
  <2>2. Outside(s, [c EXCEPT !.proxy.todo = 0,
                             !.proxy.sock = Arrives([j EXCEPT !.fin = TRUE], "R")])
    BY <1>8, Zenon DEF UpstreamCloses
  <2>3. Outside(s, [c EXCEPT !.proxy.todo = 0, !.proxy.sock = k])  BY <2>0, <2>2, Zenon
  <2>4. [c.proxy EXCEPT !.todo = 0, !.sock = k] \in Proxy  BY <1>3, <2>1, ProxyChanges
  <2>5. Outside(s, [c EXCEPT !.proxy = [c.proxy EXCEPT !.todo = 0, !.sock = k]])
    BY ZenonT(60), <1>3, <2>3, ProxyUpdates
  <2> QED  BY <2>4, <2>5, UpstreamSideKeeps
<1> QED  BY <1>1, <1>4, <1>5, <1>6, <1>7, <1>8

\* A step of the thread that reads a file.
LEMMA StreamKeeps ==
  ASSUME IInv, NEW s \in Slots, NEW st, s \in Occupied(w) => st \in Stream,
         Outside(s, [w.conns[s] EXCEPT !.stream = st])
  PROVE  IInv'
<1> DEFINE c == w.conns[s]
           d == [c EXCEPT !.stream = st]
<1>1. s \in Occupied(w)  BY DEF Outside
<1>2. d = World(c, c.sent, c.sock, st, c.proxy, c.idle, c.due)
  BY <1>1, OccupantTyped DEF World, Connection
<1>3. Successor(c, d)  BY SMTT(60), <1>1, <1>2, OccupantTyped, WorldSucceeds
<1> HIDE DEF d
<1>4. Outside(s, d)  BY DEF d
<1> QED  BY <1>3, <1>4, OutsideKeeps

LEMMA ProducersKeep == ASSUME IInv, Producers PROVE IInv'
<1>1. PICK s \in Slots : ProducerSends(s) \/ ProducerEnds(s)  BY DEF Producers
<1> DEFINE c == w.conns[s]
           st == c.stream
<1>2. s \in Occupied(w)  BY <1>1 DEF ProducerSends, ProducerEnds, Outside
<1>3. c \in Connection /\ st \in Stream  BY <1>2, OccupantTyped
<1>4. CASE ProducerSends(s)
  <2> DEFINE st2 == [st EXCEPT !.queued = st.queued + 1, !.left = st.left - 1]
  <2>1. st.queued + 1 \in Nat /\ st.left - 1 \in Nat  BY <1>3, <1>4 DEF ProducerSends, Stream
  <2>2. st2 \in Stream  BY <1>3, <2>1 DEF Stream
  <2>3. Outside(s, [c EXCEPT !.stream = st2])
    <3>1. Outside(s, [c EXCEPT !.stream.queued = @ + 1, !.stream.left = @ - 1])
      BY <1>4, Zenon DEF ProducerSends
    <3>2. [c EXCEPT !.stream.queued = @ + 1, !.stream.left = @ - 1] = [c EXCEPT !.stream = st2]
      BY <1>3 DEF Connection, Stream
    <3> QED  BY <3>1, <3>2, Zenon
  <2> HIDE DEF st2
  <2> QED  BY <2>2, <2>3, StreamKeeps
<1>5. CASE ProducerEnds(s)
  <2>1. CASE Outside(s, [c EXCEPT !.stream.open = FALSE])
    <3>1. [st EXCEPT !.open = FALSE] \in Stream  BY <1>3 DEF Stream
    <3>2. [c EXCEPT !.stream.open = FALSE] = [c EXCEPT !.stream = [st EXCEPT !.open = FALSE]]
      OBVIOUS
    <3> QED  BY <2>1, <3>1, <3>2, StreamKeeps
  <2>2. CASE Outside(s, [c EXCEPT !.stream.open = FALSE, !.stream.left = 0, !.stream.bad = TRUE])
    <3> DEFINE st2 == [st EXCEPT !.open = FALSE, !.left = 0, !.bad = TRUE]
    <3>1. st2 \in Stream  BY <1>3 DEF Stream
    <3>2. [c EXCEPT !.stream.open = FALSE, !.stream.left = 0, !.stream.bad = TRUE]
            = [c EXCEPT !.stream = st2]
      BY <1>3 DEF Connection, Stream
    <3>3. Outside(s, [c EXCEPT !.stream = st2])  BY <2>2, <3>2
    <3> HIDE DEF st2
    <3> QED  BY <3>1, <3>3, StreamKeeps
  <2> QED  BY <1>5, <2>1, <2>2 DEF ProducerEnds
<1> QED  BY <1>1, <1>4, <1>5

LEMMA ClockKeeps == ASSUME IInv, Clock PROVE IInv'
<1>1. CASE DrainElapses
  <2>1. LoopTyped /\ CountTyped /\ Typed(w)  BY LoopTypes
  <2>2. /\ stop' = [stop EXCEPT !.deadline = TRUE]
        /\ w' = w /\ gens' = gens /\ pc' = pc /\ work' = work /\ ready' = ready
        /\ listener' = listener /\ dns' = dns /\ accepted' = accepted
    BY <1>1 DEF DrainElapses
  <2>3. LoopTyped' /\ AnswersKept'  BY <2>1, <2>2 DEF LoopTyped, AnswersKept, IInv
  <2>4. listener \in [waiting : Nat, came : Nat, armed : BOOLEAN]  BY <2>1 DEF CountTyped
  <2>5. Follows(w, w')  BY <2>1, <2>2, FollowsReflexive
  <2> QED  BY <2>1, <2>2, <2>3, <2>4, <2>5, FollowsHolders, HarmlessKeeps DEF Harmless
<1>2. ASSUME NEW s \in Slots, IdleElapses(s) \/ PhaseElapses(s) PROVE IInv'
  <2> DEFINE c == w.conns[s]
  <2>1. s \in Occupied(w)  BY <1>2 DEF IdleElapses, PhaseElapses, Outside
  <2>2. PICK idle \in BOOLEAN, due \in BOOLEAN : Outside(s, [c EXCEPT !.idle = idle, !.due = due])
    <3>0. c \in Connection /\ c.idle \in BOOLEAN /\ c.due \in BOOLEAN  BY <2>1, OccupantTyped
    <3>1. [c EXCEPT !.idle = TRUE] = [c EXCEPT !.idle = TRUE, !.due = c.due]
      BY <3>0 DEF Connection
    <3>2. [c EXCEPT !.due = TRUE] = [c EXCEPT !.idle = c.idle, !.due = TRUE]
      BY <3>0 DEF Connection
    <3>3. CASE IdleElapses(s)
      <4>1. Outside(s, [c EXCEPT !.idle = TRUE, !.due = c.due])  BY <3>1, <3>3 DEF IdleElapses
      <4> QED  BY <3>0, <4>1
    <3>4. CASE PhaseElapses(s)
      <4>1. Outside(s, [c EXCEPT !.idle = c.idle, !.due = TRUE])  BY <3>2, <3>4 DEF PhaseElapses
      <4> QED  BY <3>0, <4>1
    <3> QED  BY <1>2, <3>3, <3>4
  <2> DEFINE d == [c EXCEPT !.idle = idle, !.due = due]
  <2>3. d = World(c, c.sent, c.sock, c.stream, c.proxy, idle, due)
    BY <2>1, OccupantTyped DEF World, Connection
  <2>4. Successor(c, d)  BY <2>1, <2>3, OccupantTyped, WorldSucceeds
  <2> HIDE DEF d
  <2>5. Outside(s, d)  BY <2>2 DEF d
  <2> QED  BY <2>4, <2>5, OutsideKeeps
<1> QED  BY <1>1, <1>2 DEF Clock

\* Lookups move from queue to thread to answer with their id and client.
LEMMA ResolverKeeps == ASSUME IInv, Resolver PROVE IInv'
<1>1. LoopTyped /\ CountTyped /\ Typed(w)  BY LoopTypes
<1>2. dns \in [running : SUBSET Task, results : SUBSET Result, wake : BOOLEAN]
  BY <1>1 DEF LoopTyped
<1>3. listener \in [waiting : Nat, came : Nat, armed : BOOLEAN]  BY <1>1 DEF CountTyped
<1>4. CASE ResolverTakes
  <2>1. PICK t \in w.tasks : /\ w' = [w EXCEPT !.tasks = w.tasks \ {t}]
                             /\ dns' = [dns EXCEPT !.running = dns.running \cup {t}]
    BY <1>4 DEF ResolverTakes
  <2>2. /\ gens' = gens /\ pc' = pc /\ work' = work /\ ready' = ready /\ listener' = listener
        /\ accepted' = accepted /\ stop' = stop
    BY <1>4 DEF ResolverTakes
  <2>3. t \in Task /\ w \in WorkerState  BY <1>1 DEF Typed, WorkerState
  <2>4. w' \in WorkerState /\ w'.conns = w.conns /\ w'.tasks \subseteq w.tasks
    BY <2>1, <2>3 DEF WorkerState
  <2>5. Follows(w, w')
    BY <1>1, <2>4 DEF Follows, Typed, SameOccupants, TasksOfOccupants
  <2>6. /\ dns' \in [running : SUBSET Task, results : SUBSET Result, wake : BOOLEAN]
        /\ dns'.running = dns.running \cup {t} /\ dns'.results = dns.results
    BY <1>2, <2>1, <2>3
  <2>7. LoopTyped'  BY <1>1, <2>2, <2>6 DEF LoopTyped
  <2>8. AnswersKept'  BY <2>2, <2>6 DEF AnswersKept, IInv
  <2>9. Holders' \subseteq Holders  BY <2>1, <2>2, <2>4, <2>6 DEF Holders
  <2> QED  BY <1>3, <2>2, <2>5, <2>7, <2>8, <2>9, HarmlessKeeps DEF Harmless
<1>5. CASE ResolverAnswers
  <2>1. PICK t \in dns.running, n \in (IF "dns" \in Faults THEN 0 ELSE 1) .. MaxAddresses :
          dns' = [running |-> dns.running \ {t}, wake |-> TRUE,
                  results |-> dns.results \cup {[id |-> t.id, cid |-> t.cid, addresses |-> n]}]
    BY <1>5 DEF ResolverAnswers
  <2>2. /\ w' = w /\ gens' = gens /\ pc' = pc /\ work' = work /\ ready' = ready
        /\ listener' = listener /\ accepted' = accepted /\ stop' = stop
    BY <1>5 DEF ResolverAnswers
  <2> DEFINE r == [id |-> t.id, cid |-> t.cid, addresses |-> n]
  <2>3. r \in Result /\ t.id \in Ids
    <3>1. t.id \in Ids /\ t.cid \in Nat  BY <1>2 DEF Task
    <3>2. n \in Nat  BY SizeAssumption
    <3> QED  BY <3>1, <3>2 DEF Result
  <2>4. r.id = t.id /\ r.cid = t.cid  OBVIOUS
  <2> HIDE DEF r
  <2>5. /\ dns' \in [running : SUBSET Task, results : SUBSET Result, wake : BOOLEAN]
        /\ dns'.running \subseteq dns.running /\ dns'.results = dns.results \cup {r}
    BY <1>2, <2>1, <2>3 DEF r
  <2>6. TypeOK'  BY <2>2, <2>5 DEF IInv, TypeOK
  <2>7. AnswersKept'  BY <2>2, <2>5 DEF AnswersKept, IInv
  <2>8. Counted' /\ Aged(w, gens)'  BY <2>2 DEF Counted, Aged, IInv
  <2>9. Named(w, gens, Holders)'
    <3>1. Holders' \subseteq Holders \cup {r}  BY <2>2, <2>5 DEF Holders
    <3>2. t \in Holders  BY DEF Holders
    <3>3. \A h \in Holders \cup {r} : /\ h.id.gen <= gens[h.id.slot]
                                      /\ is_current(w, h.id) => ConnOf(w, h.id).cid = h.cid
      BY <2>4, <3>2 DEF IInv, Named
    <3> QED  BY <2>2, <3>1, <3>3 DEF Named, is_current, ConnOf
  <2> QED  BY <2>6, <2>7, <2>8, <2>9 DEF IInv
<1> QED  BY <1>4, <1>5 DEF Resolver

LEMMA ClientConnectsKeeps == ASSUME IInv, ClientConnects PROVE IInv'
<1>1. LoopTyped /\ CountTyped /\ Typed(w)  BY LoopTypes
<1>2. /\ listener.came < MaxClients
      /\ listener' = [waiting |-> listener.waiting + 1, came |-> listener.came + 1,
                      armed |-> ~w.draining]
      /\ w' = w /\ gens' = gens /\ pc' = pc /\ work' = work /\ ready' = ready /\ dns' = dns
      /\ accepted' = accepted /\ stop' = stop
  BY DEF ClientConnects
<1>3. /\ listener' \in [waiting : Nat, came : Nat, armed : BOOLEAN]
      /\ listener'.waiting = listener.waiting + 1 /\ listener'.came = listener.came + 1
      /\ listener.waiting \in Nat /\ listener.came \in Nat /\ accepted \in Nat
  <2>1. (~w.draining) \in BOOLEAN  OBVIOUS
  <2> QED  BY <1>1, <1>2, <2>1 DEF CountTyped
<1>4. TypeOK'  BY <1>2, <1>3 DEF IInv, TypeOK
<1>5. Counted'  BY <1>2, <1>3, SizeAssumption DEF IInv, Counted
<1>6. AnswersKept' /\ Aged(w, gens)' /\ Holders' = Holders
  BY <1>2 DEF IInv, AnswersKept, Aged, Holders
<1>7. Named(w, gens, Holders)'  BY <1>2, <1>6 DEF IInv, Named, is_current, ConnOf
<1> QED  BY <1>4, <1>5, <1>6, <1>7 DEF IInv

LEMMA ShutdownRequestedKeeps == ASSUME IInv, ShutdownRequested PROVE IInv'
<1>1. LoopTyped /\ CountTyped /\ Typed(w)  BY LoopTypes
<1>2. /\ stop' = [stop EXCEPT !.requested = TRUE] /\ dns' = [dns EXCEPT !.wake = TRUE]
      /\ w' = w /\ gens' = gens /\ pc' = pc /\ work' = work /\ ready' = ready
      /\ listener' = listener /\ accepted' = accepted
  BY DEF ShutdownRequested
<1>3. /\ dns' \in [running : SUBSET Task, results : SUBSET Result, wake : BOOLEAN]
      /\ dns'.running = dns.running /\ dns'.results = dns.results
      /\ stop' \in [requested : BOOLEAN, deadline : BOOLEAN]
  BY <1>1, <1>2 DEF LoopTyped
<1>4. LoopTyped' /\ AnswersKept'  BY <1>1, <1>2, <1>3 DEF LoopTyped, AnswersKept, IInv
<1>5. listener \in [waiting : Nat, came : Nat, armed : BOOLEAN]  BY <1>1 DEF CountTyped
<1>6. Follows(w, w')  BY <1>1, <1>2, FollowsReflexive
<1> QED  BY <1>1, <1>2, <1>3, <1>4, <1>5, <1>6, FollowsHolders, HarmlessKeeps DEF Harmless

LEMMA StutterKeeps == ASSUME IInv, UNCHANGED vars PROVE IInv'
BY DEF vars, IInv, TypeOK, Aged, Named, Holders, Counted, AnswersKept, is_current, ConnOf

LEMMA InitEstablishes == ASSUME Init PROVE IInv
<1>1. /\ w = [conns |-> [s \in Slots |-> Vacant], pending_writes |-> {},
              pending_upstream_writes |-> {}, pending_upstream_reads |-> {}, tasks |-> {},
              wire |-> [k \in 1 .. MaxClients |->
                          [src |-> "response", len |-> 0, torn |-> FALSE, want |-> 0]],
              draining |-> FALSE, failed |-> FALSE]
      /\ gens = [s \in Slots |-> 0] /\ pc = "top" /\ work = {}
      /\ ready = [sockets |-> {}, listener |-> FALSE, control |-> FALSE]
      /\ listener = [waiting |-> 0, came |-> 0, armed |-> TRUE]
      /\ dns = [running |-> {}, results |-> {}, wake |-> FALSE]
      /\ accepted = 0 /\ stop = [requested |-> FALSE, deadline |-> FALSE]
  BY DEF Init
<1>2. Vacant \in Connection /\ Vacant.off <= Vacant.len /\ Vacant.phase = "Vacant"
  BY VacantTyped DEF TypedConn, Vacant
<1>3. [src |-> "response", len |-> 0, torn |-> FALSE, want |-> 0] \in Line
  BY DEF Line, Sources
<1>4. w \in WorkerState  BY <1>1, <1>2, <1>3 DEF WorkerState
<1>5. w.conns = [s \in Slots |-> Vacant] /\ w.tasks = {}  BY <1>1
<1>6. TypeOK  BY SMTT(60), <1>1, <1>2, <1>4, <1>5, SizeAssumption DEF TypeOK, Places
<1>7. Aged(w, gens)  BY <1>2, <1>5 DEF Aged
<1>8. Holders = {}  BY <1>1, <1>5 DEF Holders
<1>9. Named(w, gens, Holders) /\ AnswersKept  BY <1>1, <1>8 DEF Named, AnswersKept
<1>10. Counted  BY <1>1, SizeAssumption DEF Counted
<1> QED  BY <1>6, <1>7, <1>9, <1>10 DEF IInv

-----------------------------------------------------------------------------
(* The theorems.                                                             *)

\* Every step of the worker and of its environment keeps the invariant.
THEOREM Inductive == Spec => []IInv
<1>1. Init => IInv  BY InitEstablishes
<1>2. IInv /\ [Next]_vars => IInv'
  BY WorkerKeeps, ClientConnectsKeeps, ClientsKeep, UpstreamsKeep, ProducersKeep,
     ResolverKeeps, ClockKeeps, ShutdownRequestedKeeps, StutterKeeps DEF Next, Ended
<1> QED  BY <1>1, <1>2, PTL DEF Spec

\* The fields of the worker keep their types and no write offset passes the end of
\* its buffer, however many slots, clients, chunks and threads there are.
THEOREM TypeCorrect == Spec => []TypeOK
<1>1. IInv => TypeOK  BY DEF IInv
<1> QED  BY <1>1, Inductive, PTL

\* As long as a slot's generations do not wrap around, no event, lookup or answer
\* is ever taken for the slot's next occupant by dispatch or finish_resolution.
THEOREM IdsSafe == Spec => []IdsNameOneConnection
<1>1. IInv => IdsNameOneConnection  BY DEF IInv, Named, Holders, IdsNameOneConnection, Names
<1> QED  BY <1>1, Inductive, PTL

=============================================================================
