---------------------------- MODULE ReadinessSteps ----------------------------
(***************************************************************************)
(* The inductive invariant behind type correctness and the safety of ids,  *)
(* and the steps of the worker's loop that keep it.                        *)
(***************************************************************************)
EXTENDS ReadinessHandlers

-----------------------------------------------------------------------------
(* The inductive invariant.  An id made for a client can only be mistaken for *)
(* another one if its slot's generation comes round again: so every id in     *)
(* flight is at most as old as its slot's last generation, and generations    *)
(* are counted against the clients that have come.                            *)

Aged(ws, g) == \A s \in Slots : ws.conns[s].phase # "Vacant" => ws.conns[s].gen <= g[s]

Named(ws, g, H) ==
  \A h \in H : /\ h.id.gen <= g[h.id.slot]
               /\ is_current(ws, h.id) => ConnOf(ws, h.id).cid = h.cid

\* Everything in flight that carries the id of a connection.
Holders == ready.sockets \cup w.tasks \cup dns.running \cup dns.results

Counted ==
  /\ \A s \in Slots : gens[s] <= accepted
  /\ accepted + listener.waiting <= listener.came
  /\ listener.came <= MaxClients

\* The answers process_dns_results has collected are there until it serves them.
AnswersKept ==
  pc \in {"dns results", "control"} => \A id \in work : \E r \in dns.results : r.id = id

IInv ==
  /\ TypeOK /\ Aged(w, gens) /\ Named(w, gens, Holders) /\ Counted /\ AnswersKept

\* Steps that follow, and hold only ids that were held or are of an occupant, keep
\* the naming.
LEMMA FollowsKeeps ==
  ASSUME NEW ws, NEW ws2, NEW g, NEW H, NEW H2,
         Typed(ws), Follows(ws, ws2), Aged(ws, g), Named(ws, g, H),
         \A h \in H2 : /\ h.id \in Ids
                       /\ \/ h \in H
                          \/ /\ ws.conns[h.id.slot].phase # "Vacant"
                             /\ ws.conns[h.id.slot].gen = h.id.gen
                             /\ ws.conns[h.id.slot].cid = h.cid
  PROVE  Aged(ws2, g) /\ Named(ws2, g, H2)
<1>1. Aged(ws2, g)  BY DEF Aged, Follows, SameOccupants
<1>2. ASSUME NEW h \in H2
      PROVE  h.id.gen <= g[h.id.slot] /\ (is_current(ws2, h.id) => ConnOf(ws2, h.id).cid = h.cid)
  <2>1. h.id.slot \in Slots  BY <1>2 DEF Ids
  <2>2. h.id.gen <= g[h.id.slot]  BY <1>2, <2>1 DEF Named, Aged
  <2>3. ASSUME is_current(ws2, h.id) PROVE ConnOf(ws2, h.id).cid = h.cid
    BY <1>2, <2>1, <2>3 DEF Named, Follows, SameOccupants, is_current, ConnOf
  <2> QED  BY <2>2, <2>3
<1> QED  BY <1>1, <1>2 DEF Named

LEMMA TypedWorker == ASSUME TypeOK PROVE Typed(w)
BY DEF TypeOK, Typed

\* The types of the other variables.
LoopTyped ==
  /\ pc \in Places /\ work \subseteq Ids
  /\ ready \in [sockets : SUBSET SocketEvent, listener : BOOLEAN, control : BOOLEAN]
  /\ dns \in [running : SUBSET Task, results : SUBSET Result, wake : BOOLEAN]
  /\ stop \in [requested : BOOLEAN, deadline : BOOLEAN]

CountTyped ==
  /\ gens \in [Slots -> 0 .. GenMax] /\ accepted \in Nat
  /\ listener \in [waiting : Nat, came : Nat, armed : BOOLEAN]

LEMMA HoldersTyped ==
  ASSUME LoopTyped, Typed(w), NEW h \in Holders
  PROVE  h.id \in Ids
BY DEF LoopTyped, Typed, WorkerState, Holders, SocketEvent, Task, Result

\* A step that follows, leaves the generations and the counts alone and holds no
\* new id but an occupant's.
Harmless ==
  /\ Follows(w, w') /\ LoopTyped' /\ AnswersKept'
  /\ gens' = gens /\ accepted' = accepted
  /\ listener'.waiting = listener.waiting /\ listener'.came = listener.came
  /\ listener' \in [waiting : Nat, came : Nat, armed : BOOLEAN]
  /\ \A h \in Holders' : \/ h \in Holders
                         \/ /\ w.conns[h.id.slot].phase # "Vacant"
                            /\ w.conns[h.id.slot].gen = h.id.gen
                            /\ w.conns[h.id.slot].cid = h.cid

LEMMA HarmlessKeeps == ASSUME IInv, Harmless PROVE IInv'
<1>1. Typed(w) /\ Typed(w')  BY TypedWorker DEF IInv, Harmless, Follows
<1>2. TypeOK'  BY <1>1 DEF IInv, TypeOK, Harmless, LoopTyped, Typed
<1>3. \A h \in Holders' : h.id \in Ids
  BY <1>1 DEF Harmless, LoopTyped, Typed, WorkerState, Holders, SocketEvent, Task, Result
<1>4. Aged(w', gens) /\ Named(w', gens, Holders')
  <2> DEFINE H == Holders
             H2 == Holders'
  <2>1. /\ Typed(w) /\ Follows(w, w') /\ Aged(w, gens) /\ Named(w, gens, H)
        /\ \A h \in H2 : /\ h.id \in Ids
                         /\ \/ h \in H
                            \/ /\ w.conns[h.id.slot].phase # "Vacant"
                               /\ w.conns[h.id.slot].gen = h.id.gen
                               /\ w.conns[h.id.slot].cid = h.cid
    BY <1>1, <1>3 DEF IInv, Harmless
  <2> HIDE DEF H, H2
  <2>2. Aged(w', gens) /\ Named(w', gens, H2)  BY <2>1, FollowsKeeps
  <2> QED  BY <2>2 DEF H2
<1>5. gens' = gens  BY DEF Harmless
<1>6. Aged(w, gens)' /\ Named(w, gens, Holders)'
  BY <1>4, <1>5 DEF Aged, Named, is_current, ConnOf
<1>7. Counted'  BY DEF IInv, Counted, Harmless
<1> QED  BY <1>2, <1>6, <1>7 DEF IInv, Harmless

-----------------------------------------------------------------------------
(* The steps of the loop.                                                    *)

LEMMA IdOfTyped == ASSUME NEW ws, Typed(ws), NEW s \in Slots PROVE IdOf(ws, s) \in Ids
<1>1. ws.conns[s].gen \in 1 .. GenMax  BY DEF Typed, WorkerState, Connection
<1> QED  BY <1>1 DEF IdOf, Ids

LEMMA CollectTyped ==
  ASSUME NEW ws, Typed(ws), NEW results \in SUBSET Result, NEW i
  PROVE  Collect(ws, results, i) \subseteq Ids
<1>1. \A S : S \subseteq Slots => IdsWhere(ws, S) \subseteq Ids  BY IdOfTyped DEF IdsWhere
<1>2. {r.id : r \in results} \subseteq Ids  BY DEF Result
<1>3. /\ ws.pending_writes \subseteq Ids /\ ws.pending_upstream_writes \subseteq Ids
      /\ ws.pending_upstream_reads \subseteq Ids
  BY DEF Typed, WorkerState
<1>4. /\ Expired(ws, "Resolving") \subseteq Slots /\ Expired(ws, "Proxying") \subseteq Slots
      /\ Occupied(ws) \subseteq Slots
  BY DEF Expired, Occupied
<1> QED  BY <1>1, <1>2, <1>3, <1>4 DEF Collect

LEMMA TakenFollows ==
  ASSUME NEW ws, Typed(ws), NEW i
  PROVE  Follows(ws, Taken(ws, i))
<1>1. {} \in SUBSET Ids  OBVIOUS
<1> QED  BY <1>1, ScheduledFollows, FollowsReflexive DEF Taken

\* Entering a stage: typed, and the dns stage works on the answers there are.
LEMMA EnterStageFollows ==
  ASSUME NEW ws, Typed(ws), NEW results \in SUBSET Result, NEW from \in 1 .. 9,
         EnterStage(ws, results, from)
  PROVE  /\ Follows(ws, w') /\ pc' \in Places /\ pc' # "control" /\ work' \subseteq Ids
         /\ pc' = "dns results" => work' = {r.id : r \in results}
<1> DEFINE Busy == {i \in from .. 8 : Collect(ws, results, i) # {}}
           next == IF Busy = {} THEN 9 ELSE CHOOSE i \in Busy : \A j \in Busy : i <= j
<1>1. Busy \in SUBSET Nat /\ Busy \subseteq 1 .. 8  OBVIOUS
<1>2. pc' = StageName(next) /\ work' = Collect(ws, results, next) /\ w' = Taken(ws, next)
  BY DEF EnterStage
<1>3. next \in 1 .. 9
  <2> HIDE DEF Busy
  <2>1. CASE Busy = {}  BY <2>1
  <2>2. CASE Busy # {}
    <3>1. \E i \in Busy : \A j \in Busy : i <= j  BY <1>1, <2>2, Least
    <3>2. next \in Busy  BY <2>2, <3>1
    <3>3. next \in 1 .. 8  BY <1>1, <3>2
    <3> HIDE DEF next
    <3> QED  BY <3>3
  <2> QED  BY <2>1, <2>2
<1> HIDE DEF next
<1>4. Follows(ws, w') /\ work' \subseteq Ids  BY <1>2, TakenFollows, CollectTyped
<1>5. pc' \in Places /\ pc' # "control"
  <2>1. next \in 1 .. 8 => pc' \in Places  BY <1>2 DEF Places
  <2>2. next = 9 => pc' = "poll"  BY <1>2 DEF StageName
  <2>3. pc' # "control"  BY <1>2, <1>3 DEF StageName
  <2> QED  BY <1>3, <2>1, <2>2, <2>3 DEF Places
<1>6. pc' = "dns results" => next = 1  BY <1>2, <1>3 DEF StageName
<1>7. next = 1 => work' = {r.id : r \in results}  BY <1>2 DEF Collect
<1> QED  BY <1>4, <1>5, <1>6, <1>7

\* What a Harmless step needs when it holds no new event or lookup of its own.
LEMMA FollowsHolders ==
  ASSUME LoopTyped, Typed(w), Follows(w, w'), ready'.sockets \subseteq ready.sockets,
         dns'.running \cup dns'.results \subseteq dns.running \cup dns.results
  PROVE  \A h \in Holders' : \/ h \in Holders
                             \/ /\ w.conns[h.id.slot].phase # "Vacant"
                                /\ w.conns[h.id.slot].gen = h.id.gen
                                /\ w.conns[h.id.slot].cid = h.cid
BY DEF Holders, Follows, TasksOfOccupants

LEMMA LoopTypes == ASSUME IInv PROVE LoopTyped /\ CountTyped /\ Typed(w)
BY TypedWorker DEF IInv, TypeOK, LoopTyped, CountTyped

LEMMA TopKeeps == ASSUME IInv, Top PROVE IInv'
<1> DEFINE begins == stop.requested /\ ~w.draining
           ws == IF begins THEN begin_shutdown(w) ELSE w
<1>1. LoopTyped /\ CountTyped /\ Typed(w)  BY LoopTypes
<1>2. Follows(w, ws) /\ Typed(ws)  BY <1>1, BeginShutdownFollows, FollowsReflexive DEF Follows
<1>3. dns.results \in SUBSET Result  BY <1>1 DEF LoopTyped
<1>4. /\ listener' = [listener EXCEPT !.armed = @ /\ ~begins]
      /\ gens' = gens /\ ready' = ready /\ dns' = dns /\ accepted' = accepted /\ stop' = stop
      /\ \/ w' = ws /\ pc' = "exited" /\ work' = {}
         \/ w' = RemoveAll(ws, Occupied(ws)) /\ pc' = "exited" /\ work' = {}
         \/ EnterStage(ws, dns.results, 1)
  BY DEF Top
<1> HIDE DEF ws
<1>5. /\ Follows(ws, w') /\ pc' \in Places /\ pc' # "control" /\ work' \subseteq Ids
      /\ pc' = "dns results" => work' = {r.id : r \in dns.results}
  <2>1. CASE w' = ws /\ pc' = "exited" /\ work' = {}
    BY <1>2, <2>1, FollowsReflexive DEF Places
  <2>2. CASE w' = RemoveAll(ws, Occupied(ws)) /\ pc' = "exited" /\ work' = {}
    BY <1>2, <2>2, RemoveAllFollows DEF Places
  <2>3. CASE EnterStage(ws, dns.results, 1)
    <3>1. 1 \in 1 .. 9  OBVIOUS
    <3> QED  BY <1>2, <1>3, <2>3, <3>1, EnterStageFollows
  <2> QED  BY <1>4, <2>1, <2>2, <2>3
<1>6. Follows(w, w')  BY <1>1, <1>2, <1>5, FollowsTransitive
<1>7. LoopTyped'  BY <1>1, <1>4, <1>5 DEF LoopTyped
<1>8. AnswersKept'  BY <1>4, <1>5 DEF AnswersKept
<1>9. /\ listener'.waiting = listener.waiting /\ listener'.came = listener.came
      /\ listener' \in [waiting : Nat, came : Nat, armed : BOOLEAN]
  <2> HIDE DEF begins
  <2>1. (listener.armed /\ ~begins) \in BOOLEAN  OBVIOUS
  <2> QED  BY <1>1, <1>4, <2>1 DEF CountTyped
<1> QED
  BY <1>1, <1>4, <1>6, <1>7, <1>8, <1>9, FollowsHolders, HarmlessKeeps DEF Harmless

LEMMA PollKeeps == ASSUME IInv, Poll PROVE IInv'
<1>1. LoopTyped /\ CountTyped /\ Typed(w)  BY LoopTypes
<1>2. PICK E \in SUBSET SocketEvents(w), l \in {FALSE, ListenerReady}, c \in {FALSE, dns.wake} :
        /\ ready' = [sockets |-> E, listener |-> l, control |-> c]
        /\ w' = Reported(w, E)
        /\ listener' = [listener EXCEPT !.armed = @ /\ ~l]
        /\ dns' = [dns EXCEPT !.wake = @ /\ ~c]
        /\ pc' \in {"top", "dispatch"}
  BY ZenonT(60) DEF Poll
<1>3. gens' = gens /\ work' = work /\ accepted' = accepted /\ stop' = stop  BY DEF Poll
<1>4. Follows(w, w')  BY <1>1, <1>2, ReportedFollows
<1>5. l \in BOOLEAN /\ c \in BOOLEAN  BY <1>1 DEF LoopTyped, ListenerReady, CountTyped
<1>6. E \in SUBSET SocketEvent  BY <1>1, SocketEventsTyped
<1>7. ready' \in [sockets : SUBSET SocketEvent, listener : BOOLEAN, control : BOOLEAN]
  BY <1>2, <1>5, <1>6
<1>8. /\ dns' \in [running : SUBSET Task, results : SUBSET Result, wake : BOOLEAN]
      /\ dns'.running = dns.running /\ dns'.results = dns.results
  <2>1. (dns.wake /\ ~c) \in BOOLEAN  OBVIOUS
  <2> QED  BY <1>1, <1>2, <2>1 DEF LoopTyped
<1>9. LoopTyped'  BY <1>1, <1>2, <1>3, <1>7, <1>8 DEF LoopTyped, Places
<1>10. /\ listener'.waiting = listener.waiting /\ listener'.came = listener.came
       /\ listener' \in [waiting : Nat, came : Nat, armed : BOOLEAN]
  <2>1. (listener.armed /\ ~l) \in BOOLEAN  OBVIOUS
  <2> QED  BY <1>1, <1>2, <2>1 DEF CountTyped
<1>11. AnswersKept'  BY <1>2 DEF AnswersKept
<1>12. \A h \in Holders' : \/ h \in Holders
                           \/ /\ w.conns[h.id.slot].phase # "Vacant"
                              /\ w.conns[h.id.slot].gen = h.id.gen
                              /\ w.conns[h.id.slot].cid = h.cid
  <2>1. Holders' = E \cup w'.tasks \cup dns.running \cup dns.results
    BY <1>2, <1>8 DEF Holders
  <2>2. \A h \in E : /\ w.conns[h.id.slot].phase # "Vacant"
                     /\ w.conns[h.id.slot].gen = h.id.gen
                     /\ w.conns[h.id.slot].cid = h.cid
    BY <1>1, SocketEventsTyped
  <2> QED  BY <1>4, <2>1, <2>2 DEF Holders, Follows, TasksOfOccupants
<1> QED  BY <1>3, <1>4, <1>9, <1>10, <1>11, <1>12, HarmlessKeeps DEF Harmless

LEMMA NextEventTyped == ASSUME NEW b PROVE NextEvent(b) \in {"top", "dispatch"}
BY DEF NextEvent

LEMMA DispatchSocketKeeps == ASSUME IInv, DispatchSocket PROVE IInv'
<1>1. LoopTyped /\ CountTyped /\ Typed(w)  BY LoopTypes
<1>2. PICK ev \in ready.sockets, ok \in Outcomes :
        /\ w' = dispatch(w, ev, ok)
        /\ ready' = [ready EXCEPT !.sockets = @ \ {ev}]
        /\ pc' = "failed" \/ pc' = NextEvent(ready')
  BY DEF DispatchSocket
<1>3. /\ gens' = gens /\ work' = work /\ listener' = listener /\ dns' = dns
      /\ accepted' = accepted /\ stop' = stop
  BY DEF DispatchSocket
<1>4. ev \in SocketEvent  BY <1>1 DEF LoopTyped
<1>5. Follows(w, w')  BY <1>1, <1>2, <1>4, DispatchFollows
<1>6. /\ ready' \in [sockets : SUBSET SocketEvent, listener : BOOLEAN, control : BOOLEAN]
      /\ ready'.sockets \subseteq ready.sockets
  BY <1>1, <1>2 DEF LoopTyped
<1>7. pc' \in {"failed", "top", "dispatch"}  BY <1>2, NextEventTyped
<1>8. LoopTyped' /\ AnswersKept'
  BY <1>1, <1>3, <1>6, <1>7 DEF LoopTyped, Places, AnswersKept
<1>9. listener \in [waiting : Nat, came : Nat, armed : BOOLEAN]  BY <1>1 DEF CountTyped
<1> QED
  BY <1>1, <1>3, <1>5, <1>6, <1>8, <1>9, FollowsHolders, HarmlessKeeps DEF Harmless

LEMMA DispatchControlKeeps == ASSUME IInv, DispatchControl PROVE IInv'
<1>1. LoopTyped /\ CountTyped /\ Typed(w)  BY LoopTypes
<1>2. /\ ready' = [ready EXCEPT !.control = FALSE]
      /\ work' = Collect(w, dns.results, 1)
      /\ pc' = "control" \/ pc' = NextEvent(ready')
      /\ w' = w /\ gens' = gens /\ listener' = listener /\ dns' = dns
      /\ accepted' = accepted /\ stop' = stop
  BY DEF DispatchControl
<1>3. dns.results \in SUBSET Result  BY <1>1 DEF LoopTyped
<1>4. work' = {r.id : r \in dns.results} /\ work' \subseteq Ids
  <2>1. work' \subseteq Ids  BY <1>1, <1>2, <1>3, CollectTyped
  <2>2. work' = {r.id : r \in dns.results}  BY <1>2 DEF Collect
  <2> QED  BY <2>1, <2>2
<1>5. /\ ready' \in [sockets : SUBSET SocketEvent, listener : BOOLEAN, control : BOOLEAN]
      /\ ready'.sockets = ready.sockets
  BY <1>1, <1>2 DEF LoopTyped
<1>6. pc' \in {"control", "top", "dispatch"}  BY <1>2, NextEventTyped
<1>7. LoopTyped'  BY <1>1, <1>2, <1>4, <1>5, <1>6 DEF LoopTyped, Places
<1>8. AnswersKept'  BY <1>2, <1>4 DEF AnswersKept
<1>9. listener \in [waiting : Nat, came : Nat, armed : BOOLEAN]  BY <1>1 DEF CountTyped
<1>10. Follows(w, w')  BY <1>1, <1>2, FollowsReflexive
<1> QED
  BY <1>1, <1>2, <1>5, <1>7, <1>8, <1>9, <1>10, FollowsHolders, HarmlessKeeps DEF Harmless

\* Serving an answer takes it off the queue and leaves the others.
LEMMA AnsweredKeeps ==
  ASSUME LoopTyped, NEW id, NEW i
  PROVE  /\ Answered(i, id) \in [running : SUBSET Task, results : SUBSET Result, wake : BOOLEAN]
         /\ Answered(i, id).running = dns.running /\ Answered(i, id).results \subseteq dns.results
         /\ \A r \in dns.results : r.id # id => r \in Answered(i, id).results
<1>1. dns \in [running : SUBSET Task, results : SUBSET Result, wake : BOOLEAN]  BY DEF LoopTyped
<1> QED  BY <1>1 DEF Answered

LEMMA ResultForTyped ==
  ASSUME LoopTyped, AnswersKept, pc \in {"dns results", "control"}, NEW id \in work
  PROVE  ResultFor(id) \in Result
<1>1. \E r \in dns.results : r.id = id  BY DEF AnswersKept
<1>2. dns.results \in SUBSET Result  BY DEF LoopTyped
<1> QED  BY <1>1, <1>2 DEF ResultFor

LEMMA ServeControlKeeps == ASSUME IInv, ServeControl PROVE IInv'
<1>1. LoopTyped /\ CountTyped /\ Typed(w)  BY LoopTypes
<1>2. PICK id \in work, ok \in Outcomes :
        /\ w' = finish_resolution(w, ResultFor(id), ok)
        /\ dns' = Answered(1, id)
        /\ work' = work \ {id}
        /\ pc' = pc \/ pc' = NextEvent(ready)
  BY DEF ServeControl
<1>3. /\ pc = "control" /\ gens' = gens /\ ready' = ready /\ listener' = listener
      /\ accepted' = accepted /\ stop' = stop
  BY DEF ServeControl
<1>4. ResultFor(id) \in Result  BY <1>1, <1>3, ResultForTyped DEF IInv
<1>5. Follows(w, w')  BY <1>1, <1>2, <1>4, FinishResolutionFollows
<1>6. pc' \in {"control", "top", "dispatch"}  BY <1>2, <1>3, NextEventTyped
<1>7. /\ dns' \in [running : SUBSET Task, results : SUBSET Result, wake : BOOLEAN]
      /\ dns'.running = dns.running /\ dns'.results \subseteq dns.results
      /\ \A r \in dns.results : r.id # id => r \in dns'.results
  BY <1>1, <1>2, AnsweredKeeps
<1>8. LoopTyped'  BY <1>1, <1>2, <1>3, <1>6, <1>7 DEF LoopTyped, Places
<1>9. AnswersKept'
  <2>1. \A x \in work : \E r \in dns.results : r.id = x  BY <1>3 DEF IInv, AnswersKept
  <2>2. \A x \in work' : \E r \in dns'.results : r.id = x  BY <1>2, <1>7, <2>1
  <2> QED  BY <2>2 DEF AnswersKept
<1>10. listener \in [waiting : Nat, came : Nat, armed : BOOLEAN]  BY <1>1 DEF CountTyped
<1>11. dns'.running \cup dns'.results \subseteq dns.running \cup dns.results  BY <1>7
<1> QED
  BY <1>1, <1>3, <1>5, <1>8, <1>9, <1>10, <1>11, FollowsHolders, HarmlessKeeps DEF Harmless

LEMMA DispatchListenerKeeps == ASSUME IInv, DispatchListener PROVE IInv'
<1>1. LoopTyped /\ CountTyped /\ Typed(w)  BY LoopTypes
<1>2. /\ ready' = [ready EXCEPT !.listener = FALSE]
      /\ pc' = "accept" \/ pc' = NextEvent(ready')
      /\ w' = w /\ gens' = gens /\ work' = work /\ listener' = listener /\ dns' = dns
      /\ accepted' = accepted /\ stop' = stop
  BY DEF DispatchListener
<1>3. /\ ready' \in [sockets : SUBSET SocketEvent, listener : BOOLEAN, control : BOOLEAN]
      /\ ready'.sockets = ready.sockets
  BY <1>1, <1>2 DEF LoopTyped
<1>4. pc' \in {"accept", "top", "dispatch"}  BY <1>2, NextEventTyped
<1>5. LoopTyped' /\ AnswersKept'
  BY <1>1, <1>2, <1>3, <1>4 DEF LoopTyped, Places, AnswersKept
<1>6. listener \in [waiting : Nat, came : Nat, armed : BOOLEAN]  BY <1>1 DEF CountTyped
<1>7. Follows(w, w')  BY <1>1, <1>2, FollowsReflexive
<1> QED  BY <1>1, <1>2, <1>3, <1>5, <1>6, <1>7, FollowsHolders, HarmlessKeeps DEF Harmless

LEMMA AcceptDoneKeeps == ASSUME IInv, AcceptDone PROVE IInv'
<1>1. LoopTyped /\ CountTyped /\ Typed(w)  BY LoopTypes
<1>2. /\ pc' = NextEvent(ready)
      /\ w' = w /\ gens' = gens /\ work' = work /\ ready' = ready /\ listener' = listener
      /\ dns' = dns /\ accepted' = accepted /\ stop' = stop
  BY DEF AcceptDone
<1>3. pc' \in {"top", "dispatch"}  BY <1>2, NextEventTyped
<1>4. LoopTyped' /\ AnswersKept'  BY <1>1, <1>2, <1>3 DEF LoopTyped, Places, AnswersKept
<1>5. listener \in [waiting : Nat, came : Nat, armed : BOOLEAN]  BY <1>1 DEF CountTyped
<1>6. Follows(w, w')  BY <1>1, <1>2, FollowsReflexive
<1> QED  BY <1>1, <1>2, <1>4, <1>5, <1>6, FollowsHolders, HarmlessKeeps DEF Harmless

LEMMA HandleFollows ==
  ASSUME NEW i \in 1 .. 8, NEW ws, NEW id \in Ids, NEW ok, Typed(ws),
         i = 1 => ResultFor(id) \in Result
  PROVE  Follows(ws, Handle(i, ws, id, ok))
<1>1. CASE i = 1
  <2>1. Follows(ws, finish_resolution(ws, ResultFor(id), ok))
    BY <1>1, FinishResolutionFollows
  <2> QED  BY <1>1, <2>1 DEF Handle
<1>2. /\ Follows(ws, fail_resolution(ws, id, ok)) /\ Follows(ws, fail_proxy(ws, id, ok))
      /\ Follows(ws, remove_connection(ws, id)) /\ Follows(ws, advance_static_stream(ws, id, ok))
  BY FailResolutionFollows, FailProxyFollows, RemoveFollows, AdvanceFollows
<1>3. /\ Follows(ws, write_ready(ws, id, ok)) /\ Follows(ws, write_upstream_request(ws, id, ok))
      /\ Follows(ws, read_upstream_response(ws, id, ok))
  BY WriteReadyFollows, WriteUpstreamFollows, ReadUpstreamFollows
<1>4. CASE i # 1  BY <1>2, <1>3, <1>4 DEF Handle
<1> QED  BY <1>1, <1>4

LEMMA ServeKeeps == ASSUME IInv, NEW i \in 1 .. 8, Serve(i) PROVE IInv'
<1>1. LoopTyped /\ CountTyped /\ Typed(w)  BY LoopTypes
<1>2. PICK id \in work, ok \in Outcomes :
        LET next == Handle(i, w, id, ok)
        IN  /\ dns' = Answered(i, id)
            /\ CASE next.failed -> w' = next /\ pc' = "failed" /\ work' = {}
                 [] ~next.failed /\ work = {id} -> EnterStage(next, dns'.results, i + 1)
                 [] OTHER -> w' = next /\ pc' = pc /\ work' = work \ {id}
  BY DEF Serve
<1> DEFINE next == Handle(i, w, id, ok)
<1>3. /\ dns' = Answered(i, id)
      /\ \/ w' = next /\ pc' = "failed" /\ work' = {}
         \/ EnterStage(next, dns'.results, i + 1)
         \/ w' = next /\ pc' = pc /\ work' = work \ {id}
  BY <1>2
<1>4. /\ pc = StageName(i) /\ gens' = gens /\ ready' = ready /\ listener' = listener
      /\ accepted' = accepted /\ stop' = stop
  BY DEF Serve
<1>5. id \in Ids  BY <1>1 DEF LoopTyped
<1>6. i = 1 => ResultFor(id) \in Result
  <2>0. StageName(1) = "dns results"  BY DEF StageName
  <2>1. i = 1 => pc = "dns results"  BY <1>4, <2>0
  <2> QED  BY <1>1, <2>1, ResultForTyped DEF IInv
<1>7. Follows(w, next) /\ Typed(next)  BY <1>1, <1>5, <1>6, HandleFollows DEF Follows
<1> HIDE DEF next
<1>8. /\ dns' \in [running : SUBSET Task, results : SUBSET Result, wake : BOOLEAN]
      /\ dns'.running = dns.running /\ dns'.results \subseteq dns.results
      /\ \A r \in dns.results : r.id # id => r \in dns'.results
  BY <1>1, <1>3, AnsweredKeeps
<1>9. /\ Follows(next, w') /\ pc' \in Places /\ work' \subseteq Ids /\ AnswersKept'
  <2>1. CASE w' = next /\ pc' = "failed" /\ work' = {}
    BY <1>7, <2>1, FollowsReflexive DEF Places, AnswersKept
  <2>2. CASE EnterStage(next, dns'.results, i + 1)
    <3>1. i + 1 \in 1 .. 9 /\ dns'.results \in SUBSET Result  BY <1>8
    <3>2. /\ Follows(next, w') /\ pc' \in Places /\ pc' # "control" /\ work' \subseteq Ids
          /\ pc' = "dns results" => work' = {r.id : r \in dns'.results}
      BY <1>7, <2>2, <3>1, EnterStageFollows
    <3> QED  BY <3>2 DEF AnswersKept
  <2>3. CASE w' = next /\ pc' = pc /\ work' = work \ {id}
    <3>1. AnswersKept'
      <4>1. pc \in {"dns results", "control"} => \A x \in work : \E r \in dns.results : r.id = x
        BY DEF IInv, AnswersKept
      <4>2. pc' \in {"dns results", "control"} => \A x \in work' : \E r \in dns'.results : r.id = x
        BY <1>8, <2>3, <4>1
      <4> QED  BY <4>2 DEF AnswersKept
    <3> QED  BY <1>1, <1>7, <2>3, <3>1, FollowsReflexive DEF LoopTyped
  <2> QED  BY <1>3, <2>1, <2>2, <2>3
<1>10. Follows(w, w')  BY <1>1, <1>7, <1>9, FollowsTransitive
<1>11. LoopTyped'  BY <1>1, <1>4, <1>8, <1>9 DEF LoopTyped
<1>12. listener \in [waiting : Nat, came : Nat, armed : BOOLEAN]  BY <1>1 DEF CountTyped
<1>13. dns'.running \cup dns'.results \subseteq dns.running \cup dns.results  BY <1>8
<1> QED
  BY <1>1, <1>4, <1>9, <1>10, <1>11, <1>12, <1>13, FollowsHolders, HarmlessKeeps DEF Harmless

LEMMA NewConnectionTyped ==
  ASSUME NEW gen \in 1 .. GenMax, NEW cid \in Nat, NEW req \in Requests
  PROVE  LET c == NewConnection(gen, cid, req)
         IN  /\ TypedConn(c) /\ c.gen = gen /\ c.cid = cid /\ c.phase = "Reading"
<1> DEFINE k == Register([NoSocket EXCEPT !.space = SendBuf], {"R"})
           c == NewConnection(gen, cid, req)
<1>1. [NoSocket EXCEPT !.space = SendBuf] \in Socket
  BY NoSocketTyped, SizeAssumption DEF Socket
<1>2. k \in Socket  BY <1>1, RegisterTyped
<1>3. c = [Vacant EXCEPT !.phase = "Reading", !.gen = gen, !.cid = cid, !.req = req, !.sock = k]
  BY DEF NewConnection
<1> HIDE DEF k
<1>4. req \in Request  BY RequestAssumption DEF Request
<1>5. Vacant \in Connection /\ Vacant.off <= Vacant.len  BY VacantTyped DEF TypedConn
<1>6. c \in Connection  BY <1>2, <1>3, <1>4, <1>5 DEF Connection, Phases
<1>7. c.off = Vacant.off /\ c.len = Vacant.len  BY <1>3, <1>5 DEF Connection
<1>8. c.gen = gen /\ c.cid = cid /\ c.phase = "Reading"  BY <1>3, <1>5 DEF Connection
<1> QED  BY <1>5, <1>6, <1>7, <1>8 DEF TypedConn

LEMMA ExpectedTyped == ASSUME NEW req \in Requests PROVE Expected(req) \in Nat
<1>1. Chunks * ChunkLen \in Nat  BY SizeAssumption
<1> QED  BY <1>1, ResponseLenTyped, SizeAssumption DEF Expected

\* A new occupant is younger than every id in flight for its slot.
LEMMA AcceptOneKeeps == ASSUME IInv, AcceptOne PROVE IInv'
<1>1. LoopTyped /\ CountTyped /\ Typed(w)  BY LoopTypes
<1>2. /\ listener' = [listener EXCEPT !.waiting = @ - 1] /\ listener.waiting > 0
      /\ pc' = pc /\ work' = work /\ ready' = ready /\ dns' = dns /\ stop' = stop
  BY DEF AcceptOne
<1>3. LoopTyped' /\ AnswersKept'  BY <1>1, <1>2 DEF LoopTyped, AnswersKept, IInv
<1>4. /\ listener' \in [waiting : Nat, came : Nat, armed : BOOLEAN]
      /\ listener'.waiting = listener.waiting - 1 /\ listener'.came = listener.came
      /\ listener.waiting \in Nat /\ listener.came \in Nat
  BY <1>1, <1>2 DEF CountTyped
<1>5. /\ accepted + listener.waiting <= listener.came /\ listener.came <= MaxClients
      /\ \A s \in Slots : gens[s] <= accepted
      /\ accepted \in Nat /\ gens \in [Slots -> 0 .. GenMax]
  BY <1>1 DEF IInv, Counted, CountTyped
<1>6. CASE w' = w /\ gens' = gens /\ accepted' = accepted
  <2>1. TypeOK'  BY <1>1, <1>3, <1>4, <1>6 DEF TypeOK, LoopTyped, CountTyped, Typed
  <2>2. Counted'  BY <1>4, <1>5, <1>6 DEF Counted
  <2>3. Holders' = Holders  BY <1>2, <1>6 DEF Holders
  <2>4. Aged(w, gens)' /\ Named(w, gens, Holders)'
    BY <1>6, <2>3 DEF IInv, Aged, Named, is_current, ConnOf
  <2> QED  BY <1>3, <2>1, <2>2, <2>4 DEF IInv
<1>7. CASE ~(w' = w /\ gens' = gens /\ accepted' = accepted)
  <2>1. PICK s \in Slots \ Occupied(w), req \in Requests, ok \in Outcomes :
          LET gen == next_generation(gens[s])
              cid == accepted + 1
              c == NewConnection(gen, cid, req)
          IN  /\ gens' = [gens EXCEPT ![s] = gen]
              /\ accepted' = cid
              /\ w' = IF ok.client
                      THEN [w EXCEPT !.conns[s] = c, !.wire[cid].want = Expected(req)]
                      ELSE w
    BY <1>7 DEF AcceptOne
  <2> DEFINE gen == next_generation(gens[s])
             cid == accepted + 1
             c == NewConnection(gen, cid, req)
             line == [w.wire[cid] EXCEPT !.want = Expected(req)]
             wire == [w.wire EXCEPT ![cid] = line]
  <2>2. /\ gens' = [gens EXCEPT ![s] = gen] /\ accepted' = cid
        /\ \/ w' = [w EXCEPT !.conns = [w.conns EXCEPT ![s] = c], !.wire = wire]
           \/ w' = w
    BY <1>1, <2>1 DEF Typed, WorkerState
  <2>3. cid \in 1 .. MaxClients /\ cid \in Nat /\ cid = accepted + 1
    BY <1>4, <1>5, <1>2, SizeAssumption
  <2>4. gen = gens[s] + 1 /\ gen \in 1 .. GenMax /\ gens[s] \in Nat
    <3>1. gens[s] \in 0 .. GenMax /\ gens[s] <= accepted  BY <1>5
    <3>2. gens[s] < GenMax  BY <1>5, <2>3, <3>1, SizeAssumption
    <3> QED  BY <3>1, <3>2, SizeAssumption DEF next_generation
  <2> HIDE DEF gen, cid
  <2>5. TypedConn(c) /\ c.gen = gen /\ c.cid = cid /\ c.phase = "Reading"
    BY <2>3, <2>4, NewConnectionTyped
  <2> HIDE DEF c
  <2>6. wire \in [1 .. MaxClients -> Line]
    <3>1. w.wire \in [1 .. MaxClients -> Line] /\ Expected(req) \in Nat
      BY <1>1, ExpectedTyped DEF Typed, WorkerState
    <3>2. w.wire[cid] \in Line  BY <2>3, <3>1
    <3>3. line \in Line  BY <3>1, <3>2 DEF Line
    <3> HIDE DEF line
    <3> QED  BY <3>1, <3>3
  <2> HIDE DEF wire
  <2>7. /\ w' \in WorkerState /\ w'.tasks = w.tasks
        /\ w'.conns = w.conns \/ w'.conns = [w.conns EXCEPT ![s] = c]
    <3>1. w \in WorkerState  BY <1>1 DEF Typed
    <3>2. CASE w' = w  BY <3>1, <3>2
    <3>3. CASE w' = [w EXCEPT !.conns = [w.conns EXCEPT ![s] = c], !.wire = wire]
      <4>1. [w.conns EXCEPT ![s] = c] \in [Slots -> Connection]
        BY <2>5, <3>1 DEF WorkerState, TypedConn
      <4> QED  BY <2>6, <3>1, <3>3, <4>1 DEF WorkerState
    <3> QED  BY <2>2, <3>2, <3>3
  <2>8. w.conns \in [Slots -> Connection]  BY <1>1 DEF Typed, WorkerState
  <2>9. Typed(w')  BY <1>1, <2>5, <2>7, <2>8 DEF Typed, TypedConn
  <2>10. gens' \in [Slots -> 0 .. GenMax]  BY <1>5, <2>2, <2>4, SizeAssumption
  <2>11. TypeOK'
    BY <1>3, <1>4, <2>2, <2>3, <2>9, <2>10 DEF TypeOK, LoopTyped, Typed
  <2>12. Counted'
    <3>1. \A x \in Slots : gens'[x] <= accepted'  BY <1>5, <2>2, <2>3, <2>4
    <3>2. accepted' + listener'.waiting <= listener'.came  BY <1>4, <1>5, <2>2, <2>3
    <3> QED  BY <1>4, <1>5, <3>1, <3>2 DEF Counted
  <2>13. \A x \in Slots : gens'[x] \in Nat /\ gens[x] \in Nat /\ gens[x] <= gens'[x]
    BY <1>5, <2>2, <2>4, SizeAssumption
  <2>14. Aged(w, gens)'
    <3>1. ASSUME NEW x \in Slots, w'.conns[x].phase # "Vacant"
          PROVE  w'.conns[x].gen <= gens'[x]
      <4>1. CASE w'.conns[x] = w.conns[x]
        <5>1. w.conns[x].gen \in Nat /\ w.conns[x].gen <= gens[x]
          BY SMTT(60), <2>8, <3>1, <4>1, SizeAssumption DEF IInv, Aged, Connection
        <5> QED  BY <2>13, <4>1, <5>1
      <4>2. CASE w'.conns[x] # w.conns[x]
        <5>1. x = s /\ w'.conns[x] = c  BY <2>7, <2>8, <4>2
        <5> QED  BY <1>5, <2>2, <2>4, <2>5, <5>1
      <4> QED  BY <4>1, <4>2
    <3> QED  BY <3>1 DEF Aged
  <2>15. Named(w, gens, Holders)'
    <3>0. Holders' = Holders  BY <1>2, <2>7 DEF Holders
    <3>1. ASSUME NEW h \in Holders
          PROVE  /\ h.id.gen <= gens'[h.id.slot]
                 /\ is_current(w', h.id) => ConnOf(w', h.id).cid = h.cid
      <4>1. h.id.slot \in Slots /\ h.id.gen \in Nat
        BY <1>1, <3>1, HoldersTyped, SizeAssumption DEF Ids
      <4>2. /\ h.id.gen <= gens[h.id.slot]
            /\ is_current(w, h.id) => ConnOf(w, h.id).cid = h.cid
        BY <3>1 DEF IInv, Named
      <4>3. h.id.gen <= gens'[h.id.slot]  BY <2>13, <4>1, <4>2
      <4>4. CASE w'.conns[h.id.slot] = w.conns[h.id.slot]
        BY <4>2, <4>3, <4>4 DEF is_current, ConnOf
      <4>5. CASE w'.conns[h.id.slot] # w.conns[h.id.slot]
        <5>1. h.id.slot = s /\ w'.conns[h.id.slot] = c  BY <2>7, <2>8, <4>1, <4>5
        <5>2. c.gen # h.id.gen  BY <2>4, <2>5, <4>1, <4>2, <5>1
        <5> QED  BY <4>3, <5>1, <5>2 DEF is_current, ConnOf
      <4> QED  BY <4>4, <4>5
    <3> QED  BY <3>0, <3>1 DEF Named, is_current, ConnOf
  <2> QED  BY <1>3, <2>11, <2>12, <2>14, <2>15 DEF IInv
<1> QED  BY <1>6, <1>7

LEMMA WorkerKeeps == ASSUME IInv, Worker PROVE IInv'
<1>1. ASSUME NEW i \in 1 .. 8, Serve(i) PROVE IInv'  BY <1>1, ServeKeeps
<1>2. 1 \in 1 .. 8 /\ 2 \in 1 .. 8 /\ 3 \in 1 .. 8 /\ 4 \in 1 .. 8  OBVIOUS
<1>3. 5 \in 1 .. 8 /\ 6 \in 1 .. 8 /\ 7 \in 1 .. 8 /\ 8 \in 1 .. 8  OBVIOUS
<1> QED
  BY <1>1, <1>2, <1>3, TopKeeps, PollKeeps, DispatchSocketKeeps, DispatchControlKeeps,
     ServeControlKeeps, DispatchListenerKeeps, AcceptOneKeeps, AcceptDoneKeeps
  DEF Worker, ServeResults, ServeExpiredResolutions, ServeExpiredProxies, ServeIdle,
      ServeStreams, ServeWrites, ServeUpstreamWrites, ServeUpstreamReads

=============================================================================
