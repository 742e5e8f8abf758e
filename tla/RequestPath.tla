----------------------------- MODULE RequestPath -----------------------------
(***************************************************************************)
(* What a worker does with a request it has read, composed of the parts    *)
(* that decide: body_length frames it (run/slave/src/http.rs), select_server *)
(* and route find its action, and prepare_response takes it: a response, a *)
(* file streamed by a thread, or an upstream the balancer selects          *)
(* (run/slave/src/runtime/io_uring/worker.rs; the readiness worker does    *)
(* the same between its read and its write).                               *)
(***************************************************************************)
EXTENDS Routing, LoadBalancer, FileStream

CONSTANTS
  Configs,     \* configuration files
  Asks(_),     \* the requests clients send under a configuration
  Requests(_), \* bound: how many they send
  HeadLen,     \* bytes of a request's head
  MaxRead      \* max_read_buffer_size

\* A request, as parse_request_head leaves it; match says that If-None-Match is the ETag of
\* the file, and the value of a header is Junk if it is no usize.
Header == [name : STRING, value : Nat \cup {Junk}]
Ask ==
  [host : STRING, target : Seq(STRING), method : STRING, match : BOOLEAN,
   range : RangeHeaders, headers : Seq(Header)]

ASSUME RequestPathAssumption ==
  /\ HeadLen \in Nat /\ MaxRead \in Nat /\ MaxRead < Modulus
  /\ \A c \in Configs : IsConfig(c) /\ Asks(c) \subseteq Ask

VARIABLES
  left,        \* requests still to come
  framed       \* [status, end] of the last one: the refusal, or where its body ends

vars == <<config, left, framed, routingVars, balancerVars, fileVars>>

-----------------------------------------------------------------------------
(* Framing.                                                                  *)

Refused(status) == [status |-> status, end |-> 0]

\* content_length of the loop in body_length after one more header.
Merge(length, h) ==
  IF h.name # "content-length" \/ length = Junk THEN length
  ELSE IF length \in {Empty, h.value} THEN h.value ELSE Junk

content_length(headers) ==
  LET length[k \in 0 .. Len(headers)] ==
        IF k = 0 THEN Empty ELSE Merge(length[k - 1], headers[k])
  IN  length[Len(headers)]

\* Mutant: consumed + body_length wraps.
frame_wrapping(headers) ==
  LET length == content_length(headers)
      body_end == (HeadLen + (IF length = Empty THEN 0 ELSE length)) % Modulus
  IN  IF \E i \in DOMAIN headers : headers[i].name = "transfer-encoding" THEN Refused(501)
      ELSE IF length = Junk THEN Refused(400)
      ELSE IF body_end > MaxRead THEN Refused(413)
      ELSE [status |-> 0, end |-> body_end]

\* body_length, and the checks on the end of the body (checked_add, the read limit).
frame(headers) ==
  LET length == content_length(headers)
      body_end == HeadLen + (IF length = Empty THEN 0 ELSE length)
  IN  IF \E i \in DOMAIN headers : headers[i].name = "transfer-encoding" THEN Refused(501)
      ELSE IF length = Junk THEN Refused(400)
      ELSE IF body_end >= Modulus \/ body_end > MaxRead THEN Refused(413)
      ELSE [status |-> 0, end |-> body_end]

-----------------------------------------------------------------------------
(* The request of a connection of group g.                                   *)

\* queue_http_error.
Refuse(g, q) ==
  /\ frame(q.headers).status # 0
  /\ chosen' = NoChoice
  /\ UNCHANGED <<balancerVars, fileVars>>

\* prepare_response; route found nothing for location 0, a 404.
prepare_response(g, q) ==
  LET s == select_server(groups[g], q.host)
      l == route(servers[s].locations, q.target)
      kind == IF l = 0 THEN "response" ELSE Action(config, <<s, l>>).kind
  IN  /\ frame(q.headers).status = 0
      /\ chosen' = [server |-> s, location |-> l]
      /\ \/ kind = "response" /\ UNCHANGED <<balancerVars, fileVars>>
         \/ kind = "static" /\ Respond(q) /\ UNCHANGED balancerVars
         \/ kind = "proxy" /\ select(<<s, l>>) /\ UNCHANGED fileVars

\* The run loop starts when every listener is bound.
Request ==
  /\ next > Len(servers) /\ left > 0 /\ left' = left - 1
  /\ \E g \in DOMAIN groups, q \in Asks(config) :
       /\ Refuse(g, q) \/ prepare_response(g, q)
       /\ request' = [group |-> g, ask |-> q]
       /\ framed' = frame(q.headers)
  /\ UNCHANGED <<config, groups, next>>

-----------------------------------------------------------------------------
Static(c) ==
  \E s \in DOMAIN c.servers : \E l \in DOMAIN c.servers[s].locations :
    c.servers[s].locations[l].action.kind = "static"

Init ==
  /\ config \in Configs /\ from_toml(config)
  /\ framed = Refused(0) /\ left = Requests(config)
  /\ RoutingInit /\ BalancerInit
  /\ IF Static(config) THEN FileInit(Gone .. MaxSize, MaxChanges) ELSE FileInit({Gone}, 0)

Binds == BindServer /\ UNCHANGED <<left, framed, balancerVars, fileVars>>

Transfers ==
  (Thread \/ TryNext \/ Drop \/ FileChanges)
    /\ UNCHANGED <<config, left, framed, routingVars, balancerVars>>

Next == Binds \/ Request \/ Transfers

Spec == Init /\ [][Next]_vars

\* The thread is scheduled, and advance_static_stream is called again and again: by
\* the writable client on readiness, by pump_static_streams on the ring.
Rest == UNCHANGED <<config, left, framed, routingVars, balancerVars>>
FairSpec ==
  Spec /\ WF_vars(Thread /\ Rest) /\ WF_vars(TryNext /\ Rest)

-----------------------------------------------------------------------------
Lengths(headers) == {h.value : h \in {h \in Range(headers) : h.name = "content-length"}}
Plain(headers) == \A h \in Range(headers) : h.name # "transfer-encoding"
BodyEnd(headers) == HeadLen + Max({0} \cup Lengths(headers))
Unambiguous(headers) ==
  Plain(headers) /\ Cardinality(Lengths(headers)) <= 1 /\ Junk \notin Lengths(headers)

IsFramed(headers, f) ==
  IF Unambiguous(headers) /\ BodyEnd(headers) <= MaxRead
  THEN f = [status |-> 0, end |-> BodyEnd(headers)]
  ELSE f.status \in {400, 413, 501}

\* A request is acted on if and only if its framing is unambiguous: no
\* Transfer-Encoding, only Content-Lengths that are numbers and agree, and a body
\* that ends, without wrapping, within the read buffer; then its body has that length.
BodyIsFramedOnce ==
  request # NoRequest =>
    /\ IsFramed(request.ask.headers, framed)
    /\ chosen # NoChoice <=> framed.status = 0

=============================================================================
