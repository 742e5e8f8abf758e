-------------------------- MODULE RequestPathProofs --------------------------
(***************************************************************************)
(* The safety properties of RequestPath, for every set of configurations   *)
(* and requests with any number of headers, for files of any size that     *)
(* change at any time.                                                     *)
(***************************************************************************)
EXTENDS RequestPath, RequestParts, FiniteSetTheorems

-----------------------------------------------------------------------------
(* Framing.                                                                  *)

\* The values of the Content-Lengths among the first k headers.
LengthsUpTo(headers, k) ==
  {headers[j].value : j \in {j \in 1 .. k : headers[j].name = "content-length"}}

\* What length may be after headers with these lengths.
Agreed(length, lengths) ==
  /\ length \in Offsets
  /\ length = Empty => lengths = {}
  /\ length \in Nat => lengths = {length}
  /\ length = Junk => Junk \in lengths \/ \E x, y \in lengths : x # y

LEMMA MergeAgrees ==
  ASSUME NEW length, NEW lengths, Agreed(length, lengths), NEW h \in Header
  PROVE  Agreed(Merge(length, h),
                IF h.name = "content-length" THEN lengths \cup {h.value} ELSE lengths)
<1>1. h.value \in Nat \cup {Junk}
  BY DEF Header
<1> USE DEF Agreed, Merge, Offsets, Empty, Junk
<1>2. CASE h.name # "content-length"
  BY <1>2
<1>3. CASE h.name = "content-length" /\ length = Junk
  BY <1>3
<1>4. CASE h.name = "content-length" /\ length = Empty
  BY <1>1, <1>4
<1>5. CASE h.name = "content-length" /\ length \in Nat /\ length = h.value
  BY <1>1, <1>5
<1>6. CASE h.name = "content-length" /\ length \in Nat /\ length # h.value
  BY <1>1, <1>6
<1> QED BY Zenon, <1>2, <1>3, <1>4, <1>5, <1>6

LEMMA ContentLength ==
  ASSUME NEW headers \in Seq(Header)
  PROVE  Agreed(content_length(headers), LengthsUpTo(headers, Len(headers)))
<1> DEFINE N == Len(headers)
           T == [x \in Offsets \X (1 .. N) |-> Merge(x[1], headers[x[2]])]
<1>1. N \in Nat /\ DOMAIN headers = 1 .. N /\ \A k \in 1 .. N : headers[k] \in Header
  OBVIOUS
<1>h. \A h \in Header : h.value \in Offsets
  BY DEF Header, Offsets
<1>2. \A v \in Offsets, k \in 1 .. N : Merge(v, headers[k]) \in Offsets
  BY <1>1, <1>h DEF Merge, Offsets
<1>3. /\ T \in [Offsets \X (1 .. N) -> Offsets]
      /\ \A v \in Offsets, k \in 1 .. N : T[<<v, k>>] = Merge(v, headers[k])
  BY <1>2
<1>4. PICK f : IsRecursive(f, Offsets, Empty, N, T)
  <2>1. Empty \in Offsets
    BY DEF Offsets
  <2> HIDE DEF T, N
  <2> QED BY Zenon, <1>1, <1>3, <2>1, Recursion
<1>5. f \in [0 .. N -> Offsets] /\ f[0] = Empty /\ \A k \in 1 .. N : f[k] = T[<<f[k - 1], k>>]
  BY Zenon, <1>4 DEF IsRecursive
<1> HIDE DEF T
<1> DEFINE Merged(s) ==
             s = [k \in 0 .. Len(headers) |-> IF k = 0 THEN Empty ELSE Merge(s[k - 1], headers[k])]
<1>6. Merged(f)
  <2>1. ASSUME NEW k \in 0 .. N, k # 0 PROVE f[k] = Merge(f[k - 1], headers[k])
    <3>1. k \in 1 .. N /\ k - 1 \in 0 .. N
      BY <1>1, <2>1
    <3>2. f[k - 1] \in Offsets
      BY <1>5, <3>1
    <3> QED BY Zenon, <1>3, <1>5, <3>1, <3>2
  <2>2. f = [k \in 0 .. N |-> f[k]]
    BY <1>5
  <2> QED BY <1>5, <2>1, <2>2
<1> DEFINE length == CHOOSE s : Merged(s)
<1>7. Merged(length)
  BY <1>6
<1>8. content_length(headers) = length[N]
  BY DEF content_length
<1> HIDE DEF length
<1>9. \A k \in 0 .. N : length[k] = IF k = 0 THEN Empty ELSE Merge(length[k - 1], headers[k])
  BY <1>7
<1> HIDE DEF Merged, N
<1>10. \A k \in 0 .. N : Agreed(length[k], LengthsUpTo(headers, k))
  <2> DEFINE Bad == {k \in 0 .. N : ~Agreed(length[k], LengthsUpTo(headers, k))}
  <2>1. SUFFICES ASSUME Bad # {} PROVE FALSE
    OBVIOUS
  <2>2. Bad \in SUBSET Nat
    BY <1>1
  <2>3. PICK k \in Bad : \A y \in Bad : k <= y
    <3> HIDE DEF Bad
    <3> QED BY <2>1, <2>2, LeastNumber
  <2>4. k \in 0 .. N /\ ~Agreed(length[k], LengthsUpTo(headers, k))
    BY <2>3
  <2>5. k # 0
    <3>1. LengthsUpTo(headers, 0) = {}
      BY DEF LengthsUpTo
    <3>2. length[0] = Empty
      BY <1>1, <1>9
    <3> QED BY <2>4, <3>1, <3>2 DEF Agreed, Offsets, Empty, Junk
  <2>6. k \in 1 .. N /\ k - 1 \in 0 .. N /\ ~(k <= k - 1)
    BY <1>1, <2>4, <2>5
  <2>7. Agreed(length[k - 1], LengthsUpTo(headers, k - 1))
    BY <2>3, <2>6
  <2>8. length[k] = Merge(length[k - 1], headers[k]) /\ headers[k] \in Header
    BY <1>1, <1>9, <2>4, <2>5, <2>6
  <2>9. LengthsUpTo(headers, k) =
          IF headers[k].name = "content-length"
          THEN LengthsUpTo(headers, k - 1) \cup {headers[k].value} ELSE LengthsUpTo(headers, k - 1)
    <3>1. \A j : j \in 1 .. k <=> j \in 1 .. k - 1 \/ j = k
      BY <1>1, <2>6
    <3> DEFINE J == 1 .. k
               I == 1 .. k - 1
    <3> HIDE DEF J, I
    <3>2. \A j : j \in J <=> j \in I \/ j = k
      BY <3>1 DEF J, I
    <3>3. {headers[j].value : j \in {j \in J : headers[j].name = "content-length"}} =
            IF headers[k].name = "content-length"
            THEN {headers[j].value : j \in {j \in I : headers[j].name = "content-length"}}
                   \cup {headers[k].value}
            ELSE {headers[j].value : j \in {j \in I : headers[j].name = "content-length"}}
      BY <3>2
    <3> QED BY <3>3 DEF LengthsUpTo, J, I
  <2> QED BY Zenon, <2>4, <2>7, <2>8, <2>9, MergeAgrees
<1> QED BY <1>1, <1>8, <1>10 DEF N

\* frame accepts exactly the requests BodyIsFramedOnce says.
LEMMA FramedOnce ==
  ASSUME NEW headers \in Seq(Header)
  PROVE  IsFramed(headers, frame(headers))
<1> DEFINE N == Len(headers)
           length == content_length(headers)
           lengths == Lengths(headers)
           n == Max({0} \cup lengths)
<1>1. N \in Nat /\ DOMAIN headers = 1 .. N
  OBVIOUS
<1>2. lengths = LengthsUpTo(headers, N)
  <2>1. Range(headers) = {headers[j] : j \in 1 .. N}
    BY <1>1 DEF Range
  <2> QED BY <2>1 DEF Lengths, LengthsUpTo
<1>3. Agreed(length, lengths)
  BY <1>2, ContentLength
<1>4. Plain(headers) <=> ~\E i \in DOMAIN headers : headers[i].name = "transfer-encoding"
  BY DEF Plain, Range
<1>5. IsFiniteSet(lengths)
  <2> DEFINE F == [j \in 1 .. N |-> headers[j].value]
             V == {headers[j].value : j \in 1 .. N}
  <2>1. IsFiniteSet(1 .. N)
    BY <1>1, FS_Interval
  <2>2. IsFiniteSet(V)
    <3>1. F \in Surjection(1 .. N, V)
      BY DEF Surjection
    <3> HIDE DEF F, V
    <3> QED BY <2>1, <3>1, FS_Surjection
  <2>3. lengths \subseteq V
    BY <1>2 DEF LengthsUpTo
  <2> HIDE DEF V, lengths
  <2> QED BY <2>2, <2>3, FS_Subset
<1>n. ASSUME NEW f
      PROVE  IsFramed(headers, f) <=>
               IF /\ Plain(headers) /\ Cardinality(lengths) <= 1 /\ Junk \notin lengths
                  /\ HeadLen + n <= MaxRead
               THEN f = [status |-> 0, end |-> HeadLen + n]
               ELSE f.status \in {400, 413, 501}
  BY DEF IsFramed, Unambiguous, BodyEnd
<1> HIDE DEF length, lengths, N
<1>6. CASE length = Empty
  <2>1. lengths = {}
    BY <1>3, <1>6 DEF Agreed
  <2>2. Cardinality(lengths) = 0
    BY <2>1, FS_EmptySet
  <2>3. Max({0}) = 0 /\ {0} \cup lengths = {0}
    BY <2>1 DEF Max
  <2>4. frame(headers) = IF ~Plain(headers) THEN Refused(501)
                         ELSE IF HeadLen >= Modulus \/ HeadLen > MaxRead THEN Refused(413)
                         ELSE [status |-> 0, end |-> HeadLen]
    BY <1>4, <1>6, RequestPathAssumption DEF frame, length, Empty, Junk
  <2> QED BY <1>n, <2>1, <2>2, <2>3, <2>4, RequestPathAssumption, ModulusAssumption DEF Refused
<1>7. CASE length \in Nat
  <2>1. lengths = {length} /\ Junk \notin lengths
    BY <1>3, <1>7 DEF Agreed, Junk
  <2>2. Cardinality(lengths) = 1
    BY Zenon, <2>1, FS_Singleton
  <2>3. Max({0} \cup lengths) = length
    <3> DEFINE S == {0} \cup lengths
    <3>1. S \in SUBSET (0 .. length) /\ length \in S /\ \A x \in S : x = 0 \/ x = length
      BY <1>7, <2>1
    <3> HIDE DEF S
    <3>2. Max(S) \in S /\ length <= Max(S)
      BY Zenon, <1>7, <3>1, MaxOf
    <3>3. Max(S) = 0 \/ Max(S) = length
      BY Zenon, <3>1, <3>2
    <3>4. Max(S) = length
      BY <1>7, <3>2, <3>3
    <3> QED BY <3>4 DEF S
  <2>4. frame(headers) = IF ~Plain(headers) THEN Refused(501)
                         ELSE IF HeadLen + length >= Modulus \/ HeadLen + length > MaxRead
                           THEN Refused(413)
                         ELSE [status |-> 0, end |-> HeadLen + length]
    BY <1>4, <1>7 DEF frame, length, Empty, Junk
  <2> HIDE DEF n
  <2>5. n = length
    BY <2>3 DEF n
  <2>6. HeadLen + length >= Modulus => HeadLen + length > MaxRead
    BY <1>7, RequestPathAssumption, ModulusAssumption
  <2>7. HeadLen + length <= MaxRead <=> ~(HeadLen + length > MaxRead)
    BY <1>7, RequestPathAssumption
  <2>8. Cardinality(lengths) <= 1
    BY <2>2
  <2> QED BY <1>n, <2>1, <2>4, <2>5, <2>6, <2>7, <2>8 DEF Refused
<1>8. CASE length = Junk
  <2>1. frame(headers) = IF ~Plain(headers) THEN Refused(501) ELSE Refused(400)
    BY <1>4, <1>8 DEF frame, length
  <2>2. Junk \in lengths \/ ~(Cardinality(lengths) <= 1)
    <3>1. SUFFICES ASSUME NEW x \in lengths, NEW y \in lengths, x # y
                   PROVE  ~(Cardinality(lengths) <= 1)
      BY <1>3, <1>8 DEF Agreed
    <3>2. /\ IsFiniteSet(lengths \ {x}) /\ Cardinality(lengths \ {x}) = Cardinality(lengths) - 1
          /\ Cardinality(lengths) \in Nat
      BY <1>5, <3>1, FS_RemoveElement, FS_CardinalityType
    <3>3. Cardinality(lengths \ {x}) \in Nat /\ Cardinality(lengths \ {x}) # 0
      <4>1. lengths \ {x} # {}
        BY <3>1
      <4> DEFINE R == lengths \ {x}
      <4> HIDE DEF R
      <4>2. Cardinality(R) \in Nat /\ (Cardinality(R) = 0 <=> R = {})
        BY <3>2, FS_CardinalityType, FS_EmptySet DEF R
      <4> QED BY <4>1, <4>2 DEF R
    <3> QED BY <3>2, <3>3
  <2> QED BY <1>n, <2>1, <2>2 DEF Refused
<1> QED BY <1>3, <1>6, <1>7, <1>8 DEF Agreed, Offsets

-----------------------------------------------------------------------------
(* All of it.                                                                *)

IInv ==
  /\ config \in Configs /\ IsConfig(config) /\ from_toml(config)
  /\ FileInv /\ RangeIsWhatWasAsked
  /\ Grouped /\ Unbound /\ RequestIsRouted
  /\ Counted /\ ValidatedRoutesGetAnUpstream
  /\ BodyIsFramedOnce

\* The inductive invariant holds initially...
LEMMA Starts ==
  ASSUME Init PROVE IInv
<1>1. /\ config \in Configs /\ IsConfig(config) /\ from_toml(config)
      /\ RoutingInit /\ BalancerInit
  BY RequestPathAssumption DEF Init
<1>2. FileInv
  <2>1. PICK sizes \in SUBSET (Gone .. MaxSize), n \in Nat : FileInit(sizes, n)
    BY FileStreamAssumption DEF Init, Gone
  <2> QED BY <2>1, FileStarts
<1>3. RangeIsWhatWasAsked
  BY DEF Init, FileInit, RangeIsWhatWasAsked
<1>4. Grouped
  <2>1. Len(servers) \in Nat
    BY <1>1, ServersTyped
  <2>2. next = 1 /\ groups = <<>>
    BY <1>1 DEF RoutingInit
  <2> QED BY <2>1, <2>2 DEF Grouped
<1>5. Unbound /\ RequestIsRouted /\ BodyIsFramedOnce
  BY Zenon, <1>1 DEF RoutingInit, Unbound, RequestIsRouted, HostSelectsServer,
                     ExactThenLongestPrefix, BodyIsFramedOnce
<1>6. Counted /\ ValidatedRoutesGetAnUpstream
  BY <1>1, CountedStarts
<1> QED BY <1>1, <1>2, <1>3, <1>4, <1>5, <1>6 DEF IInv

LEMMA FileUntouched ==
  ASSUME FileInv, RangeIsWhatWasAsked, UNCHANGED fileVars
  PROVE  (FileInv /\ RangeIsWhatWasAsked)'
<1>1. UNCHANGED <<path, fd, head, thread, chunks, receiver, body>>
  BY DEF fileVars
<1>2. FileTypes'
  BY Zenon, <1>1 DEF FileInv, FileTypes
<1>3. Unstarted' /\ BodyIsTheRange'
  BY <1>1 DEF FileInv, Unstarted, BodyIsTheRange
<1>4. Continues'
  BY <1>1 DEF FileInv, Continues
<1>5. RangeIsWhatWasAsked'
  BY <1>1 DEF RangeIsWhatWasAsked
<1> QED BY <1>2, <1>3, <1>4, <1>5 DEF FileInv

LEMMA BalancerUntouched ==
  ASSUME Counted, ValidatedRoutesGetAnUpstream, config' = config, UNCHANGED balancerVars
  PROVE  (Counted /\ ValidatedRoutesGetAnUpstream)'
<1>1. cursors' = cursors /\ served' = served /\ answers' = answers
  BY DEF balancerVars
<1>2. Counted'
  BY Zenon, <1>1, CountedNext DEF Counted
<1>3. ValidatedRoutesGetAnUpstream'
  BY <1>1 DEF ValidatedRoutesGetAnUpstream
<1> QED BY <1>2, <1>3

LEMMA RoutingUntouched ==
  ASSUME Grouped, Unbound, RequestIsRouted, BodyIsFramedOnce,
         UNCHANGED <<config, framed, routingVars>>
  PROVE  (Grouped /\ Unbound /\ RequestIsRouted /\ BodyIsFramedOnce)'
<1>1. UNCHANGED <<groups, next, request, chosen, framed>> /\ servers' = servers
  BY DEF routingVars, servers
<1>2. Grouped'
  BY <1>1 DEF Grouped
<1>3. Unbound' /\ BodyIsFramedOnce'
  BY <1>1 DEF Unbound, BodyIsFramedOnce
<1>4. HostSelectsServer'
  BY Zenon, <1>1 DEF RequestIsRouted, HostSelectsServer
<1>5. ExactThenLongestPrefix'
  BY Zenon, <1>1 DEF RequestIsRouted, ExactThenLongestPrefix
<1> QED BY <1>2, <1>3, <1>4, <1>5 DEF RequestIsRouted

LEMMA BindsKeeps ==
  ASSUME IInv, Binds PROVE IInv'
<1> USE DEF IInv
<1>1. /\ BindServer /\ UNCHANGED <<config, request, chosen, framed, balancerVars, fileVars>>
  BY DEF Binds, BindServer
<1>2. Grouped'
  BY <1>1, BindKeepsGroups
<1>3. /\ next \in DOMAIN servers /\ next' = next + 1 /\ servers' = servers
      /\ Len(servers) \in Nat /\ DOMAIN servers = 1 .. Len(servers)
  BY <1>1, ServersTyped DEF BindServer, servers
<1>4. request = NoRequest /\ chosen = NoChoice
  BY <1>3 DEF Unbound
<1>5. (Unbound /\ RequestIsRouted /\ BodyIsFramedOnce)'
  BY Zenon, <1>1, <1>4 DEF Unbound, RequestIsRouted, HostSelectsServer, ExactThenLongestPrefix,
                    BodyIsFramedOnce
<1>6. (FileInv /\ RangeIsWhatWasAsked)'
  BY <1>1, FileUntouched
<1>7. (Counted /\ ValidatedRoutesGetAnUpstream)'
  BY <1>1, BalancerUntouched
<1> QED BY <1>1, <1>2, <1>5, <1>6, <1>7

LEMMA RequestKeeps ==
  ASSUME IInv, Request PROVE IInv'
<1> USE DEF IInv
<1>1. PICK g \in DOMAIN groups, q \in Asks(config) :
        /\ Refuse(g, q) \/ prepare_response(g, q)
        /\ request' = [group |-> g, ask |-> q]
        /\ framed' = frame(q.headers)
  BY DEF Request
<1>2. next > Len(servers) /\ UNCHANGED <<config, groups, next>>
  BY DEF Request
<1>3. q \in Ask
  BY RequestPathAssumption
<1>4. q.headers \in Seq(Header)
  BY <1>3 DEF Ask
<1>5. servers' = servers /\ Len(servers) \in Nat /\ DOMAIN servers = 1 .. Len(servers)
      /\ next \in 1 .. Len(servers) + 1
  BY Zenon, <1>2, ServersTyped DEF servers, Grouped
<1>6. Grouped'
  BY Zenon, <1>2, <1>5 DEF Grouped
<1>7. Unbound'
  BY <1>2, <1>5 DEF Unbound
<1>8. IsFramed(q.headers, framed')
  BY <1>1, <1>4, FramedOnce
<1>9. ASSUME chosen' # NoChoice <=> framed'.status = 0 PROVE BodyIsFramedOnce'
  <2>1. request'.ask = q
    BY <1>1
  <2>2. BodyIsFramedOnce' = (request' # NoRequest => IsFramed(q.headers, framed')
                                                   /\ (chosen' # NoChoice <=> framed'.status = 0))
    BY Zenon, <2>1 DEF BodyIsFramedOnce
  <2> QED BY <1>8, <1>9, <2>2
<1>10. CASE Refuse(g, q)
  <2>1. framed'.status # 0 /\ chosen' = NoChoice /\ UNCHANGED <<balancerVars, fileVars>>
    BY <1>1, <1>10 DEF Refuse
  <2>2. BodyIsFramedOnce' /\ RequestIsRouted'
    BY Zenon, <1>9, <2>1 DEF RequestIsRouted, HostSelectsServer, ExactThenLongestPrefix
  <2>3. (FileInv /\ RangeIsWhatWasAsked)'
    BY <2>1, FileUntouched
  <2>4. (Counted /\ ValidatedRoutesGetAnUpstream)'
    BY <1>2, <2>1, BalancerUntouched
  <2> QED BY <1>2, <1>6, <1>7, <2>2, <2>3, <2>4
<1>11. CASE prepare_response(g, q)
  <2> DEFINE s == select_server(groups[g], q.host)
             l == route(servers[s].locations, q.target)
             kind == IF l = 0 THEN "response" ELSE Action(config, <<s, l>>).kind
  <2>1. /\ RequestIsRouted' /\ chosen'.server \in DOMAIN servers
        /\ chosen'.location \in 0 .. Len(servers[chosen'.server].locations)
        /\ chosen' # NoChoice
    <3>1. RoutesTo(g, q)
      BY <1>11 DEF prepare_response, RoutesTo
    <3>2. q.target \in Seq(STRING)
      BY <1>3 DEF Ask
    <3> QED BY Zenon, <1>1, <1>2, <3>1, <3>2, RouteFound
  <2>2. /\ framed'.status = 0 /\ chosen' = [server |-> s, location |-> l]
        /\ \/ kind = "response" /\ UNCHANGED <<balancerVars, fileVars>>
           \/ kind = "static" /\ Respond(q) /\ UNCHANGED balancerVars
           \/ kind = "proxy" /\ select(<<s, l>>) /\ UNCHANGED fileVars
    BY Zenon, <1>1, <1>11 DEF prepare_response
  <2> HIDE DEF s, l
  <2>3. s \in DOMAIN servers /\ l \in 0 .. Len(servers[s].locations)
    BY <2>1, <2>2
  <2>4. BodyIsFramedOnce'
    BY <1>9, <2>1, <2>2
  <2>5. CASE kind = "response" /\ UNCHANGED <<balancerVars, fileVars>>
    <3>1. (FileInv /\ RangeIsWhatWasAsked)'
      BY <2>5, FileUntouched
    <3>2. (Counted /\ ValidatedRoutesGetAnUpstream)'
      BY <1>2, <2>5, BalancerUntouched
    <3> QED BY <1>2, <1>6, <1>7, <2>1, <2>4, <3>1, <3>2
  <2>6. CASE kind = "static" /\ Respond(q) /\ UNCHANGED balancerVars
    <3>1. (FileInv /\ RangeIsWhatWasAsked)'
      <4>1. q.range \in RangeHeaders
        BY <1>3 DEF Ask
      <4> QED BY <2>6, <4>1, RespondKeeps, RespondRange
    <3>2. (Counted /\ ValidatedRoutesGetAnUpstream)'
      BY <1>2, <2>6, BalancerUntouched
    <3> QED BY <1>2, <1>6, <1>7, <2>1, <2>4, <3>1, <3>2
  <2>7. CASE kind = "proxy" /\ select(<<s, l>>) /\ UNCHANGED fileVars
    <3>1. (FileInv /\ RangeIsWhatWasAsked)'
      BY <2>7, FileUntouched
    <3>2. <<s, l>> \in Routes(config)
      <4>1. Len(servers[s].locations) \in Nat
            /\ DOMAIN servers[s].locations = 1 .. Len(servers[s].locations)
        <5> DEFINE L == [type : {"exact", "prefix"}, path : Seq(STRING),
                         action : [kind : {"response", "static"}] \cup Proxy]
        <5>1. servers[s].locations \in Seq(L)
          BY Zenon, <2>3, ServersTyped
        <5> HIDE DEF L
        <5> QED BY <5>1
      <4>2. l # 0 /\ Action(config, <<s, l>>).kind = "proxy"
        BY <2>7
      <4>3. l \in DOMAIN servers[s].locations
        BY <2>3, <4>1, <4>2
      <4> QED BY <2>3, <4>2, <4>3 DEF Routes, Action, servers
    <3>3. (Counted /\ ValidatedRoutesGetAnUpstream)'
      BY <1>2, <2>7, <3>2, SelectCounts, FixedCounts DEF select
    <3> QED BY <1>2, <1>6, <1>7, <2>1, <2>4, <3>1, <3>3
  <2> QED BY <2>2, <2>5, <2>6, <2>7
<1> QED BY <1>1, <1>10, <1>11

LEMMA TransfersKeeps ==
  ASSUME IInv, Transfers PROVE IInv'
<1> USE DEF IInv
<1>1. UNCHANGED <<config, framed, routingVars, balancerVars>>
  BY DEF Transfers
<1>2. FileInv'
  BY OpenKeeps, ReadKeeps, SendKeeps, SendErrorKeeps, TryNextKeeps, DropKeeps, FileChangesKeeps
     DEF Transfers, Thread
<1>3. head' = head
  BY Zenon DEF Transfers, Thread, Open, Read, Send, SendError, TryNext, Drop, FileChanges
<1>4. RangeIsWhatWasAsked'
  BY <1>3 DEF RangeIsWhatWasAsked
<1>5. (Counted /\ ValidatedRoutesGetAnUpstream)'
  BY <1>1, BalancerUntouched
<1>6. (Grouped /\ Unbound /\ RequestIsRouted /\ BodyIsFramedOnce)'
  BY <1>1, RoutingUntouched
<1> QED BY <1>1, <1>2, <1>4, <1>5, <1>6

\* The inductive invariant holds in every state.
THEOREM RequestPathSound == Spec => []IInv
<1>1. Init => IInv
  BY Starts
<1>2. IInv /\ [Next]_vars => IInv'
  <2>1. SUFFICES ASSUME IInv, [Next]_vars PROVE IInv'
    OBVIOUS
  <2>2. CASE UNCHANGED vars
    <3>1. UNCHANGED <<config, framed, routingVars, balancerVars, fileVars>>
      BY <2>2 DEF vars
    <3>2. (FileInv /\ RangeIsWhatWasAsked)'
      BY <2>1, <3>1, FileUntouched DEF IInv
    <3>3. (Counted /\ ValidatedRoutesGetAnUpstream)'
      BY <2>1, <3>1, BalancerUntouched DEF IInv
    <3>4. (Grouped /\ Unbound /\ RequestIsRouted /\ BodyIsFramedOnce)'
      BY <2>1, <3>1, RoutingUntouched DEF IInv
    <3> QED BY <2>1, <3>1, <3>2, <3>3, <3>4 DEF IInv
  <2> QED BY <2>1, <2>2, BindsKeeps, RequestKeeps, TransfersKeeps DEF Next
<1> QED BY <1>1, <1>2, PTL DEF Spec

\* parse_range, spawn_file_stream and advance_static_stream: whatever happens to the file
\* between fs::metadata, open and the reads, what is sent is a prefix of what the head
\* announced, and all of it if the stream ends without an error; for any chunk size.
THEOREM StreamExact == Spec => []BodyIsTheRange
<1>1. IInv => BodyIsTheRange
  BY DEF IInv, FileInv
<1> QED BY <1>1, RequestPathSound, PTL

\* A 206 announces exactly the bytes the Range header asks of the file, and a well-formed
\* Range is answered 416 only if it asks for none; for files of every size.
THEOREM RangeHonoured == Spec => []RangeIsWhatWasAsked
<1>1. IInv => RangeIsWhatWasAsked
  BY DEF IInv
<1> QED BY <1>1, RequestPathSound, PTL

\* bind_worker_listeners, select_server and route send a request to the server and the
\* location the configuration means; for any number of servers and locations.
THEOREM Routed == Spec => []RequestIsRouted
<1>1. IInv => RequestIsRouted
  BY DEF IInv
<1> QED BY <1>1, RequestPathSound, PTL

\* No route of a configuration that from_toml accepted gets an error or a blank URL from the
\* balancer.
THEOREM RoutesGetUpstreams == Spec => []ValidatedRoutesGetAnUpstream
<1>1. IInv => ValidatedRoutesGetAnUpstream
  BY DEF IInv
<1> QED BY <1>1, RequestPathSound, PTL

\* Every turn of a group's cursor gives each endpoint its weight, for any weights and any
\* interleaving of the routes that share the group, wrapping of the cursor included.
THEOREM SharesAreExact == Spec => []GroupShareIsExact
<1>1. IInv => GroupShareIsExact
  BY SharesExact DEF IInv
<1> QED BY <1>1, RequestPathSound, PTL

\* body_length: a request is acted on if and only if its framing is unambiguous and its body
\* fits; for any number of headers in any order.
THEOREM FramingUnambiguous == Spec => []BodyIsFramedOnce
<1>1. IInv => BodyIsFramedOnce
  BY DEF IInv
<1> QED BY <1>1, RequestPathSound, PTL

=============================================================================
