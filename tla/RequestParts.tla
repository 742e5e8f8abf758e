---------------------------- MODULE RequestParts -----------------------------
(***************************************************************************)
(* What the parts of RequestPath keep.  Files: any size, any change at any *)
(* time, any chunk size.  Routing and the balancer: any configuration that *)
(* from_toml accepts, with any number of servers, locations and endpoints. *)
(***************************************************************************)
EXTENDS Routing, LoadBalancer, FileStream, WellFoundedInduction, TLAPS

LEMMA Appended ==
  ASSUME NEW S, NEW s \in Seq(S), NEW e \in S
  PROVE  /\ Append(s, e) \in Seq(S) /\ Len(s) \in Nat /\ DOMAIN s = 1 .. Len(s)
         /\ Len(Append(s, e)) = Len(s) + 1 /\ DOMAIN Append(s, e) = 1 .. Len(s) + 1
         /\ Append(s, e)[Len(s) + 1] = e
         /\ \A k \in DOMAIN s : Append(s, e)[k] = s[k]
OBVIOUS

-----------------------------------------------------------------------------
(* The file stream.                                                          *)

FileTypes ==
  /\ path \in Nat \cup {Gone} /\ fd \in Nat \cup {Gone}
  /\ head \in [status : Nat, start : Nat, length : Nat, stat : Nat \cup {Gone},
               range : RangeHeaders]
  /\ thread \in [pc : {"none", "open", "read", "send", "send error", "end"}, pos : Nat,
                 remaining : Nat]
  /\ receiver \in {"none", "open", "failed", "finished", "dropped"}
  /\ chunks \in Seq(Seq(Int)) /\ body \in Seq(Int)

\* A chunk read at some offset: consecutive bytes, at least one.
IsRun(c) == c # <<>> /\ c[1] \in Nat /\ \A i \in DOMAIN c : c[i] = c[1] + i - 1

\* The offset after a chunk.
After(c) == c[1] + Len(c)

\* Before the first response there is no stream.
Unstarted ==
  /\ receiver = "none" <=> thread.pc = "none"
  /\ receiver = "none" => chunks = <<>> /\ body = <<>>

\* While the stream is open, the chunks in the channel continue the body, each the one before
\* it and the thread the last of them; an error comes last, and the thread has ended.
Continues ==
  receiver = "open" =>
    /\ thread.pos + thread.remaining = head.start + head.length
    /\ thread.pc \in {"open", "read", "send"} => thread.remaining > 0
    /\ \A k \in DOMAIN chunks :
         \/ chunks[k] = <<Junk>> /\ k = Len(chunks) /\ thread.pc = "end"
         \/ /\ IsRun(chunks[k])
            /\ chunks[k][1] = IF k = 1 THEN head.start + Len(body) ELSE After(chunks[k - 1])
            /\ After(chunks[k]) <= head.start + head.length
            /\ k = Len(chunks) => thread.pos = After(chunks[k])
    /\ chunks = <<>> => thread.pos = head.start + Len(body)
    /\ thread.pc = "end" =>
         \/ thread.remaining = 0
         \/ chunks # <<>> /\ chunks[Len(chunks)] = <<Junk>>

FileInv == FileTypes /\ Unstarted /\ Continues /\ BodyIsTheRange

LEMMA FileStarts ==
  ASSUME NEW sizes, sizes \subseteq Gone .. MaxSize, NEW n, FileInit(sizes, n)
  PROVE  FileInv
<1> USE DEF FileTypes, Unstarted, Continues, BodyIsTheRange
<1>1. path \in Nat \cup {Gone}
  BY FileStreamAssumption DEF FileInit, Gone
<1>2. head \in [status : Nat, start : Nat, length : Nat, stat : Nat \cup {Gone},
                 range : RangeHeaders]
  BY DEF FileInit, NoRange, RangeHeaders
<1>3. /\ thread = [pc |-> "none", pos |-> 0, remaining |-> 0] /\ fd = Gone
      /\ head.length = 0 /\ receiver = "none" /\ chunks = <<>> /\ body = <<>>
  BY DEF FileInit
<1>4. FileTypes
  BY <1>1, <1>2, <1>3
<1> QED
  BY <1>3, <1>4 DEF FileInv

\* What parse_range returns lies within the file.
LEMMA RangeInFile ==
  ASSUME NEW r \in RangeHeaders, r # NoRange, NEW length \in Nat,
         NEW p, p = parse_range(r, length)
  PROVE  /\ p.status \in {206, 400, 416}
         /\ p.status = 206 => /\ p.start \in Nat /\ p.end \in Nat
                              /\ p.start <= p.end /\ p.end < length
<1> USE DEF parse_range, Bounded, Fails, Least, RangeHeaders, Offsets, NoRange, Empty, Junk
<1>1. CASE r.form = "dash"
  BY <1>1
<1>2. CASE r.form # "dash"
  BY <1>2
<1> QED BY <1>1, <1>2

\* The head that answers a request.
LEMMA HeadTyped ==
  ASSUME NEW q, q.range \in RangeHeaders, NEW size \in Nat \cup {Gone},
         NEW h, h = static_stream_response(q, size)
  PROVE  /\ h \in [status : Nat, start : Nat, length : Nat, stat : Nat \cup {Gone},
                   range : RangeHeaders]
         /\ h.status # 0 /\ h.range = q.range /\ h.stat = size
         /\ h.status \in {200, 206} => size # Gone
<1>1. q.range \in RangeHeaders
  OBVIOUS
<1> DEFINE p == parse_range(q.range, size)
<1>2. ASSUME size # Gone, q.range # NoRange
      PROVE  /\ p.status \in {206, 400, 416}
             /\ p.status = 206 => /\ p.start \in Nat /\ p.end \in Nat
                                  /\ p.start <= p.end /\ p.end < size
  BY <1>1, <1>2, RangeInFile DEF Gone
<1> HIDE DEF p
<1>3. CASE q.method \notin {"GET", "HEAD"} \/ size = Gone \/ q.match
  BY <1>1, <1>3 DEF static_stream_response, p
<1>4. CASE q.method \in {"GET", "HEAD"} /\ size # Gone /\ ~q.match /\ q.range = NoRange
  BY <1>1, <1>4 DEF static_stream_response, p, Gone
<1>5. CASE q.method \in {"GET", "HEAD"} /\ size # Gone /\ ~q.match /\ q.range # NoRange
  <2>1. h = IF p.status # 206
            THEN [status |-> p.status, start |-> 0, length |-> 0, stat |-> size, range |-> q.range]
            ELSE [status |-> 206, start |-> p.start,
                  length |-> IF size = 0 THEN 0 ELSE p.end - p.start + 1,
                  stat |-> size, range |-> q.range]
    BY <1>2, <1>5 DEF static_stream_response, p
  <2>2. p.status = 206 => p.end - p.start + 1 \in Nat
    BY <1>2, <1>5
  <2> QED BY <1>1, <1>2, <1>5, <2>1, <2>2
<1> QED BY <1>3, <1>4, <1>5

LEMMA RespondKeeps ==
  ASSUME FileInv, NEW q, q.range \in RangeHeaders, Respond(q)
  PROVE  FileInv'
<1> DEFINE h == static_stream_response(q, path)
<1>1. /\ h \in [status : Nat, start : Nat, length : Nat, stat : Nat \cup {Gone},
                range : RangeHeaders]
  <2>1. path \in Nat \cup {Gone}
    BY DEF FileInv, FileTypes
  <2> QED BY Zenon, <2>1, HeadTyped
<1> HIDE DEF h
<1>2. /\ thread.pc = "none" /\ head' = h /\ chunks' = chunks /\ body' = body
      /\ path' = path /\ fd' = fd
  BY DEF Respond, h
<1>3. /\ receiver = "none" /\ chunks = <<>> /\ body = <<>>
      /\ FileTypes /\ thread \in [pc : {"none"}, pos : Nat, remaining : Nat]
  BY Zenon, <1>2 DEF FileInv, Unstarted, FileTypes
<1>4. CASE UNCHANGED <<thread, receiver>>
  <2>1. FileTypes'
    BY Zenon, <1>1, <1>2, <1>3, <1>4 DEF FileTypes
  <2>2. Continues' /\ Unstarted' /\ BodyIsTheRange'
    BY <1>1, <1>2, <1>3, <1>4 DEF Unstarted, Continues, BodyIsTheRange
  <2> QED BY <2>1, <2>2 DEF FileInv
<1>5. CASE /\ h.length > 0
           /\ thread' = [pc |-> "open", pos |-> h.start, remaining |-> h.length]
           /\ receiver' = "open"
  <2>1. FileTypes'
    BY Zenon, <1>1, <1>2, <1>3, <1>5 DEF FileTypes
  <2>2. Continues' /\ Unstarted' /\ BodyIsTheRange'
    BY <1>1, <1>2, <1>3, <1>5 DEF Unstarted, Continues, BodyIsTheRange
  <2> QED BY <2>1, <2>2 DEF FileInv
<1> QED BY <1>4, <1>5 DEF Respond, Streams, h

\* The numbers of a stream.
LEMMA StreamNumbers ==
  ASSUME FileTypes
  PROVE  /\ thread.pos \in Nat /\ thread.remaining \in Nat
         /\ head.start \in Nat /\ head.length \in Nat
         /\ Len(body) \in Nat /\ Len(chunks) \in Nat
         /\ DOMAIN chunks = 1 .. Len(chunks) /\ DOMAIN body = 1 .. Len(body)
<1>1. thread.pos \in Nat /\ thread.remaining \in Nat
  BY Zenon DEF FileTypes
<1>2. head.start \in Nat /\ head.length \in Nat
  BY Zenon DEF FileTypes
<1>3. chunks \in Seq(Seq(Int)) /\ body \in Seq(Int)
  BY Zenon DEF FileTypes
<1>4. Len(chunks) \in Nat /\ DOMAIN chunks = 1 .. Len(chunks)
  BY <1>3
<1>5. Len(body) \in Nat /\ DOMAIN body = 1 .. Len(body)
  BY <1>3
<1> QED BY <1>1, <1>2, <1>4, <1>5

LEMMA OpenKeeps ==
  ASSUME FileInv, Open PROVE FileInv'
<1> USE DEF FileInv
<1>1. FileTypes' /\ thread'.pc \in {"read", "send error"} /\ thread.pc = "open"
      /\ thread'.pos = thread.pos /\ thread'.remaining = thread.remaining
  BY Zenon DEF FileTypes, Open, Fail
<1>2. UNCHANGED <<head, chunks, receiver, body>>
  BY DEF Open
<1> QED BY Zenon, <1>1, <1>2 DEF Unstarted, Continues, BodyIsTheRange

LEMMA ReadKeeps ==
  ASSUME FileInv, Read PROVE FileInv'
<1> USE DEF FileInv
<1>1. FileTypes' /\ thread'.pc \in {"send", "send error"} /\ thread.pc = "read"
      /\ thread'.pos = thread.pos /\ thread'.remaining = thread.remaining
  BY Zenon DEF FileTypes, Read, ReadExact, Fail
<1>2. UNCHANGED <<head, chunks, receiver, body>>
  BY DEF Read
<1> QED BY Zenon, <1>1, <1>2 DEF Unstarted, Continues, BodyIsTheRange

LEMMA SendKeeps ==
  ASSUME FileInv, Send PROVE FileInv'
<1> USE DEF FileInv
<1>1. /\ FileTypes /\ Unstarted /\ Continues /\ thread.pc = "send"
      /\ UNCHANGED <<path, fd, head, receiver, body>>
  BY DEF Send
<1> DEFINE m == Len(chunks)
<1>n. /\ thread.pos \in Nat /\ thread.remaining \in Nat
      /\ head.start \in Nat /\ head.length \in Nat
      /\ m \in Nat /\ DOMAIN chunks = 1 .. m
  BY <1>1, StreamNumbers
<1>2. CASE receiver = "open"
  <2> DEFINE n == ChunkLen
             c == [i \in 1 .. n |-> thread.pos + i - 1]
  <2>1. n \in Nat \ {0} /\ n <= thread.remaining
    BY <1>1, <1>2, <1>n, FileStreamAssumption DEF ChunkLen, Least, Continues
  <2>2. /\ chunks' = Append(chunks, c)
        /\ thread' = [pc |-> IF thread.remaining = n THEN "end" ELSE "read",
                      pos |-> thread.pos + n, remaining |-> thread.remaining - n]
    BY <1>2 DEF Send, Sent
  <2> HIDE DEF n
  <2>3. c \in Seq(Int) /\ Len(c) = n /\ IsRun(c) /\ c[1] = thread.pos
    <3>1. c \in Seq(Int) /\ Len(c) = n /\ DOMAIN c = 1 .. n
      BY <1>n, <2>1
    <3>2. \A i \in 1 .. n : c[i] = thread.pos + i - 1
      OBVIOUS
    <3>3. c[1] = thread.pos
      BY <1>n, <2>1, <3>2
    <3> HIDE DEF c
    <3>4. c # <<>>
      BY <2>1, <3>1
    <3> QED BY <1>n, <3>1, <3>2, <3>3, <3>4 DEF IsRun
  <2> HIDE DEF c
  <2>4. FileTypes'
    <3>1. chunks' \in Seq(Seq(Int))
      BY Zenon, <1>1, <2>2, <2>3, Appended DEF FileTypes
    <3>2. thread' \in [pc : {"read", "end"}, pos : Nat, remaining : Nat]
      BY <1>n, <2>1, <2>2
    <3> QED BY Zenon, <1>1, <3>1, <3>2 DEF FileTypes
  <2>5. Unstarted' /\ BodyIsTheRange'
    BY <1>1, <2>2 DEF Unstarted, BodyIsTheRange
  <2>6. /\ Len(chunks') = m + 1 /\ chunks'[m + 1] = c /\ DOMAIN chunks' = 1 .. m + 1
        /\ \A k \in DOMAIN chunks : chunks'[k] = chunks[k]
    <3>1. chunks \in Seq(Seq(Int))
      BY Zenon, <1>1 DEF FileTypes
    <3> QED BY <2>2, <2>3, <3>1, Appended
  <2> HIDE DEF m
  <2>7. ASSUME NEW k \in DOMAIN chunks'
        PROVE  /\ IsRun(chunks'[k])
               /\ chunks'[k][1] = IF k = 1 THEN head.start + Len(body) ELSE After(chunks'[k - 1])
               /\ After(chunks'[k]) <= head.start + head.length
               /\ k = Len(chunks') => thread'.pos = After(chunks'[k])
    <3>1. CASE k \in DOMAIN chunks
      <4>1. /\ IsRun(chunks[k])
            /\ chunks[k][1] = IF k = 1 THEN head.start + Len(body) ELSE After(chunks[k - 1])
            /\ After(chunks[k]) <= head.start + head.length
        BY <1>1, <1>2, <3>1 DEF Continues
      <4>2. k # 1 => k - 1 \in DOMAIN chunks
        BY <1>n, <3>1
      <4> QED BY <1>n, <2>6, <3>1, <4>1, <4>2
    <3>2. CASE k = m + 1
      <4>1. thread.pos = IF k = 1 THEN head.start + Len(body) ELSE After(chunks[k - 1])
        BY <1>1, <1>2, <1>n, <3>2 DEF Continues, m
      <4>2. chunks'[k] = c /\ (k # 1 => chunks'[k - 1] = chunks[k - 1])
        BY <2>6, <3>2, <1>n
      <4>3. After(c) = thread.pos + n /\ thread'.pos = thread.pos + n
        BY <2>2, <2>3 DEF After
      <4>4. thread.pos + thread.remaining = head.start + head.length
        BY <1>1, <1>2 DEF Continues
      <4>5. After(c) <= head.start + head.length
        BY <2>1, <4>3, <4>4, <1>n
      <4> QED BY <2>3, <4>1, <4>2, <4>3, <4>5
    <3> QED BY <1>n, <2>6, <3>1, <3>2
  <2>8. thread'.pos + thread'.remaining = head'.start + head'.length
    <3>1. /\ thread'.pos = thread.pos + n /\ thread'.remaining = thread.remaining - n
          /\ head' = head /\ thread.pos + thread.remaining = head.start + head.length
      BY <1>1, <1>2, <2>2 DEF Continues
    <3> QED BY <1>n, <2>1, <3>1
  <2>9. Continues'
    <3>1. /\ thread'.pc = "end" => thread'.remaining = 0
          /\ thread'.pc \in {"open", "read", "send"} => thread'.remaining > 0
      BY <1>n, <2>1, <2>2
    <3>2. chunks' # <<>>
      BY <1>n, <2>6
    <3> QED BY <1>1, <2>7, <2>8, <3>1, <3>2 DEF Continues
  <2> QED BY <2>4, <2>5, <2>9
<1>3. CASE receiver # "open"
  BY Zenon, <1>1, <1>3 DEF Send, FileTypes, Unstarted, Continues, BodyIsTheRange
<1> QED BY <1>2, <1>3

\* An error is no run of bytes.
LEMMA JunkIsNoRun ==
  ~IsRun(<<Junk>>) /\ <<Junk>> \in Seq(Int)
BY DEF IsRun, Junk

LEMMA SendErrorKeeps ==
  ASSUME FileInv, SendError PROVE FileInv'
<1> USE DEF FileInv
<1>1. /\ FileTypes /\ Unstarted /\ Continues /\ thread.pc = "send error"
      /\ UNCHANGED <<path, fd, head, receiver, body>>
      /\ thread' = [thread EXCEPT !.pc = "end"]
  BY Zenon DEF SendError
<1> DEFINE m == Len(chunks)
<1>2. /\ thread.pos \in Nat /\ thread.remaining \in Nat
      /\ m \in Nat /\ DOMAIN chunks = 1 .. m /\ chunks \in Seq(Seq(Int))
  BY Zenon, <1>1, StreamNumbers DEF FileTypes
<1>3. /\ thread'.pc = "end" /\ thread'.pos = thread.pos /\ thread'.remaining = thread.remaining
  BY Zenon, <1>1 DEF FileTypes
<1>4. CASE receiver = "open"
  <2>1. /\ Len(chunks') = m + 1 /\ chunks'[m + 1] = <<Junk>> /\ DOMAIN chunks' = 1 .. m + 1
        /\ \A k \in DOMAIN chunks : chunks'[k] = chunks[k]
        /\ chunks' \in Seq(Seq(Int))
    <3>1. chunks' = Append(chunks, <<Junk>>)
      BY Zenon, <1>4 DEF SendError
    <3> QED BY <1>2, <3>1, JunkIsNoRun, Appended
  <2> HIDE DEF m
  <2>2. FileTypes'
    BY Zenon, <1>1, <2>1 DEF FileTypes
  <2>3. ASSUME NEW k \in DOMAIN chunks', k # m + 1
        PROVE  /\ IsRun(chunks'[k])
               /\ chunks'[k][1] = IF k = 1 THEN head.start + Len(body) ELSE After(chunks'[k - 1])
               /\ After(chunks'[k]) <= head.start + head.length
    <3>1. k \in DOMAIN chunks /\ (k # 1 => k - 1 \in DOMAIN chunks)
      BY <1>2, <2>1, <2>3
    <3>2. /\ IsRun(chunks[k])
          /\ chunks[k][1] = IF k = 1 THEN head.start + Len(body) ELSE After(chunks[k - 1])
          /\ After(chunks[k]) <= head.start + head.length
      BY Zenon, <1>1, <1>4, <3>1 DEF Continues
    <3> QED BY <2>1, <3>1, <3>2
  <2>4. chunks' # <<>> /\ chunks'[Len(chunks')] = <<Junk>>
    BY <1>2, <2>1
  <2>5. Continues'
    BY Zenon, <1>1, <1>3, <1>4, <2>1, <2>3, <2>4 DEF Continues
  <2> QED BY Zenon, <1>1, <1>3, <2>2, <2>5 DEF Unstarted, BodyIsTheRange
<1>5. CASE receiver # "open"
  BY Zenon, <1>1, <1>5 DEF SendError, FileTypes, Unstarted, Continues, BodyIsTheRange
<1> QED BY <1>4, <1>5

\* The first chunk goes to the body.
LEMMA DataKeeps ==
  ASSUME FileInv, receiver = "open", chunks # <<>>, Head(chunks) # <<Junk>>,
         body' = body \o Head(chunks), chunks' = Tail(chunks),
         UNCHANGED <<path, fd, head, thread, receiver>>
  PROVE  FileInv'
<1> USE DEF FileInv
<1> DEFINE m == Len(chunks)
           b == Len(body)
           c == chunks[1]
<1>1. /\ thread.pos \in Nat /\ thread.remaining \in Nat /\ head.start \in Nat /\ head.length \in Nat
      /\ m \in Nat /\ DOMAIN chunks = 1 .. m /\ b \in Nat /\ DOMAIN body = 1 .. b
  BY StreamNumbers
<1>s. chunks \in Seq(Seq(Int)) /\ body \in Seq(Int)
  BY Zenon DEF FileTypes
<1>h. Head(chunks) = c /\ c \in Seq(Int) /\ m # 0
  BY <1>s
<1>2. m >= 1 /\ 1 \in DOMAIN chunks
  BY <1>1, <1>h
<1>3. /\ IsRun(c) /\ c[1] = head.start + b /\ After(c) <= head.start + head.length
  BY <1>h, <1>2 DEF Continues
<1>t. chunks' \in Seq(Seq(Int)) /\ body' \in Seq(Int)
  BY <1>s, <1>h
<1>4. /\ Len(chunks') = m - 1 /\ DOMAIN chunks' = 1 .. m - 1
      /\ \A k \in 1 .. m - 1 : chunks'[k] = chunks[k + 1]
  BY <1>s, <1>h
<1>5. /\ Len(body') = b + Len(c) /\ DOMAIN body' = 1 .. b + Len(c)
      /\ \A i \in 1 .. b : body'[i] = body[i]
      /\ \A i \in b + 1 .. b + Len(c) : body'[i] = c[i - b]
      /\ Len(c) \in Nat /\ DOMAIN c = 1 .. Len(c)
  BY <1>s, <1>h
<1>6. FileTypes' /\ Unstarted'
  BY Zenon, <1>t DEF FileTypes, Unstarted
<1>7. Continues /\ BodyIsTheRange
  OBVIOUS
<1> HIDE DEF m, b, c
<1>8. BodyIsTheRange'
  <2>1. Len(body') <= head.length
    BY <1>1, <1>3, <1>5 DEF After
  <2>2. ASSUME NEW i \in 1 .. b + Len(c) PROVE body'[i] = head.start + i - 1
    <3>1. CASE i \in 1 .. b
      BY Zenon, <1>1, <1>5, <1>7, <3>1 DEF BodyIsTheRange
    <3>2. CASE i \in b + 1 .. b + Len(c)
      <4>1. i - b \in DOMAIN c
        BY <1>1, <1>5, <3>2
      <4>2. c[i - b] = c[1] + (i - b) - 1
        BY <1>3, <4>1 DEF IsRun
      <4>3. c[i - b] = head.start + i - 1
        BY <1>1, <1>3, <3>2, <4>2
      <4> QED BY <1>5, <3>2, <4>3
    <3> QED BY <1>1, <1>5, <3>1, <3>2
  <2> QED BY <1>5, <2>1, <2>2 DEF BodyIsTheRange
<1>9. Continues'
  <2>1. ASSUME NEW k \in DOMAIN chunks'
        PROVE  \/ chunks'[k] = <<Junk>> /\ k = Len(chunks') /\ thread.pc = "end"
               \/ /\ IsRun(chunks'[k])
                  /\ chunks'[k][1] = IF k = 1 THEN head.start + Len(body')
                                     ELSE After(chunks'[k - 1])
                  /\ After(chunks'[k]) <= head.start + head.length
                  /\ k = Len(chunks') => thread.pos = After(chunks'[k])
    <3>1. k \in 1 .. m - 1 /\ k + 1 \in DOMAIN chunks /\ (k + 1) - 1 = k /\ k + 1 # 1
          /\ (k = m - 1 <=> k + 1 = m)
      BY <1>1, <1>4
    <3>2. \/ chunks[k + 1] = <<Junk>> /\ k + 1 = m /\ thread.pc = "end"
          \/ /\ IsRun(chunks[k + 1])
             /\ chunks[k + 1][1] = After(chunks[k])
             /\ After(chunks[k + 1]) <= head.start + head.length
             /\ k + 1 = m => thread.pos = After(chunks[k + 1])
      BY Zenon, <1>7, <3>1 DEF Continues, m
    <3>3. After(chunks[k]) = IF k = 1 THEN head.start + Len(body') ELSE After(chunks'[k - 1])
      <4>1. CASE k = 1
        BY <1>1, <1>3, <1>5, <4>1 DEF After, c
      <4>2. CASE k # 1
        <5>1. k - 1 \in 1 .. m - 1 /\ (k - 1) + 1 = k
          BY <1>1, <3>1, <4>2
        <5> QED BY <1>4, <4>2, <5>1
      <4> QED BY <4>1, <4>2
    <3> QED BY Zenon, <1>4, <3>1, <3>2, <3>3
  <2>2. chunks' = <<>> => thread.pos = head.start + Len(body')
    <3>1. chunks' = <<>> => m = 1
      BY <1>1, <1>2, <1>4
    <3>2. m = 1 => thread.pos = After(c)
      BY <1>2, <1>3, <1>7, JunkIsNoRun DEF Continues, m, c
    <3>3. After(c) = head.start + (b + Len(c))
      BY <1>1, <1>3, <1>5 DEF After
    <3> QED BY <1>5, <3>1, <3>2, <3>3
  <2>3. thread.pc = "end" => \/ thread.remaining = 0
                             \/ chunks' # <<>> /\ chunks'[Len(chunks')] = <<Junk>>
    <3>1. thread.pc = "end" /\ thread.remaining # 0 => chunks[m] = <<Junk>>
      BY <1>7 DEF Continues, m
    <3>2. chunks[m] = <<Junk>> => m # 1
      BY <1>3, JunkIsNoRun DEF c
    <3>3. m # 1 => /\ m - 1 \in 1 .. m - 1 /\ (m - 1) + 1 = m /\ Len(chunks') # 0
      <4>1. m # 1 => m - 1 \in 1 .. m - 1 /\ (m - 1) + 1 = m /\ m - 1 # 0
        BY <1>1, <1>2
      <4> QED BY <1>4, <4>1
    <3>4. m # 1 => chunks'[Len(chunks')] = chunks[m] /\ chunks' # <<>>
      BY <1>4, <3>3
    <3> QED BY <3>1, <3>2, <3>4
  <2> QED BY Zenon, <1>7, <2>1, <2>2, <2>3 DEF Continues
<1> QED BY <1>6, <1>8, <1>9

LEMMA TryNextKeeps ==
  ASSUME FileInv, TryNext PROVE FileInv'
<1> USE DEF FileInv
<1>1. CASE chunks # <<>> /\ Head(chunks) # <<Junk>> /\ UNCHANGED receiver
           /\ body' = body \o Head(chunks) /\ chunks' = Tail(chunks)
  BY <1>1, DataKeeps DEF TryNext
<1>2. CASE chunks # <<>> /\ receiver' = "failed" /\ chunks' = Tail(chunks) /\ UNCHANGED body
  <2>1. chunks \in Seq(Seq(Int))
    BY Zenon DEF FileTypes
  <2>2. chunks' \in Seq(Seq(Int))
    BY <1>2, <2>1
  <2> QED BY Zenon, <1>2, <2>2 DEF TryNext, FileTypes, Unstarted, Continues, BodyIsTheRange
<1>3. CASE Disconnected /\ receiver' = "finished" /\ UNCHANGED <<chunks, body>>
  <2>1. /\ UNCHANGED <<path, fd, head, thread, chunks, body>> /\ receiver = "open"
        /\ chunks = <<>> /\ thread.pc = "end"
    BY <1>3 DEF TryNext, Disconnected
  <2>2. thread.remaining = 0 /\ thread.pos = head.start + Len(body)
        /\ thread.pos + thread.remaining = head.start + head.length
    BY <2>1 DEF Continues
  <2>3. Len(body) = head.length
    BY <2>2, StreamNumbers
  <2> QED BY ZenonT(30), <1>3, <2>1, <2>3 DEF FileTypes, Unstarted, Continues, BodyIsTheRange
<1> QED BY <1>1, <1>2, <1>3 DEF TryNext

LEMMA DropKeeps ==
  ASSUME FileInv, Drop PROVE FileInv'
BY Zenon DEF FileInv, Drop, FileTypes, Unstarted, Continues, BodyIsTheRange

LEMMA FileChangesKeeps ==
  ASSUME FileInv, FileChanges PROVE FileInv'
<1> USE DEF FileInv
<1>1. path' \in Nat \cup {Gone} /\ fd' \in Nat \cup {Gone}
  <2>1. path' \in Nat \cup {Gone} /\ fd' \in {fd, path'}
    BY FileStreamAssumption DEF FileChanges, Gone
  <2> QED BY Zenon, <2>1 DEF FileTypes
<1>2. UNCHANGED <<head, thread, chunks, receiver, body>>
  BY DEF FileChanges
<1> QED BY Zenon, <1>1, <1>2 DEF FileTypes, Unstarted, Continues, BodyIsTheRange

-----------------------------------------------------------------------------
(* The range that is announced.                                              *)

\* parse_range gives the bytes asked for, and 416 only if there are none.
LEMMA RangeExact ==
  ASSUME NEW r \in RangeHeaders, r # NoRange, NEW length \in Nat,
         NEW p, p = parse_range(r, length)
  PROVE  /\ p.status = 206 => p.start .. p.end = Asked(r, length) /\ Asked(r, length) # {}
         /\ p.status = 416 /\ WellFormed(r) => Asked(r, length) = {}
<1> USE DEF parse_range, Bounded, Fails, Least, Empty, Junk
<1>1. CASE r.form # "dash"
  BY <1>1 DEF RangeHeaders, NoRange, WellFormed
<1>2. CASE r.form = "dash"
  <2>1. r.start \in Offsets /\ r.end \in Offsets
    BY <1>2 DEF RangeHeaders
  <2>2. ASSUME p.status = 206
        PROVE  /\ \A i : i \in p.start .. p.end <=> i \in Asked(r, length)
               /\ p.start \in Asked(r, length)
    <3>1. CASE r.start = Empty
      BY <1>2, <2>1, <2>2, <3>1 DEF Asked, Offsets
    <3>2. CASE r.start # Empty
      BY <1>2, <2>1, <2>2, <3>2 DEF Asked, Offsets
    <3> QED BY <3>1, <3>2
  <2>3. ASSUME p.status = 416, WellFormed(r), NEW i \in Asked(r, length) PROVE FALSE
    <3>1. CASE r.start = Empty
      BY <1>2, <2>1, <2>3, <3>1 DEF Asked, Offsets, WellFormed
    <3>2. CASE r.start # Empty
      BY <1>2, <2>1, <2>3, <3>2 DEF Asked, Offsets, WellFormed
    <3> QED BY <3>1, <3>2
  <2> HIDE DEF parse_range
  <2>4. ASSUME p.status = 206 PROVE p.start .. p.end = Asked(r, length)
    <3> DEFINE S == p.start .. p.end
    <3>1. \A i : i \in S <=> i \in Asked(r, length)
      BY <2>2, <2>4
    <3> HIDE DEF S
    <3>2. S = Asked(r, length)
      BY <3>1
    <3> QED BY <3>2 DEF S
  <2> QED BY <2>2, <2>3, <2>4
<1> QED BY <1>1, <1>2

LEMMA RespondRange ==
  ASSUME FileInv, NEW q, q.range \in RangeHeaders, Respond(q)
  PROVE  RangeIsWhatWasAsked'
<1> DEFINE p == parse_range(q.range, path)
<1>1. path \in Nat \cup {Gone} /\ q.range \in RangeHeaders
  BY Zenon DEF FileInv, FileTypes
<1>2. head' = static_stream_response(q, path)
  BY DEF Respond
<1>3. /\ head'.range = q.range /\ head'.stat = path
  BY <1>1, <1>2, HeadTyped
<1>4. SUFFICES ASSUME q.range # NoRange, head'.status \in {206, 416}
               PROVE  IF head'.status = 206
                      THEN /\ head'.start .. head'.start + head'.length - 1 = Asked(q.range, path)
                           /\ Asked(q.range, path) # {}
                      ELSE WellFormed(q.range) => Asked(q.range, path) = {}
  BY <1>3 DEF RangeIsWhatWasAsked
<1>5. path \in Nat /\ p.status = head'.status
      /\ (p.status = 206 => head'.start = p.start
                            /\ head'.length = IF path = 0 THEN 0 ELSE p.end - p.start + 1)
  BY <1>1, <1>2, <1>4 DEF static_stream_response
<1> HIDE DEF p
<1>6. /\ p.status = 206 => p.start .. p.end = Asked(q.range, path) /\ Asked(q.range, path) # {}
      /\ p.status = 416 /\ WellFormed(q.range) => Asked(q.range, path) = {}
  BY <1>1, <1>4, <1>5, RangeExact DEF p
<1>7. p.status = 206 => /\ p.start \in Nat /\ p.end \in Nat /\ p.end < path
  BY <1>1, <1>4, <1>5, RangeInFile DEF p
<1>8. CASE p.status = 206
  <2>1. head'.start + head'.length - 1 = p.end
    BY <1>5, <1>7, <1>8
  <2> QED BY <1>5, <1>6, <1>8, <2>1
<1>9. CASE p.status # 206
  BY <1>4, <1>5, <1>6, <1>9
<1> QED BY <1>8, <1>9


-----------------------------------------------------------------------------
(* Least and greatest elements.                                              *)

LEMMA LeastNumber ==
  ASSUME NEW S \in SUBSET Nat, S # {}
  PROVE  \E x \in S : \A y \in S : x <= y
<1> DEFINE R == OpToRel(<, Nat)
<1>1. IsWellFoundedOn(R, Nat)
  BY Zenon, NatLessThanWellFounded
<1>2. \A x \in Nat, y \in Nat : y < x => <<y, x>> \in R
  BY DEF OpToRel
<1> HIDE DEF R
<1>3. PICK x \in S : \A y \in S : <<y, x>> \notin R
  BY Zenon, <1>1, WFMin
<1>4. ASSUME NEW y \in S PROVE x <= y
  <2>1. x \in Nat /\ y \in Nat /\ ~(y < x)
    BY Zenon, <1>2, <1>3
  <2> QED BY <2>1
<1> QED BY <1>4

LEMMA MinOf ==
  ASSUME NEW S \in SUBSET Nat, S # {}
  PROVE  /\ Min(S) \in S /\ \A y \in S : Min(S) <= y
         /\ \A x \in S : (\A y \in S : x <= y) => x = Min(S)
<1>1. Min(S) \in S /\ \A y \in S : Min(S) <= y
  BY Zenon, LeastNumber DEF Min
<1>2. ASSUME NEW x \in S, \A y \in S : x <= y PROVE x = Min(S)
  <2>1. x <= Min(S) /\ Min(S) <= x /\ x \in Nat /\ Min(S) \in Nat
    BY Zenon, <1>1, <1>2
  <2> QED BY <2>1
<1> QED BY <1>1, <1>2

LEMMA MaxOf ==
  ASSUME NEW n \in Nat, NEW S \in SUBSET (0 .. n), S # {}
  PROVE  Max(S) \in S /\ \A y \in S : y <= Max(S)
<1> DEFINE T == {n - x : x \in S}
<1>1. T \in SUBSET Nat /\ T # {}
  OBVIOUS
<1>2. PICK t \in T : \A u \in T : t <= u
  BY Zenon, <1>1, LeastNumber
<1>3. PICK x \in S : t = n - x
  OBVIOUS
<1>4. ASSUME NEW y \in S PROVE x >= y
  <2>1. n - x <= n - y
    BY <1>2, <1>3
  <2> QED BY <2>1
<1> HIDE DEF T
<1>5. Max(S) \in S /\ \A y \in S : Max(S) >= y
  BY Zenon, <1>4 DEF Max
<1>6. ASSUME NEW y \in S PROVE y <= Max(S)
  <2>1. Max(S) \in S /\ Max(S) >= y
    BY <1>5
  <2> QED BY <2>1
<1> QED BY <1>5, <1>6

-----------------------------------------------------------------------------
(* Routing.                                                                  *)

\* The groups are, for the servers bound so far, one for each address, which has the servers
\* of that address in the order of the configuration, the first being its default.
Grouped ==
  /\ next \in 1 .. Len(servers) + 1
  /\ groups \in Seq([address : STRING, default_server : Nat, server_indices : Seq(Nat)])
  /\ \A g, h \in DOMAIN groups : groups[g].address = groups[h].address => g = h
  /\ \A i \in 1 .. next - 1 : \E g \in DOMAIN groups : groups[g].address = servers[i].listen
  /\ \A g \in DOMAIN groups :
       LET s == groups[g].server_indices
       IN  /\ s # <<>> /\ groups[g].default_server = s[1]
           /\ \A j, k \in DOMAIN s : j < k => s[j] < s[k]
           /\ \A i \in Nat : i \in Range(s) <=> /\ i \in 1 .. next - 1
                                               /\ servers[i].listen = groups[g].address

\* No request is taken before every server is bound.
Unbound == next <= Len(servers) => request = NoRequest /\ chosen = NoChoice

LEMMA ServersTyped ==
  ASSUME IsConfig(config)
  PROVE  /\ Len(servers) \in Nat /\ DOMAIN servers = 1 .. Len(servers)
         /\ \A i \in DOMAIN servers :
              /\ servers[i].listen \in STRING
              /\ servers[i].locations \in
                   Seq([type : {"exact", "prefix"}, path : Seq(STRING),
                        action : [kind : {"response", "static"}] \cup Proxy])
<1> DEFINE L == Seq([type : {"exact", "prefix"}, path : Seq(STRING),
                     action : [kind : {"response", "static"}] \cup Proxy])
           S == [listen : STRING, server_name : STRING, ssl : SUBSET STRING, locations : L]
<1>2. servers \in Seq(S)
  BY DEF IsConfig, servers
<1> HIDE DEF L
<1>3. \A s \in S : s.listen \in STRING /\ s.locations \in L
  OBVIOUS
<1> HIDE DEF S
<1>4. /\ Len(servers) \in Nat /\ DOMAIN servers = 1 .. Len(servers)
      /\ \A i \in DOMAIN servers : servers[i] \in S
  BY <1>2
<1> QED BY Zenon, <1>3, <1>4 DEF L

LEMMA BindKeepsGroups ==
  ASSUME IsConfig(config), Grouped, BindServer
  PROVE  Grouped'
<1> DEFINE a == servers[next].listen
           G == [address : STRING, default_server : Nat, server_indices : Seq(Nat)]
<1>1. /\ Len(servers) \in Nat /\ DOMAIN servers = 1 .. Len(servers) /\ next \in DOMAIN servers
      /\ a \in STRING /\ next \in Nat \ {0} /\ groups \in Seq(G)
  BY ServersTyped DEF BindServer, Grouped
<1>2. servers' = servers /\ next' = next + 1
  BY DEF BindServer, servers
<1>3. next' \in 1 .. Len(servers') + 1
  BY <1>1, <1>2
<1> HIDE DEF G
<1>4. Len(groups) \in Nat /\ DOMAIN groups = 1 .. Len(groups)
  BY <1>1
<1>5. CASE GroupOf(a) = {}
  <2> DEFINE new == [address |-> a, default_server |-> next, server_indices |-> <<next>>]
             n == Len(groups) + 1
  <2>1. groups' = Append(groups, new)
    BY <1>5 DEF BindServer
  <2>2. new \in G /\ new.address = a /\ new.default_server = next /\ new.server_indices = <<next>>
    BY <1>1 DEF G
  <2> HIDE DEF new
  <2>3. /\ groups' \in Seq(G) /\ DOMAIN groups' = 1 .. n
        /\ groups'[n] = new /\ \A g \in DOMAIN groups : groups'[g] = groups[g]
    BY <1>1, <2>1, <2>2, Appended
  <2>4. \A g \in DOMAIN groups : groups[g].address # a
    BY <1>5 DEF GroupOf
  <2>5. \A g \in DOMAIN groups' : g \in DOMAIN groups \/ g = n
    BY <1>4, <2>3
  <2>6. \A g, h \in DOMAIN groups' : groups'[g].address = groups'[h].address => g = h
    <3>1. \A g, h \in DOMAIN groups : groups[g].address = groups[h].address => g = h
      BY DEF Grouped
    <3> QED BY <2>2, <2>3, <2>4, <2>5, <3>1
  <2>7. ASSUME NEW i \in 1 .. next' - 1
        PROVE  \E g \in DOMAIN groups' : groups'[g].address = servers'[i].listen
    <3>1. CASE i = next
      <4>1. n \in DOMAIN groups'
        BY <1>4, <2>3
      <4> QED BY <1>2, <2>2, <2>3, <3>1, <4>1
    <3>2. CASE i \in 1 .. next - 1
      <4>1. PICK g \in DOMAIN groups : groups[g].address = servers[i].listen
        BY <3>2 DEF Grouped
      <4>2. g \in DOMAIN groups'
        BY <1>4, <2>3
      <4> QED BY <1>2, <2>3, <4>1, <4>2
    <3> QED BY <1>1, <1>2, <3>1, <3>2
  <2>8. ASSUME NEW g \in DOMAIN groups', NEW s, s = groups'[g].server_indices
        PROVE  /\ s # <<>> /\ groups'[g].default_server = s[1]
               /\ \A j, k \in DOMAIN s : j < k => s[j] < s[k]
               /\ \A i \in Nat : i \in Range(s) <=> /\ i \in 1 .. next' - 1
                                                   /\ servers'[i].listen = groups'[g].address
    <3>1. CASE g = n
      <4>1. s = <<next>> /\ groups'[g].address = a /\ groups'[g].default_server = next
        BY <2>2, <2>3, <2>8, <3>1
      <4>2. ASSUME NEW i \in 1 .. next - 1 PROVE servers[i].listen # a
        BY <2>4 DEF Grouped
      <4>3. Range(s) = {next} /\ s # <<>> /\ s[1] = next /\ DOMAIN s = {1}
        BY <4>1 DEF Range
      <4>4. \A i \in Nat : i \in 1 .. next' - 1 <=> i \in 1 .. next - 1 \/ i = next
        BY <1>1, <1>2
      <4>5. ASSUME NEW i \in Nat
            PROVE  i \in Range(s) <=> i \in 1 .. next' - 1 /\ servers'[i].listen = a
        BY <1>2, <4>2, <4>3, <4>4
      <4>6. \A j, k \in DOMAIN s : j < k => s[j] < s[k]
        BY <4>3
      <4> QED BY <4>1, <4>3, <4>5, <4>6
    <3>2. CASE g \in DOMAIN groups
      <4>1. groups'[g] = groups[g] /\ groups[g].address # a
        BY <2>3, <2>4, <3>2
      <4>2. \A i \in Nat : i \in 1 .. next' - 1 <=> i \in 1 .. next - 1 \/ i = next
        BY <1>1, <1>2
      <4>3. /\ s # <<>> /\ groups[g].default_server = s[1]
            /\ \A j, k \in DOMAIN s : j < k => s[j] < s[k]
            /\ \A i \in Nat : i \in Range(s) <=> /\ i \in 1 .. next - 1
                                                /\ servers[i].listen = groups[g].address
        BY Zenon, <2>8, <3>2, <4>1 DEF Grouped
      <4>4. ASSUME NEW i \in Nat
            PROVE  i \in Range(s) <=> i \in 1 .. next' - 1 /\ servers'[i].listen = groups[g].address
        BY <1>2, <4>1, <4>2, <4>3
      <4> QED BY <4>1, <4>3, <4>4
    <3> QED BY <2>5, <3>1, <3>2
  <2> QED BY Zenon, <1>3, <2>3, <2>6, <2>7, <2>8 DEF Grouped, G
<1>6. CASE GroupOf(a) # {}
  <2> DEFINE f == Min(GroupOf(a))
             old == groups[f]
             s0 == old.server_indices
             new == [old EXCEPT !.server_indices = Append(s0, next)]
  <2>1. GroupOf(a) \in SUBSET Nat
    BY <1>4 DEF GroupOf
  <2>2. f \in DOMAIN groups /\ old.address = a
    BY <1>6, <2>1, MinOf DEF GroupOf
  <2>3. groups' = [groups EXCEPT ![f] = new]
    BY <1>6 DEF BindServer
  <2> HIDE DEF f
  <2>4. old \in G
    BY <1>1, <2>2
  <2>5. s0 \in Seq(Nat)
    BY <2>4 DEF G
  <2>6. /\ new \in G /\ new.address = a /\ new.default_server = old.default_server
        /\ new.server_indices = Append(s0, next)
    <3>1. Append(s0, next) \in Seq(Nat)
      BY <1>1, <2>5
    <3> QED BY Zenon, <2>2, <2>4, <3>1 DEF G
  <2> HIDE DEF new
  <2>7. /\ groups' \in Seq(G) /\ DOMAIN groups' = DOMAIN groups /\ groups'[f] = new
        /\ \A g \in DOMAIN groups : g # f => groups'[g] = groups[g]
    BY <1>1, <2>2, <2>3, <2>6
  <2>8. \A g \in DOMAIN groups : groups'[g].address = groups[g].address
    BY <2>2, <2>6, <2>7
  <2>9. \A g, h \in DOMAIN groups : groups[g].address = groups[h].address => g = h
    BY DEF Grouped
  <2>10. ASSUME NEW i \in 1 .. next' - 1
         PROVE  \E g \in DOMAIN groups' : groups'[g].address = servers'[i].listen
    <3>1. CASE i = next
      BY <1>2, <2>2, <2>6, <2>7, <3>1
    <3>2. CASE i \in 1 .. next - 1
      <4>1. PICK g \in DOMAIN groups : groups[g].address = servers[i].listen
        BY <3>2 DEF Grouped
      <4> QED BY <1>2, <2>7, <2>8, <4>1
    <3> QED BY <1>1, <1>2, <3>1, <3>2
  <2>11. \A i \in Nat : i \in 1 .. next' - 1 <=> i \in 1 .. next - 1 \/ i = next
    BY <1>1, <1>2
  <2>12. ASSUME NEW g \in DOMAIN groups', NEW s, s = groups'[g].server_indices
         PROVE  /\ s # <<>> /\ groups'[g].default_server = s[1]
                /\ \A j, k \in DOMAIN s : j < k => s[j] < s[k]
                /\ \A i \in Nat : i \in Range(s) <=> /\ i \in 1 .. next' - 1
                                                    /\ servers'[i].listen = groups'[g].address
    <3>1. CASE g = f
      <4>1. /\ s0 # <<>> /\ old.default_server = s0[1]
            /\ \A j, k \in DOMAIN s0 : j < k => s0[j] < s0[k]
            /\ \A i \in Nat : i \in Range(s0) <=> i \in 1 .. next - 1 /\ servers[i].listen = a
        BY Zenon, <2>2 DEF Grouped
      <4>2. s = Append(s0, next) /\ groups'[g].default_server = s0[1] /\ groups'[g].address = a
        BY <2>6, <2>7, <2>12, <3>1, <4>1
      <4> DEFINE m == Len(s0)
      <4> HIDE DEF old, s0
      <4>3. /\ m \in Nat /\ DOMAIN s0 = 1 .. m /\ DOMAIN s = 1 .. m + 1 /\ s[m + 1] = next
            /\ \A k \in DOMAIN s0 : s[k] = s0[k]
            /\ \A k \in DOMAIN s0 : s0[k] \in Nat
        BY <1>1, <2>5, <4>2, Appended
      <4>4. m # 0
        BY <2>5, <4>1
      <4> HIDE DEF m
      <4>5. 1 \in DOMAIN s0 /\ s[1] = s0[1] /\ s # <<>>
        BY <4>3, <4>4
      <4>6. \A k \in DOMAIN s0 : s0[k] \in Range(s0)
        BY DEF Range
      <4>7. \A k \in DOMAIN s0 : s0[k] < next
        BY <1>1, <4>1, <4>3, <4>6
      <4>8. \A k \in DOMAIN s : k \in DOMAIN s0 \/ k = m + 1
        BY <4>3
      <4>9. ASSUME NEW j \in DOMAIN s, NEW k \in DOMAIN s, j < k PROVE s[j] < s[k]
        <5>1. j \in DOMAIN s0
          BY <4>3, <4>9
        <5> QED BY <4>1, <4>3, <4>7, <4>8, <4>9, <5>1
      <4>10. ASSUME NEW i PROVE i \in Range(s) <=> i \in Range(s0) \/ i = next
        BY <4>3, <4>8 DEF Range
      <4>11. ASSUME NEW i \in Nat
             PROVE  i \in Range(s) <=> i \in 1 .. next' - 1 /\ servers'[i].listen = a
        BY <1>2, <2>11, <4>1, <4>10
      <4> QED BY <4>2, <4>5, <4>9, <4>11
    <3>2. CASE g # f
      <4>1. groups'[g] = groups[g] /\ groups[g].address # a
        BY <2>2, <2>7, <2>9, <3>2
      <4>2. /\ s # <<>> /\ groups[g].default_server = s[1]
            /\ \A j, k \in DOMAIN s : j < k => s[j] < s[k]
            /\ \A i \in Nat : i \in Range(s) <=> /\ i \in 1 .. next - 1
                                                /\ servers[i].listen = groups[g].address
        BY Zenon, <2>7, <2>12, <4>1 DEF Grouped
      <4>3. ASSUME NEW i \in Nat
            PROVE  i \in Range(s) <=> i \in 1 .. next' - 1 /\ servers'[i].listen = groups[g].address
        BY <1>2, <2>11, <4>1, <4>2
      <4> QED BY <4>1, <4>2, <4>3
    <3> QED BY <3>1, <3>2
  <2> QED BY Zenon, <1>3, <2>7, <2>8, <2>9, <2>10, <2>12 DEF Grouped, G
<1> QED BY <1>5, <1>6

\* The servers of an address, and those of them that have a name.
AtAddress(address) == {i \in DOMAIN servers : servers[i].listen = address}
NamedAt(address, host) == {i \in AtAddress(address) : Same(servers[i].server_name, host)}

LEMMA HostSelected ==
  ASSUME IsConfig(config), Grouped, next > Len(servers), NEW g \in DOMAIN groups, NEW host,
         NEW x, x = select_server(groups[g], host), NEW a, a = groups[g].address
  PROVE  /\ x \in DOMAIN servers
         /\ x = Min(IF NamedAt(a, host) = {} THEN AtAddress(a) ELSE NamedAt(a, host))
<1> DEFINE here == AtAddress(a)
           named == NamedAt(a, host)
           s == groups[g].server_indices
           K == {k \in DOMAIN s : Same(servers[s[k]].server_name, host)}
<1>1. /\ Len(servers) \in Nat /\ DOMAIN servers = 1 .. Len(servers) /\ next - 1 = Len(servers)
  <2>1. next \in 1 .. Len(servers) + 1
    BY DEF Grouped
  <2>2. Len(servers) \in Nat /\ DOMAIN servers = 1 .. Len(servers)
    BY ServersTyped
  <2> QED BY <2>1, <2>2
<1>2. /\ s # <<>> /\ groups[g].default_server = s[1]
      /\ \A j, k \in DOMAIN s : j < k => s[j] < s[k]
      /\ \A i \in Nat : i \in Range(s) <=> /\ i \in 1 .. next - 1
                                          /\ servers[i].listen = groups[g].address
  BY DEF Grouped
<1>3. s \in Seq(Nat)
  <2> DEFINE G == [address : STRING, default_server : Nat, server_indices : Seq(Nat)]
  <2>1. groups \in Seq(G)
    BY DEF Grouped
  <2>2. \A y \in G : y.server_indices \in Seq(Nat)
    OBVIOUS
  <2> HIDE DEF G
  <2> QED BY <2>1, <2>2
<1>4. x = IF K = {} THEN s[1] ELSE s[Min(K)]
  BY <1>2 DEF select_server
<1>h. /\ here = {i \in DOMAIN servers : servers[i].listen = groups[g].address}
      /\ named = {i \in here : Same(servers[i].server_name, host)}
  BY DEF AtAddress, NamedAt
<1> HIDE DEF s, K, here, named
<1>5. /\ Len(s) \in Nat \ {0} /\ DOMAIN s = 1 .. Len(s) /\ \A k \in DOMAIN s : s[k] \in Nat
  BY <1>2, <1>3
<1>6. \A i : i \in here <=> \E k \in DOMAIN s : i = s[k]
  <2>1. \A k \in DOMAIN s : s[k] \in Range(s)
    BY DEF Range
  <2>2. \A i \in Range(s) : \E k \in DOMAIN s : i = s[k]
    BY DEF Range
  <2> QED BY <1>1, <1>2, <1>5, <1>h, <2>1, <2>2
<1>7. \A j, k \in DOMAIN s : j <= k => s[j] <= s[k]
  BY <1>2, <1>5
<1>8. here \in SUBSET Nat /\ named \in SUBSET here /\ here \in SUBSET DOMAIN servers
  BY <1>1, <1>h
<1>9. CASE K = {}
  <2>1. named = {}
    BY SMTT(20), <1>6, <1>9, <1>h DEF K
  <2>2. s[1] \in here /\ \A i \in here : s[1] <= i
    BY <1>5, <1>6, <1>7
  <2> QED BY <1>4, <1>8, <1>9, <2>1, <2>2, MinOf DEF here, named
<1>10. CASE K # {}
  <2>1. K \in SUBSET Nat
    BY <1>5 DEF K
  <2>2. Min(K) \in K /\ \A k \in K : Min(K) <= k
    BY <1>10, <2>1, MinOf
  <2>3. s[Min(K)] \in named
    BY <1>6, <1>h, <2>2 DEF K
  <2>4. \A i \in named : \E k \in K : i = s[k]
    BY <1>6, <1>h DEF K
  <2>5. \A i \in named : s[Min(K)] <= i
    BY <1>7, <2>2, <2>4 DEF K
  <2> QED BY <1>4, <1>8, <1>10, <2>3, <2>5, MinOf DEF here, named
<1> QED BY <1>9, <1>10 DEF here, named

LEMMA LocationFound ==
  ASSUME NEW A,
         NEW locations \in Seq([type : {"exact", "prefix"}, path : Seq(STRING), action : A]),
         NEW t \in Seq(STRING), NEW r, r = route(locations, t)
  PROVE  r \in 0 .. Len(locations) /\ Best(locations, t, r)
<1> DEFINE m == Matching(locations, t)
           E == ExactMatches(locations, t)
           P == PrefixMatches(locations, t)
           L == Longest(locations, P)
<1>1. /\ Len(locations) \in Nat /\ DOMAIN locations = 1 .. Len(locations)
      /\ \A i \in DOMAIN locations :
           locations[i].type \in {"exact", "prefix"} /\ Len(locations[i].path) \in Nat
  <2> DEFINE R == [type : {"exact", "prefix"}, path : Seq(STRING), action : A]
  <2>1. \A x \in R : x.type \in {"exact", "prefix"} /\ x.path \in Seq(STRING)
    OBVIOUS
  <2>2. \A x \in R : Len(x.path) \in Nat
    BY <2>1
  <2> HIDE DEF R
  <2>3. locations \in Seq(R)
    BY DEF R
  <2> QED BY <2>1, <2>2, <2>3
<1>2. /\ \A i \in E : i \in m /\ locations[i].type = "exact"
      /\ \A i \in P : i \in m /\ locations[i].type = "prefix"
      /\ \A i \in m : i \in E \/ i \in P
      /\ \A i \in P : Len(locations[i].path) <= Len(t)
  BY <1>1 DEF ExactMatches, PrefixMatches, Matching, starts_with
<1>3. /\ \A i \in L : i \in P /\ \A j \in P : Len(locations[j].path) <= Len(locations[i].path)
  BY DEF Longest
<1>4. P # {} => L # {}
  <2> DEFINE N == {Len(locations[i].path) : i \in P}
  <2>1. N \in SUBSET (0 .. Len(t)) /\ Len(t) \in Nat
    BY SMTT(20), <1>1, <1>2 DEF PrefixMatches
  <2>2. SUFFICES ASSUME P # {} PROVE L # {}
    OBVIOUS
  <2>3. Max(N) \in N /\ \A n \in N : n <= Max(N)
    <3>1. N # {}
      BY Zenon, <2>2
    <3> HIDE DEF N
    <3> QED BY Zenon, <2>1, <3>1, MaxOf
  <2>4. PICK i \in P : Max(N) = Len(locations[i].path)
    BY Zenon, <2>3
  <2>5. \A j \in P : Len(locations[j].path) \in N
    BY Zenon
  <2>6. i \in L
    BY Zenon, <2>3, <2>4, <2>5 DEF Longest
  <2> QED BY <2>6
<1>5. r = IF E # {} THEN Min(E) ELSE IF L # {} THEN Max(L) ELSE 0
  BY DEF route
<1>6. m \in SUBSET (0 .. Len(locations)) /\ 0 .. Len(locations) \in SUBSET Nat
  BY <1>1 DEF Matching
<1> HIDE DEF E, P, L, m
<1>7. E \in SUBSET Nat /\ L \in SUBSET (0 .. Len(locations))
  BY Zenon, <1>2, <1>3, <1>6
<1>8. CASE E # {}
  <2>1. r \in E
    BY <1>5, <1>7, <1>8, MinOf
  <2> QED BY <1>2, <1>6, <2>1 DEF Best, m
<1>9. CASE E = {} /\ L # {}
  <2>1. r \in L
    BY Zenon, <1>1, <1>5, <1>7, <1>9, MaxOf
  <2> QED BY <1>2, <1>3, <1>6, <1>9, <2>1 DEF Best, m
<1>10. CASE E = {} /\ L = {}
  <2>1. m = {} /\ r = 0
    BY <1>2, <1>4, <1>5, <1>10
  <2> QED BY <1>1, <2>1 DEF Best, m
<1> QED BY <1>8, <1>9, <1>10 DEF m

\* What prepare_response chooses for the request q of a connection of group g.
RoutesTo(g, q) ==
  LET s == select_server(groups[g], q.host)
  IN  chosen' = [server |-> s, location |-> route(servers[s].locations, q.target)]

LEMMA RouteFound ==
  ASSUME IsConfig(config), Grouped, next > Len(servers), NEW g \in DOMAIN groups,
         NEW q, q.target \in Seq(STRING), RoutesTo(g, q),
         request' = [group |-> g, ask |-> q], UNCHANGED <<config, groups>>
  PROVE  /\ RequestIsRouted' /\ chosen' # NoChoice
         /\ chosen'.server \in DOMAIN servers
         /\ chosen'.location \in 0 .. Len(servers[chosen'.server].locations)
<1> DEFINE s == select_server(groups[g], q.host)
           l == route(servers[s].locations, q.target)
<1>1. chosen' = [server |-> s, location |-> l]
  BY DEF RoutesTo
<1>2. servers' = servers /\ groups' = groups /\ request'.group = g /\ request'.ask = q
  BY DEF servers
<1>3. s \in DOMAIN servers /\ HostSelectsServer'
  <2> DEFINE a == groups[g].address
  <2>1. /\ s \in DOMAIN servers
        /\ s = Min(IF NamedAt(a, q.host) = {} THEN AtAddress(a) ELSE NamedAt(a, q.host))
    BY HostSelected
  <2> HIDE DEF s, l
  <2> QED BY Zenon, <1>1, <1>2, <2>1 DEF HostSelectsServer, NamedAt, AtAddress
<1> DEFINE A == [kind : {"response", "static"}] \cup Proxy
<1>4. /\ servers[s].locations \in Seq([type : {"exact", "prefix"}, path : Seq(STRING), action : A])
      /\ DOMAIN servers = 1 .. Len(servers) /\ Len(servers) \in Nat
  BY Zenon, <1>3, ServersTyped
<1> HIDE DEF A
<1>6. l \in 0 .. Len(servers[s].locations) /\ ExactThenLongestPrefix'
  <2>1. l \in 0 .. Len(servers[s].locations) /\ Best(servers[s].locations, q.target, l)
    BY Zenon, <1>4, LocationFound
  <2> HIDE DEF s, l
  <2>2. ExactThenLongestPrefix' = (chosen' # NoChoice => Best(servers[s].locations, q.target, l))
    BY <1>1, <1>2 DEF ExactThenLongestPrefix
  <2> QED BY <2>1, <2>2
<1> HIDE DEF s, l
<1>7. s # 0
  BY <1>3, <1>4
<1> QED BY <1>1, <1>3, <1>6, <1>7 DEF RequestIsRouted, NoChoice

-----------------------------------------------------------------------------
(* Recursive functions over a prefix of the naturals exist.                  *)

IsRecursive(f, V, base, N, T) ==
  f \in [0 .. N -> V] /\ f[0] = base /\ \A k \in 1 .. N : f[k] = T[<<f[k - 1], k>>]

LEMMA Recursion ==
  ASSUME NEW V, NEW base \in V, NEW N \in Nat, NEW T \in [V \X (1 .. N) -> V]
  PROVE  \E f : IsRecursive(f, V, base, N, T)
<1> DEFINE Good(n) == \E f \in [0 .. n -> V] :
                        f[0] = base /\ \A k \in 1 .. n : f[k] = T[<<f[k - 1], k>>]
           Bad == {n \in 0 .. N : ~Good(n)}
<1>1. SUFFICES ASSUME Bad # {} PROVE FALSE
  <2>1. Good(N) => \E f : IsRecursive(f, V, base, N, T)
    BY DEF IsRecursive
  <2> HIDE DEF Good
  <2> QED BY <2>1
<1>2. PICK n \in Bad : \A y \in Bad : n <= y
  <2>1. Bad \in SUBSET Nat
    OBVIOUS
  <2> HIDE DEF Bad
  <2> QED BY <1>1, <2>1, LeastNumber
<1>3. n \in 0 .. N /\ ~Good(n)
  BY <1>2
<1>4. n # 0
  <2>1. /\ [k \in 0 .. 0 |-> base] \in [0 .. 0 -> V] /\ [k \in 0 .. 0 |-> base][0] = base
        /\ 1 .. 0 = {}
    OBVIOUS
  <2>2. Good(0)
    <3> WITNESS [k \in 0 .. 0 |-> base] \in [0 .. 0 -> V]
    <3> QED BY <2>1
  <2> HIDE DEF Good
  <2> QED BY <1>3, <2>2
<1>5. n - 1 \in 0 .. N /\ n \in 1 .. N /\ ~(n <= n - 1)
  BY <1>3, <1>4
<1>6. Good(n - 1)
  <2> HIDE DEF Good
  <2> QED BY <1>2, <1>5
<1>7. PICK f \in [0 .. n - 1 -> V] :
        f[0] = base /\ \A k \in 1 .. n - 1 : f[k] = T[<<f[k - 1], k>>]
  BY <1>6
<1> DEFINE h == [k \in 0 .. n |-> IF k = n THEN T[<<f[n - 1], n>>] ELSE f[k]]
<1>8. f[n - 1] \in V /\ T[<<f[n - 1], n>>] \in V
  BY <1>5, <1>7
<1>9. h \in [0 .. n -> V]
  <2>1. ASSUME NEW k \in 0 .. n, k # n PROVE f[k] \in V
    BY <1>5, <1>7, <2>1
  <2> QED BY <1>8, <2>1
<1>10. h[0] = base
  BY <1>3, <1>4, <1>7
<1>11. ASSUME NEW k \in 1 .. n PROVE h[k] = T[<<h[k - 1], k>>]
  <2>1. k \in 0 .. n /\ k - 1 \in 0 .. n /\ k - 1 # n
    BY <1>3, <1>11
  <2>2. h[k - 1] = f[k - 1]
    BY <2>1
  <2>3. CASE k = n
    BY <2>1, <2>2, <2>3
  <2>4. CASE k # n
    <3>1. k \in 1 .. n - 1
      BY <1>3, <2>4
    <3> QED BY <1>7, <2>1, <2>2, <2>4, <3>1
  <2> QED BY <2>3, <2>4
<1>12. Good(n)
  <2> HIDE DEF h
  <2> QED BY <1>9, <1>10, <1>11
<1> HIDE DEF Good
<1> QED BY <1>3, <1>12

\* Weights adds up the weights.
LEMMA WeightsSum ==
  ASSUME NEW pool \in Seq(UpstreamEndpoint)
  PROVE  /\ Len(pool) \in Nat /\ DOMAIN pool = 1 .. Len(pool)
         /\ \A k \in DOMAIN pool : pool[k].weight \in Nat
         /\ \A k \in 0 .. Len(pool) : Weights(pool, k) \in Nat
         /\ Weights(pool, 0) = 0
         /\ \A k \in 1 .. Len(pool) : Weights(pool, k) = Weights(pool, k - 1) + pool[k].weight
<1> DEFINE N == Len(pool)
           T == [x \in Nat \X (1 .. N) |-> x[1] + pool[x[2]].weight]
<1>1. N \in Nat /\ DOMAIN pool = 1 .. N /\ \A k \in DOMAIN pool : pool[k].weight \in Nat
  <2>1. \A e \in UpstreamEndpoint : e.weight \in Nat
    BY DEF UpstreamEndpoint
  <2> QED BY <2>1
<1>2. T \in [Nat \X (1 .. N) -> Nat]
  BY <1>1
<1>3. \A v \in Nat, k \in 1 .. N : T[<<v, k>>] = v + pool[k].weight
  OBVIOUS
<1>f. PICK f : IsRecursive(f, Nat, 0, N, T)
  <2>1. N \in Nat /\ 0 \in Nat
    BY <1>1
  <2> HIDE DEF T, N
  <2> QED BY Zenon, <1>2, <2>1, Recursion
<1>4. f \in [0 .. N -> Nat] /\ f[0] = 0 /\ \A k \in 1 .. N : f[k] = T[<<f[k - 1], k>>]
  BY Zenon, <1>f DEF IsRecursive
<1> HIDE DEF T
<1> DEFINE Sum(s) == s = [k \in 0 .. Len(pool) |-> IF k = 0 THEN 0 ELSE s[k - 1] + pool[k].weight]
<1>5. Sum(f)
  <2>1. ASSUME NEW k \in 0 .. N, k # 0 PROVE f[k] = f[k - 1] + pool[k].weight
    <3>1. k \in 1 .. N /\ k - 1 \in 0 .. N
      BY <1>1, <2>1
    <3>2. f[k - 1] \in Nat
      BY <1>4, <3>1
    <3> QED BY Zenon, <1>3, <1>4, <3>1, <3>2
  <2>2. f = [k \in 0 .. N |-> f[k]]
    BY <1>4
  <2> QED BY <1>4, <2>1, <2>2
<1> DEFINE sum == CHOOSE s : Sum(s)
<1>6. Sum(sum)
  BY Zenon, <1>5
<1>7. \A n : Weights(pool, n) = sum[n]
  BY DEF Weights
<1> HIDE DEF sum
<1>8. sum[0] = 0 /\ \A k \in 1 .. N : sum[k] = sum[k - 1] + pool[k].weight
  <2>1. \A k \in 0 .. N : sum[k] = IF k = 0 THEN 0 ELSE sum[k - 1] + pool[k].weight
    BY <1>6
  <2> HIDE DEF Sum, N
  <2> QED BY <1>1, <2>1
<1> HIDE DEF Sum, N
<1>9. \A k \in 0 .. N : sum[k] = f[k]
  <2> DEFINE Bad == {k \in 0 .. N : sum[k] # f[k]}
  <2>1. SUFFICES ASSUME Bad # {} PROVE FALSE
    OBVIOUS
  <2>2. Bad \in SUBSET Nat
    BY <1>1
  <2>3. PICK k \in Bad : \A y \in Bad : k <= y
    <3> HIDE DEF Bad
    <3> QED BY <2>1, <2>2, LeastNumber
  <2>4. k # 0
    BY <1>4, <1>8, <2>3
  <2>5. k \in 1 .. N /\ k - 1 \in 0 .. N /\ ~(k <= k - 1)
    BY <1>1, <2>3, <2>4
  <2>6. sum[k - 1] = f[k - 1] /\ f[k - 1] \in Nat
    BY <1>4, <2>3, <2>5
  <2> QED BY Zenon, <1>3, <1>4, <1>8, <2>3, <2>5, <2>6
<1>10. \A k \in 0 .. N : Weights(pool, k) \in Nat
  BY <1>4, <1>7, <1>9
<1>11. \A k \in 1 .. N : Weights(pool, k) = Weights(pool, k - 1) + pool[k].weight
  BY <1>7, <1>8
<1>12. Weights(pool, 0) = 0
  BY <1>7, <1>8
<1> QED BY <1>1, <1>10, <1>11, <1>12 DEF N

-----------------------------------------------------------------------------
(* The balancer.                                                             *)

LEMMA RouteTyped ==
  ASSUME IsConfig(config), NEW r \in Routes(config)
  PROVE  Route(r) \in Proxy
<1>s. PICK s \in DOMAIN servers : \E l \in DOMAIN servers[s].locations :
        r = <<s, l>> /\ servers[s].locations[l].action.kind = "proxy"
  BY DEF Routes, servers
<1>1. PICK l \in DOMAIN servers[s].locations :
        r = <<s, l>> /\ servers[s].locations[l].action.kind = "proxy"
  BY <1>s
<1> DEFINE A == [kind : {"response", "static"}] \cup Proxy
           L == [type : {"exact", "prefix"}, path : Seq(STRING), action : A]
<1>2. servers[s].locations \in Seq(L)
  BY Zenon, ServersTyped
<1>3. \A x \in L : x.action \in A
  OBVIOUS
<1>4. \A x \in A : x.kind = "proxy" => x \in Proxy
  OBVIOUS
<1> HIDE DEF A, L
<1>5. servers[s].locations[l] \in L
  BY <1>2
<1>6. Route(r) = servers[s].locations[l].action
  BY <1>1 DEF Route, Action, servers
<1> QED BY <1>1, <1>3, <1>4, <1>5, <1>6

\* What the balancer needs of a group.
Balances(a) ==
  /\ Pool(a) \in Seq(UpstreamEndpoint) /\ Pool(a) # <<>> /\ Total(Pool(a)) < Modulus
  /\ Policy(a) \in BalancePolicy
  /\ \A i \in DOMAIN Pool(a) : Pool(a)[i].weight > 0 /\ Pool(a)[i].url # Blank

\* from_toml lets no route through that select refuses.
LEMMA RouteValid ==
  ASSUME IsConfig(config), from_toml(config), NEW r \in Routes(config),
         NEW a, a = Route(r)
  PROVE  /\ Failure(a) = None /\ a.upstream # Blank
         /\ a.upstream = None => Balances(a)
<1>1. a \in Proxy
  BY RouteTyped
<1>2. /\ Configured(a) = 1 /\ a.upstream # Blank /\ validate_endpoints(a.upstreams)
      /\ a.upstream_group \in {None} \cup DOMAIN config.upstreams
      /\ Weighted(a.upstreams)
  BY DEF from_toml, validate, Route
<1>3. \A g \in DOMAIN config.upstreams :
        /\ config.upstreams[g] \in UpstreamGroup
        /\ config.upstreams[g].servers # <<>> /\ validate_endpoints(config.upstreams[g].servers)
        /\ Weighted(config.upstreams[g].servers)
  BY DEF from_toml, validate, IsConfig
<1>4. /\ a.upstreams \in Seq(UpstreamEndpoint) /\ a.policy \in BalancePolicy
  BY <1>1 DEF Proxy
<1>5. \A x \in UpstreamGroup : x.servers \in Seq(UpstreamEndpoint) /\ x.policy \in BalancePolicy
  BY DEF UpstreamGroup
<1>6. Known(a)
  BY <1>2 DEF Known, Named
<1>7. a.upstream = None => Balances(a)
  <2>1. CASE Named(a)
    <3>1. a.upstream_group \in DOMAIN config.upstreams
      BY <1>2, <2>1 DEF Named
    <3> QED BY Zenon, <1>3, <1>5, <2>1, <3>1
            DEF Balances, Pool, Policy, validate_endpoints, Weighted
  <2>2. CASE ~Named(a)
    <3>1. a.upstream = None => a.upstreams # <<>>
      <4>1. a.upstream = None /\ a.upstreams = <<>> => Configured(a) = 0
        BY <2>2 DEF Named, Configured, Cardinal
      <4>2. Configured(a) = 1
        BY <1>2
      <4> QED BY <4>1, <4>2
    <3> QED BY <1>2, <1>4, <2>2, <3>1 DEF Balances, Pool, Policy, validate_endpoints, Weighted
  <2> QED BY <2>1, <2>2
<1>8. Balances(a) => ~(Total(Pool(a)) >= Modulus)
  <2>1. Pool(a) \in Seq(UpstreamEndpoint) => Total(Pool(a)) \in Nat
    BY SMTT(20), WeightsSum DEF Total
  <2>2. Balances(a) => Pool(a) \in Seq(UpstreamEndpoint) /\ Total(Pool(a)) < Modulus
    BY Zenon DEF Balances
  <2> HIDE DEF Total
  <2> QED BY <2>1, <2>2, ModulusAssumption
<1>9. Failure(a) = None
  <2>1. ~(Configured(a) > 1)
    <3>1. Configured(a) = 1
      BY Zenon, <1>2
    <3> QED BY <3>1
  <2>2. a.upstream = None => Pool(a) # <<>> /\ ~(Total(Pool(a)) >= Modulus)
    BY Zenon, <1>7, <1>8 DEF Balances
  <2> QED BY Zenon, <1>6, <2>1, <2>2 DEF Failure
<1> QED BY <1>2, <1>7, <1>9

\* Routes that share a cursor choose from the same endpoints in the same way.
LEMMA SameKey ==
  ASSUME NEW a, NEW b, Key(a) = Key(b)
  PROVE  Pool(a) = Pool(b) /\ Policy(a) = Policy(b)
BY DEF Key, group_key, Pool, Policy

\* The position of the cursor at which the turn of endpoint i ends.
Edge(a, i) == IF Policy(a) = "RoundRobin" THEN i ELSE Weights(Pool(a), i)

LEMMA Edges ==
  ASSUME NEW a, Balances(a), NEW n, n = Len(Pool(a))
  PROVE  /\ n \in Nat \ {0} /\ DOMAIN Pool(a) = 1 .. n
         /\ Edge(a, 0) = 0 /\ Edge(a, n) = Turn(a) /\ Turn(a) \in Nat \ {0}
         /\ \A i \in 0 .. n : Edge(a, i) \in Nat
         /\ \A i \in 1 .. n : Share(a, i) \in Nat \ {0} /\ Edge(a, i) = Edge(a, i - 1) + Share(a, i)
         /\ \A i, j \in 0 .. n : i <= j => Edge(a, i) <= Edge(a, j)
<1> DEFINE p == Pool(a)
<1>1. /\ p \in Seq(UpstreamEndpoint) /\ p # <<>>
      /\ \A i \in DOMAIN p : p[i].weight > 0
  BY DEF Balances
<1>2. /\ n \in Nat /\ DOMAIN p = 1 .. n /\ \A k \in DOMAIN p : p[k].weight \in Nat
      /\ \A k \in 0 .. n : Weights(p, k) \in Nat
      /\ Weights(p, 0) = 0
      /\ \A k \in 1 .. n : Weights(p, k) = Weights(p, k - 1) + p[k].weight
  BY <1>1, WeightsSum
<1>3. n # 0
  BY <1>1
<1> HIDE DEF p
<1>4. /\ Edge(a, 0) = 0 /\ Edge(a, n) = Turn(a) /\ \A i \in 0 .. n : Edge(a, i) \in Nat
  BY SMTT(20), <1>2 DEF Edge, Turn, Total, p
<1>5. ASSUME NEW i \in 1 .. n
      PROVE  Share(a, i) \in Nat \ {0} /\ Edge(a, i) = Edge(a, i - 1) + Share(a, i)
  <2>1. i \in DOMAIN p /\ i = (i - 1) + 1 /\ p[i].weight \in Nat \ {0}
    BY SMTT(20), <1>1, <1>2
  <2>2. CASE Policy(a) = "RoundRobin"
    BY <2>1, <2>2 DEF Edge, Share
  <2>3. CASE Policy(a) # "RoundRobin"
    <3>1. Weights(p, i) = Weights(p, i - 1) + p[i].weight
      BY Zenon, <1>2
    <3> QED BY <2>1, <2>3, <3>1 DEF Edge, Share, p
  <2> QED BY <2>2, <2>3
<1>6. ASSUME NEW i \in 0 .. n, NEW j \in 0 .. n, i <= j PROVE Edge(a, i) <= Edge(a, j)
  <2> DEFINE Bad == {k \in i .. n : ~(Edge(a, i) <= Edge(a, k))}
  <2>1. SUFFICES ASSUME Bad # {} PROVE FALSE
    BY <1>2, <1>6
  <2>2. Bad \in SUBSET Nat
    BY <1>2
  <2>3. PICK k \in Bad : \A y \in Bad : k <= y
    <3> HIDE DEF Bad
    <3> QED BY <2>1, <2>2, LeastNumber
  <2>4. k \in i .. n /\ ~(Edge(a, i) <= Edge(a, k))
    BY <2>3
  <2>5. k # i
    BY <1>4, <2>4
  <2>6. k - 1 \in i .. n /\ k - 1 \in 0 .. n /\ k \in 1 .. n /\ ~(k <= k - 1)
    BY <1>2, <2>4, <2>5
  <2>7. Edge(a, i) <= Edge(a, k - 1)
    BY <2>3, <2>6
  <2>8. /\ Edge(a, k) = Edge(a, k - 1) + Share(a, k) /\ Share(a, k) \in Nat
        /\ Edge(a, i) \in Nat /\ Edge(a, k - 1) \in Nat
    BY <1>4, <1>5, <2>6
  <2> QED BY <2>4, <2>7, <2>8
<1>7. Turn(a) \in Nat \ {0}
  <2>1. /\ Edge(a, n) = Edge(a, n - 1) + Share(a, n)
        /\ Share(a, n) \in Nat \ {0} /\ Edge(a, n - 1) \in Nat
    BY SMTT(20), <1>2, <1>3, <1>4, <1>5
  <2> QED BY <1>4, <2>1
<1> QED BY <1>2, <1>3, <1>4, <1>5, <1>6, <1>7 DEF p

\* The endpoint whose turn it is, and no other.
LEMMA SelectedAt ==
  ASSUME NEW a, Balances(a), NEW c \in Nat, NEW i, i = Selected(a, c)
  PROVE  /\ i \in DOMAIN Pool(a) /\ c % Turn(a) \in 0 .. Turn(a) - 1
         /\ Edge(a, i - 1) <= c % Turn(a) /\ c % Turn(a) < Edge(a, i)
<1> DEFINE n == Len(Pool(a))
           p == c % Turn(a)
<1>1. /\ n \in Nat \ {0} /\ DOMAIN Pool(a) = 1 .. n
      /\ Edge(a, 0) = 0 /\ Edge(a, n) = Turn(a) /\ Turn(a) \in Nat \ {0}
      /\ \A k \in 0 .. n : Edge(a, k) \in Nat
  BY Edges
<1>2. p \in 0 .. Turn(a) - 1
  BY <1>1
<1>3. CASE Policy(a) = "RoundRobin"
  <2>1. Turn(a) = n /\ i = p + 1 /\ \A k : Edge(a, k) = k
    BY <1>3 DEF Turn, Edge, Selected
  <2> HIDE DEF p, n
  <2> QED BY <1>1, <1>2, <2>1 DEF p
<1>4. CASE Policy(a) # "RoundRobin"
  <2> DEFINE S == {k \in 1 .. n : p < Edge(a, k)}
  <2>1. i = Min(S)
    BY <1>1, <1>4 DEF Selected, Turn, Edge, Boundary
  <2> HIDE DEF p, n
  <2>2. n \in S
    BY <1>1, <1>2
  <2>3. S \in SUBSET Nat
    OBVIOUS
  <2>4. i \in S /\ \A k \in S : i <= k
    <3> HIDE DEF S
    <3> QED BY <2>1, <2>2, <2>3, MinOf
  <2>5. i \in 1 .. n /\ p < Edge(a, i)
    BY <2>4
  <2>6. i - 1 \in 0 .. n /\ ~(i <= i - 1)
    BY <1>1, <2>5
  <2>7. i - 1 \notin S
    <3> HIDE DEF S
    <3> QED BY <2>4, <2>6
  <2>8. Edge(a, i - 1) <= p
    <3>1. CASE i = 1
      BY <1>1, <1>2, <3>1
    <3>2. CASE i # 1
      <4>1. i - 1 \in 1 .. n /\ Edge(a, i - 1) \in Nat
        BY <1>1, <2>5, <2>6, <3>2
      <4>2. ~(p < Edge(a, i - 1))
        BY <2>7, <4>1
      <4> QED BY <1>2, <4>1, <4>2
    <3> QED BY <3>1, <3>2
  <2> QED BY <1>1, <1>2, <2>5, <2>8 DEF p
<1> QED BY <1>3, <1>4

LEMMA Division ==
  ASSUME NEW n \in Nat, NEW d \in Nat \ {0}
  PROVE  /\ n \div d \in Nat /\ n % d \in 0 .. d - 1
         /\ n = d * (n \div d) + (n % d)
OBVIOUS

LEMMA DivisionUnique ==
  ASSUME NEW d \in Nat \ {0}, NEW q \in Nat, NEW r \in 0 .. d - 1, NEW n \in Nat, n = d * q + r
  PROVE  n \div d = q /\ n % d = r
<1> DEFINE p == n \div d
           s == n % d
<1>1. p \in Nat /\ s \in 0 .. d - 1 /\ n = d * p + s
  BY Zenon, Division
<1> HIDE DEF p, s
<1>2. d * (p - q) = d * p - d * q /\ d * p \in Int /\ d * q \in Int
  BY <1>1
<1>3. d * (p - q) = r - s
  BY <1>1, <1>2
<1>4. p - q >= 1 => d * (p - q) >= d
  BY <1>1
<1>5. p - q <= -1 => d * (p - q) <= -d
  BY <1>1
<1>6. p - q = 0
  BY <1>1, <1>3, <1>4, <1>5
<1>7. p = q /\ r = s
  BY <1>1, <1>3, <1>6
<1> QED BY <1>7 DEF p, s

\* From quotient q and remainder r to those of the next number.
Carries(d, q, r, q1, r1) ==
  \/ r + 1 < d /\ r1 = r + 1 /\ q1 = q
  \/ r + 1 = d /\ r1 = 0 /\ q1 = q + 1

LEMMA DivisionNext ==
  ASSUME NEW c \in Nat, NEW d \in Nat \ {0}
  PROVE  Carries(d, c \div d, c % d, (c + 1) \div d, (c + 1) % d)
<1> DEFINE q == c \div d
           p == c % d
<1>1. q \in Nat /\ p \in 0 .. d - 1 /\ c = d * q + p
  BY Zenon, Division
<1> HIDE DEF q, p
<1>2. d * q \in Nat /\ d * (q + 1) = d * q + d
  BY <1>1
<1>3. CASE p + 1 < d
  <2>1. p + 1 \in 0 .. d - 1 /\ c + 1 = d * q + (p + 1)
    BY <1>1, <1>2, <1>3
  <2>2. (c + 1) \div d = q /\ (c + 1) % d = p + 1
    <3> DEFINE m == c + 1
               r == p + 1
    <3>1. m \in Nat /\ r \in 0 .. d - 1 /\ m = d * q + r
      BY <2>1
    <3> HIDE DEF m, r
    <3>2. m \div d = q /\ m % d = r
      BY <1>1, <3>1, DivisionUnique
    <3> QED BY <3>2 DEF m, r
  <2> QED BY <1>1, <1>3, <2>2 DEF q, p, Carries
<1>4. CASE p + 1 = d
  <2>1. 0 \in 0 .. d - 1 /\ c + 1 = d * (q + 1) + 0 /\ q + 1 \in Nat
    BY <1>1, <1>2, <1>4
  <2>2. (c + 1) \div d = q + 1 /\ (c + 1) % d = 0
    <3> DEFINE m == c + 1
               u == q + 1
               r == 0
    <3>1. m \in Nat /\ u \in Nat /\ r \in 0 .. d - 1 /\ m = d * u + r
      BY <2>1
    <3> HIDE DEF m, u, r
    <3>2. m \div d = u /\ m % d = r
      BY <3>1, DivisionUnique
    <3> QED BY <3>2 DEF m, u, r
  <2> QED BY <1>1, <1>4, <2>2 DEF q, p, Carries
<1> QED BY <1>1, <1>3, <1>4

\* How often endpoint i has been chosen when the cursor is at c.
Within(p, low, w) == IF p <= low THEN 0 ELSE IF p >= low + w THEN w ELSE p - low
Tally(a, i, c) ==
  (c \div Turn(a)) * Share(a, i) + Within(c % Turn(a), Edge(a, i - 1), Share(a, i))

LEMMA Product ==
  ASSUME NEW t \in Nat, NEW w \in Nat
  PROVE  t * w \in Nat /\ (t + 1) * w = t * w + w
OBVIOUS

LEMMA TallyBounds ==
  ASSUME NEW a, Balances(a), NEW i \in DOMAIN Pool(a), NEW c \in Nat,
         NEW t, t = c \div Turn(a), NEW w, w = Share(a, i)
  PROVE  /\ t * w \in Nat
         /\ Tally(a, i, c) \in t * w .. (t + 1) * w
         /\ c % Turn(a) = 0 => Tally(a, i, c) = t * w
<1> DEFINE n == Len(Pool(a))
           low == Edge(a, i - 1)
<1>1. /\ n \in Nat \ {0} /\ i \in 1 .. n /\ Turn(a) \in Nat \ {0} /\ w \in Nat
      /\ \A k \in 0 .. n : Edge(a, k) \in Nat
  BY Zenon, Edges
<1>2. low \in Nat
  BY <1>1
<1>3. t \in Nat /\ c % Turn(a) \in 0 .. Turn(a) - 1
  BY Zenon, <1>1, Division
<1>4. t * w \in Nat /\ (t + 1) * w = t * w + w
  <2>1. t \in Nat /\ w \in Nat
    BY <1>1, <1>3
  <2> QED BY Zenon, <2>1, Product
<1> HIDE DEF low, n
<1>5. Within(c % Turn(a), low, w) \in 0 .. w /\ (c % Turn(a) = 0 => Within(c % Turn(a), low, w) = 0)
  BY <1>1, <1>2, <1>3 DEF Within
<1>6. Tally(a, i, c) = t * w + Within(c % Turn(a), low, w)
  BY DEF Tally, low
<1> QED BY <1>1, <1>4, <1>5, <1>6

\* A selection counts one more for the endpoint it chose.
LEMMA TallyNext ==
  ASSUME NEW a, Balances(a), NEW c \in Nat, NEW i, i = Selected(a, c), NEW j \in DOMAIN Pool(a)
  PROVE  Tally(a, j, c + 1) = IF j = i THEN Tally(a, j, c) + 1 ELSE Tally(a, j, c)
<1> DEFINE n == Len(Pool(a))
           T == Turn(a)
           p == c % T
           t == c \div T
           w == Share(a, j)
           low == Edge(a, j - 1)
<1>1. /\ n \in Nat \ {0} /\ j \in 1 .. n /\ T \in Nat \ {0} /\ w \in Nat \ {0}
      /\ Edge(a, n) = T
      /\ \A k \in 0 .. n : Edge(a, k) \in Nat
      /\ \A k, m \in 0 .. n : k <= m => Edge(a, k) <= Edge(a, m)
      /\ Edge(a, j) = low + w
  BY Edges
<1>2. /\ i \in 1 .. n /\ p \in 0 .. T - 1 /\ Edge(a, i - 1) <= p /\ p < Edge(a, i)
  <2>1. DOMAIN Pool(a) = 1 .. n
    BY Edges
  <2>2. /\ i \in DOMAIN Pool(a) /\ p \in 0 .. T - 1 /\ Edge(a, i - 1) <= p /\ p < Edge(a, i)
    BY SelectedAt
  <2> QED BY <2>1, <2>2
<1>3. /\ p + 1 < T => (c + 1) % T = p + 1 /\ (c + 1) \div T = t
      /\ p + 1 = T => (c + 1) % T = 0 /\ (c + 1) \div T = t + 1
      /\ p + 1 < T \/ p + 1 = T
      /\ t \in Nat
  <2>1. T \in Nat \ {0}
    BY <1>1
  <2> HIDE DEF T
  <2>2. t \in Nat
    BY Zenon, <2>1, Division
  <2>3. Carries(T, t, p, (c + 1) \div T, (c + 1) % T)
    BY Zenon, <2>1, DivisionNext
  <2>4. p \in 0 .. T - 1
    BY <1>2
  <2> HIDE DEF p, t
  <2> QED BY <2>1, <2>2, <2>3, <2>4 DEF Carries
<1>4. t * w \in Nat /\ (t + 1) * w = t * w + w
  <2>1. t \in Nat /\ w \in Nat
    BY <1>1, <1>3
  <2> QED BY Zenon, <2>1, Product
<1>5. /\ Tally(a, j, c) = t * w + Within(p, low, w)
      /\ Tally(a, j, c + 1) = ((c + 1) \div T) * w + Within((c + 1) % T, low, w)
  BY DEF Tally
<1> HIDE DEF n, T, p, t, w, low
<1>6. low \in Nat /\ j - 1 \in 0 .. n /\ j \in 0 .. n /\ i \in 0 .. n /\ i - 1 \in 0 .. n
  BY <1>1, <1>2 DEF low
<1>7. low + w <= T
  BY <1>1, <1>6
<1>8. /\ j < i => low + w <= p
      /\ i < j => p < low
      /\ i = j => low <= p /\ p < low + w
  <2>1. j < i => j <= i - 1
    BY <1>1, <1>2
  <2>2. j < i => Edge(a, j) <= Edge(a, i - 1) /\ Edge(a, i - 1) \in Nat
    BY <1>1, <1>6, <2>1
  <2>3. i < j => i <= j - 1
    BY <1>1, <1>2
  <2>4. i < j => Edge(a, i) <= low /\ Edge(a, i) \in Nat
    BY <1>1, <1>6, <2>3 DEF low
  <2>5. /\ Edge(a, i - 1) <= p /\ p < Edge(a, i)
        /\ Edge(a, j) = low + w /\ (i = j => low = Edge(a, i - 1))
    BY Zenon, <1>1, <1>2 DEF low
  <2>6. p \in Nat /\ Edge(a, i) \in Nat /\ low \in Nat /\ w \in Nat
    BY <1>1, <1>2, <1>6
  <2> QED BY <1>2, <2>2, <2>4, <2>5, <2>6
<1>9. CASE p + 1 < T
  <2>1. Within(p + 1, low, w) = IF j = i THEN Within(p, low, w) + 1 ELSE Within(p, low, w)
    BY SMTT(20), <1>1, <1>2, <1>6, <1>8 DEF Within
  <2>2. Within(p, low, w) \in Nat
    BY <1>1, <1>2, <1>6 DEF Within
  <2> QED BY <1>3, <1>4, <1>5, <1>9, <2>1, <2>2
<1>10. CASE p + 1 = T
  <2>1. Within(0, low, w) = 0
    BY <1>6 DEF Within
  <2>2. w = IF j = i THEN Within(p, low, w) + 1 ELSE Within(p, low, w)
    BY <1>1, <1>2, <1>6, <1>7, <1>8, <1>10 DEF Within
  <2>3. Within(p, low, w) \in Nat
    BY <1>1, <1>2, <1>6 DEF Within
  <2> QED BY <1>3, <1>4, <1>5, <1>10, <2>1, <2>2, <2>3
<1> QED BY <1>3, <1>9, <1>10

\* Every cursor is a u64, and what was served since it was 0 is what it says.
Counted ==
  /\ cursors \in [Keys -> 0 .. Modulus - 1]
  /\ DOMAIN served = Keys /\ DOMAIN answers = Routes(config)
  /\ \A r \in BalancedRoutes :
       LET a == Route(r) IN
         served[Key(a)] = [i \in DOMAIN Pool(a) |-> Tally(a, i, cursors[Key(a)])]

LEMMA BalancedBalances ==
  ASSUME IsConfig(config), from_toml(config), NEW r \in BalancedRoutes
  PROVE  Balances(Route(r)) /\ Key(Route(r)) \in Keys /\ r \in Routes(config)
BY RouteValid DEF BalancedRoutes, Balanced, Keys

LEMMA TallyZero ==
  ASSUME NEW a, Balances(a), NEW i \in DOMAIN Pool(a)
  PROVE  Tally(a, i, 0) = 0
<1>1. Turn(a) \in Nat \ {0} /\ Share(a, i) \in Nat
  BY Zenon, Edges
<1>2. 0 \div Turn(a) = 0 /\ 0 % Turn(a) = 0
  BY <1>1
<1>3. Tally(a, i, 0) = 0 * Share(a, i)
  BY <1>2, TallyBounds
<1> QED BY <1>1, <1>3

LEMMA SharesExact ==
  ASSUME IsConfig(config), from_toml(config), Counted
  PROVE  GroupShareIsExact
<1> SUFFICES ASSUME NEW r \in BalancedRoutes
             PROVE  LET a == Route(r)
                        turns == cursors[Key(a)] \div Turn(a)
                        n == served[Key(a)]
                    IN  cursors[Key(a)] < Modulus /\ \A i \in DOMAIN n :
                          /\ n[i] \in turns * Share(a, i) .. (turns + 1) * Share(a, i)
                          /\ cursors[Key(a)] % Turn(a) = 0 => n[i] = turns * Share(a, i)
  BY Zenon DEF GroupShareIsExact
<1> DEFINE a == Route(r)
           c == cursors[Key(a)]
<1>1. Balances(a) /\ Key(a) \in Keys
  BY BalancedBalances
<1>2. c \in 0 .. Modulus - 1 /\ served[Key(a)] = [i \in DOMAIN Pool(a) |-> Tally(a, i, c)]
  BY Zenon, <1>1 DEF Counted
<1> HIDE DEF a, c
<1>3. c < Modulus /\ c \in Nat
  BY <1>2, ModulusAssumption
<1>4. ASSUME NEW i \in DOMAIN Pool(a)
      PROVE  /\ Tally(a, i, c) \in (c \div Turn(a)) * Share(a, i)
                                     .. ((c \div Turn(a)) + 1) * Share(a, i)
             /\ c % Turn(a) = 0 => Tally(a, i, c) = (c \div Turn(a)) * Share(a, i)
  BY <1>1, <1>3, TallyBounds
<1> QED BY Zenon, <1>2, <1>3, <1>4 DEF a, c

LEMMA CountedStarts ==
  ASSUME IsConfig(config), from_toml(config), BalancerInit
  PROVE  Counted /\ ValidatedRoutesGetAnUpstream
<1>1. cursors = [k \in Keys |-> 0] /\ DOMAIN served = Keys
      /\ answers = [r \in Routes(config) |-> NoAnswer]
  BY DEF BalancerInit
<1>2. ASSUME NEW r \in BalancedRoutes
      PROVE  served[Key(Route(r))]
               = [i \in DOMAIN Pool(Route(r)) |-> Tally(Route(r), i, cursors[Key(Route(r))])]
  <2> DEFINE a == Route(r)
             k == Key(a)
             s == CHOOSE s \in BalancedRoutes : Key(Route(s)) = k
  <2>1. Balances(a) /\ k \in Keys
    BY BalancedBalances
  <2>2. Key(Route(s)) = k
    OBVIOUS
  <2>3. Pool(Route(s)) = Pool(a)
    BY <2>2, SameKey
  <2>4. served[k] = [i \in DOMAIN Pool(Route(s)) |-> 0]
    BY <2>1 DEF BalancerInit
  <2> HIDE DEF a, k, s
  <2>5. cursors[k] = 0 /\ \A i \in DOMAIN Pool(a) : Tally(a, i, 0) = 0
    BY <1>1, <2>1, TallyZero
  <2>6. served[k] = [i \in DOMAIN Pool(a) |-> Tally(a, i, cursors[k])]
    BY <2>3, <2>4, <2>5
  <2> QED BY <2>6 DEF a, k
<1>3. cursors \in [Keys -> 0 .. Modulus - 1]
  BY <1>1, ModulusAssumption
<1> QED BY Zenon, <1>1, <1>2, <1>3 DEF Counted, ValidatedRoutesGetAnUpstream

\* The operators of the balancer depend on the configuration only.
LEMMA BalancerConstant ==
  ASSUME config' = config
  PROVE  /\ BalancedRoutes' = BalancedRoutes /\ Keys' = Keys
         /\ \A s : Route(s)' = Route(s)
         /\ \A b : Key(b)' = Key(b) /\ Pool(b)' = Pool(b)
<1>1. \A s : Route(s)' = Route(s)
  BY DEF Route
<1>2. \A b : /\ Key(b)' = Key(b) /\ Pool(b)' = Pool(b)
             /\ Policy(b)' = Policy(b) /\ Named(b)' = Named(b)
  BY DEF Key, group_key, Pool, Policy, Named
<1>3. \A b : Balanced(b)' = Balanced(b)
  BY DEF Balanced, Failure, Known, Pool, Policy, Named
<1>4. BalancedRoutes' = BalancedRoutes
  BY Zenon, <1>1 DEF BalancedRoutes, Balanced, Failure, Known, Pool, Policy, Named, Route
<1>5. Keys' = Keys
  BY <1>4 DEF Keys, Key, group_key, Named, Route
<1> QED BY <1>1, <1>2, <1>4, <1>5

LEMMA CountedNext ==
  ASSUME config' = config, cursors' \in [Keys -> 0 .. Modulus - 1],
         DOMAIN served' = Keys, DOMAIN answers' = Routes(config),
         \A r \in BalancedRoutes :
           served'[Key(Route(r))]
             = [i \in DOMAIN Pool(Route(r)) |-> Tally(Route(r), i, cursors'[Key(Route(r))])]
  PROVE  Counted'
<1>1. BalancedRoutes' = BalancedRoutes /\ Keys' = Keys
  BY Zenon, BalancerConstant
<1>2. ASSUME NEW r \in BalancedRoutes
      PROVE  (served[Key(Route(r))]
                = [i \in DOMAIN Pool(Route(r)) |-> Tally(Route(r), i, cursors[Key(Route(r))])])'
  <2>1. /\ served[Key(Route(r))]' = served'[Key(Route(r))]
        /\ cursors[Key(Route(r))]' = cursors'[Key(Route(r))]
    BY Zenon DEF Key, group_key, Named, Route
  <2>2. Pool(Route(r))' = Pool(Route(r))
    BY Zenon DEF Pool, Named, Route
  <2>3. ASSUME NEW i
        PROVE  Tally(Route(r), i, cursors[Key(Route(r))])'
                 = Tally(Route(r), i, cursors'[Key(Route(r))])
    <3>1. /\ Turn(Route(r))' = Turn(Route(r)) /\ Share(Route(r), i)' = Share(Route(r), i)
          /\ Edge(Route(r), i - 1)' = Edge(Route(r), i - 1)
      BY Zenon DEF Turn, Share, Edge, Pool, Policy, Named, Route
    <3> QED BY Zenon, <2>1, <3>1 DEF Tally
  <2> QED BY Zenon, <2>1, <2>2, <2>3
<1> QED BY Zenon, <1>1, <1>2 DEF Counted

LEMMA OkResult ==
  ASSUME NEW url, NEW x, x = <<"Ok", url>> PROVE x[1] = "Ok" /\ x[2] = url
OBVIOUS

LEMMA SelectCounts ==
  ASSUME IsConfig(config), from_toml(config), Counted, ValidatedRoutesGetAnUpstream,
         config' = config, NEW r \in Routes(config), SelectEndpoint(r)
  PROVE  Counted' /\ ValidatedRoutesGetAnUpstream'
<1> DEFINE a == Route(r)
           k == Key(a)
           c == cursors[k]
           i == Selected(a, c)
<1>1. Balances(a) /\ k \in Keys /\ r \in BalancedRoutes
  <2>1. r \in BalancedRoutes
    BY DEF SelectEndpoint, BalancedRoutes
  <2> QED BY <2>1, BalancedBalances
<1>2. /\ cursors' = [cursors EXCEPT ![k] = Advance(cursors[k])]
      /\ answers' = [answers EXCEPT ![r] = <<"Ok", Pool(a)[i].url>>]
      /\ served' = [served EXCEPT ![k] = IF cursors'[k] = 0 THEN [j \in DOMAIN served[k] |-> 0]
                                         ELSE [served[k] EXCEPT ![i] = served[k][i] + 1]]
  <2>1. cursors' = [cursors EXCEPT ![k] = Advance(cursors[k])]
    BY DEF SelectEndpoint
  <2>2. answers' = [answers EXCEPT ![r] = <<"Ok", Pool(a)[i].url>>]
    BY DEF SelectEndpoint
  <2>3. served' = [served EXCEPT ![k] = IF cursors'[k] = 0 THEN [j \in DOMAIN served[k] |-> 0]
                                         ELSE [served[k] EXCEPT ![i] = served[k][i] + 1]]
    BY DEF SelectEndpoint
  <2> QED BY <2>1, <2>2, <2>3
<1>3. /\ cursors \in [Keys -> 0 .. Modulus - 1] /\ DOMAIN served = Keys
      /\ DOMAIN answers = Routes(config)
      /\ served[k] = [j \in DOMAIN Pool(a) |-> Tally(a, j, c)]
  BY Zenon, <1>1 DEF Counted
<1>4. c \in 0 .. Modulus - 1 /\ c \in Nat
  <2>1. c \in 0 .. Modulus - 1
    BY Zenon, <1>1, <1>3
  <2> QED BY <2>1, ModulusAssumption
<1>5. i \in DOMAIN Pool(a)
  BY <1>1, <1>4, SelectedAt
<1>6. \A j \in DOMAIN Pool(a) :
        Tally(a, j, c + 1) = IF j = i THEN Tally(a, j, c) + 1 ELSE Tally(a, j, c)
  <2> HIDE DEF a, c
  <2> QED BY <1>1, <1>4, TallyNext
<1>7. \A j \in DOMAIN Pool(a) : Tally(a, j, 0) = 0
  BY <1>1, TallyZero
<1>8. Pool(a)[i].url # Blank
  BY Zenon, <1>1, <1>5 DEF Balances
<1>9. \A s \in BalancedRoutes : Key(Route(s)) = k =>
        /\ Pool(Route(s)) = Pool(a)
        /\ \A j, n : Tally(Route(s), j, n) = Tally(a, j, n)
  <2> SUFFICES ASSUME NEW s \in BalancedRoutes, Key(Route(s)) = k
               PROVE  /\ Pool(Route(s)) = Pool(a)
                      /\ \A j, n : Tally(Route(s), j, n) = Tally(a, j, n)
    OBVIOUS
  <2>1. Pool(Route(s)) = Pool(a) /\ Policy(Route(s)) = Policy(a)
    BY SameKey
  <2> QED BY Zenon, <2>1 DEF Tally, Turn, Share, Edge
<1>10. \A s \in BalancedRoutes :
         /\ served[Key(Route(s))]
              = [j \in DOMAIN Pool(Route(s)) |-> Tally(Route(s), j, cursors[Key(Route(s))])]
         /\ Key(Route(s)) \in Keys
  BY Zenon, BalancedBalances DEF Counted
<1> HIDE DEF a, k, c, i
<1>11. /\ Advance(c) \in 0 .. Modulus - 1
       /\ Advance(c) = 0 \/ (Advance(c) = c + 1 /\ c + 1 # 0)
  BY <1>4, ModulusAssumption DEF Advance
<1>12. /\ cursors'[k] = Advance(c) /\ cursors' \in [Keys -> 0 .. Modulus - 1]
       /\ \A x \in Keys : x # k => cursors'[x] = cursors[x] /\ served'[x] = served[x]
       /\ DOMAIN served' = Keys /\ DOMAIN answers' = Routes(config)
  BY <1>1, <1>2, <1>3, <1>11 DEF c
<1>13. served'[k] = [j \in DOMAIN Pool(a) |-> Tally(a, j, cursors'[k])]
  <2>1. CASE Advance(c) = 0
    <3>1. DOMAIN served[k] = DOMAIN Pool(a)
      BY Zenon, <1>3
    <3>2. served'[k] = [j \in DOMAIN served[k] |-> 0]
      BY Zenon, <1>1, <1>2, <1>3, <1>12, <2>1
    <3>3. cursors'[k] = 0
      BY Zenon, <1>12, <2>1
    <3> QED BY Zenon, <1>7, <3>1, <3>2, <3>3
  <2>2. CASE Advance(c) = c + 1 /\ c + 1 # 0
    <3>1. served'[k] = [served[k] EXCEPT ![i] = served[k][i] + 1]
      BY <1>1, <1>2, <1>3, <1>12, <2>2
    <3>2. cursors'[k] = c + 1
      BY <1>12, <2>2
    <3> QED BY Zenon, <1>3, <1>5, <1>6, <3>1, <3>2
  <2> QED BY Zenon, <1>11, <2>1, <2>2
<1>14. ASSUME NEW s \in BalancedRoutes
       PROVE  served'[Key(Route(s))]
                = [j \in DOMAIN Pool(Route(s)) |-> Tally(Route(s), j, cursors'[Key(Route(s))])]
  <2>1. CASE Key(Route(s)) = k
    <3>1. /\ Pool(Route(s)) = Pool(a)
          /\ \A j : Tally(Route(s), j, cursors'[k]) = Tally(a, j, cursors'[k])
      BY Zenon, <1>9, <2>1
    <3> QED BY Zenon, <1>13, <2>1, <3>1
  <2>2. CASE Key(Route(s)) # k
    BY Zenon, <1>10, <1>12, <2>2
  <2> QED BY Zenon, <2>1, <2>2
<1>15. Counted'
  BY <1>12, <1>14, CountedNext
<1>16. ValidatedRoutesGetAnUpstream'
  <2>1. Routes(config)' = Routes(config)
    OBVIOUS
  <2>2. ASSUME NEW s \in Routes(config), answers'[s] # NoAnswer
        PROVE  answers'[s][1] = "Ok" /\ answers'[s][2] # Blank
    <3>1. CASE s = r
      <4>1. answers'[s] = <<"Ok", Pool(a)[i].url>>
        BY <1>2, <1>3, <3>1
      <4> QED BY <1>8, <4>1
    <3>2. CASE s # r
      <4>1. answers'[s] = answers[s]
        BY <1>2, <1>3, <3>2
      <4> QED BY <2>2, <4>1 DEF ValidatedRoutesGetAnUpstream
    <3> QED BY <3>1, <3>2
  <2> QED BY <2>1, <2>2 DEF ValidatedRoutesGetAnUpstream
<1> QED BY <1>15, <1>16

LEMMA FixedCounts ==
  ASSUME IsConfig(config), from_toml(config), Counted, ValidatedRoutesGetAnUpstream,
         config' = config, NEW r \in Routes(config), SelectFixed(r)
  PROVE  Counted' /\ ValidatedRoutesGetAnUpstream'
<1> DEFINE a == Route(r)
<1>1. Failure(a) = None /\ a.upstream # Blank
  BY RouteValid
<1>2. cursors' = cursors /\ served' = served
      /\ answers' = [answers EXCEPT ![r] = <<"Ok", a.upstream>>]
  BY <1>1 DEF SelectFixed
<1> HIDE DEF a
<1>3. /\ cursors \in [Keys -> 0 .. Modulus - 1] /\ DOMAIN served = Keys
      /\ DOMAIN answers = Routes(config)
      /\ \A s \in BalancedRoutes : served[Key(Route(s))]
           = [j \in DOMAIN Pool(Route(s)) |-> Tally(Route(s), j, cursors[Key(Route(s))])]
  BY Zenon DEF Counted
<1>4. Counted'
  <2>1. DOMAIN answers' = Routes(config)
    BY Zenon, <1>2, <1>3
  <2> QED BY <1>2, <1>3, <2>1, CountedNext
<1>5. ValidatedRoutesGetAnUpstream'
  <2>1. ASSUME NEW s \in Routes(config), answers'[s] # NoAnswer
        PROVE  answers'[s][1] = "Ok" /\ answers'[s][2] # Blank
    <3>1. CASE s = r
      <4>1. answers'[s] = <<"Ok", a.upstream>>
        BY <1>2, <1>3, <3>1
      <4>2. a.upstream # Blank
        BY <1>1
      <4> QED BY Zenon, <4>1, <4>2, OkResult
    <3>2. CASE s # r
      <4>1. answers'[s] = answers[s]
        BY <1>2, <1>3, <3>2
      <4> QED BY <2>1, <4>1 DEF ValidatedRoutesGetAnUpstream
    <3> QED BY <3>1, <3>2
  <2>2. Routes(config)' = Routes(config)
    OBVIOUS
  <2> QED BY <2>1, <2>2 DEF ValidatedRoutesGetAnUpstream
<1> QED BY <1>4, <1>5


=============================================================================
