----------------------------- MODULE FileStream ------------------------------
(***************************************************************************)
(* A file response (run/slave/src/static_files.rs): the head is made from  *)
(* the file's metadata and the Range header; a thread of its own then      *)
(* opens the file, reads it in chunks and sends them through a channel of  *)
(* two, while the file may change and the connection may go away.          *)
(* Offsets and lengths count units of which STREAM_CHUNK_SIZE is a few.    *)
(***************************************************************************)
EXTENDS Integers, Sequences

CONSTANTS
  MaxSize,     \* bound: size of the file
  Chunk,       \* STREAM_CHUNK_SIZE
  MaxChanges   \* bound: changes of the file while it is served

ASSUME FileStreamAssumption ==
  MaxSize \in Nat /\ Chunk \in Nat \ {0} /\ MaxChanges \in Nat

Capacity == 2  \* sync_channel(2)
Gone == -1
Empty == -1  \* in a Range: no digits
Junk == -2   \* in a Range: not a u64; in the channel: an error
NoRange == [form |-> "absent"]

\* A Range header; its form is "other" if it lacks the unit "bytes=", "list" if it has a
\* comma, "bare" if it has no dash.
Offsets == Nat \cup {Empty, Junk}
RangeHeaders ==
  [form : {"absent", "other", "list", "bare"}] \cup [form : {"dash"}, start : Offsets, end : Offsets]

VARIABLES
  path,      \* size of the file the path names, or Gone
  fd,        \* size of the file the thread has open
  changes,   \* changes of the file still to come
  head,      \* [status, start, length]: what the head says; it was made from stat and range
  thread,    \* [pc, pos, remaining]: the reading thread
  chunks,    \* the channel: sequences of offsets, or <<Junk>> for an error
  receiver,  \* "none", "open", "failed", "finished" or "dropped"
  body       \* the offsets of the file that were received

fileVars == <<path, fd, changes, head, thread, chunks, receiver, body>>

-----------------------------------------------------------------------------
(* parse_range and static_stream_response.                                   *)

Fails(status) == [status |-> status, start |-> 0, end |-> 0]

Least(a, b) == IF a < b THEN a ELSE b

\* Mutant: the end of the range is not cut at the end of the file.
Bounded_uncut(start, end, length) ==
  IF start >= length \/ start > end THEN Fails(416) ELSE [status |-> 206, start |-> start, end |-> end]

Bounded(start, end, length) ==
  LET last == Least(end, length - 1)
  IN  IF start >= length \/ start > last THEN Fails(416)
      ELSE [status |-> 206, start |-> start, end |-> last]

parse_range(r, length) ==
  IF r.form = "other" THEN Fails(400)
  ELSE IF r.form = "list" \/ length = 0 THEN Fails(416)
  ELSE IF r.form = "bare" THEN Fails(400)
  ELSE IF r.start = Empty
    THEN IF r.end \in {Empty, Junk} THEN Fails(400)
         ELSE IF r.end = 0 THEN Fails(416)
         ELSE Bounded(length - Least(r.end, length), length - 1, length)
  ELSE IF r.start = Junk \/ r.end = Junk THEN Fails(400)
  ELSE Bounded(r.start, IF r.end = Empty THEN length - 1 ELSE r.end, length)

\* The head for a request when the file has the given size.
static_stream_response(q, size) ==
  LET range == IF q.range = NoRange THEN [status |-> 200, start |-> 0, end |-> size - 1]
               ELSE parse_range(q.range, size)
      Answer(status, start, length) ==
        [status |-> status, start |-> start, length |-> length, stat |-> size, range |-> q.range]
  IN  IF q.method \notin {"GET", "HEAD"} THEN Answer(405, 0, 0)
      ELSE IF size = Gone THEN Answer(404, 0, 0)
      ELSE IF q.match THEN Answer(304, 0, 0)
      ELSE IF range.status \notin {200, 206} THEN Answer(range.status, 0, 0)
      ELSE Answer(range.status, range.start, IF size = 0 THEN 0 ELSE range.end - range.start + 1)

Streams(q, h) == h.status \in {200, 206} /\ q.method = "GET" /\ h.length > 0

\* The answer to the request q of a connection.
Respond(q) ==
  /\ thread.pc = "none" /\ head.status = 0
  /\ LET h == static_stream_response(q, path)
     IN  /\ head' = h
         /\ IF Streams(q, h)
            THEN /\ thread' = [pc |-> "open", pos |-> h.start, remaining |-> h.length]
                 /\ receiver' = "open"
            ELSE UNCHANGED <<thread, receiver>>
  /\ UNCHANGED <<path, fd, changes, chunks, body>>

-----------------------------------------------------------------------------
(* spawn_file_stream: the thread.                                            *)

Fail == thread' = [thread EXCEPT !.pc = "send error"]

\* File::open and seek.
Open ==
  /\ thread.pc = "open"
  /\ IF path = Gone THEN Fail /\ UNCHANGED fd
     ELSE fd' = path /\ thread' = [thread EXCEPT !.pc = "read"]
  /\ UNCHANGED <<path, changes, head, chunks, receiver, body>>

ChunkLen == Least(Chunk, thread.remaining)

\* Mutant: a single read, which may return less than the buffer; a read of 0 ends.
ReadExact_once ==
  IF thread.pos >= fd THEN thread' = [thread EXCEPT !.pc = "end"]
  ELSE thread' = [thread EXCEPT !.pc = "send"]

\* read_exact fails when the file ends within the chunk.
ReadExact ==
  IF thread.pos + ChunkLen > fd THEN Fail
  ELSE thread' = [thread EXCEPT !.pc = "send"]

Read ==
  /\ thread.pc = "read"
  /\ ReadExact
  /\ UNCHANGED <<path, fd, changes, head, chunks, receiver, body>>

\* Mutant: the thread waits for room even when the receiver is gone.
CanSend_room == Len(chunks) < Capacity

\* send returns when there is room or the receiver is gone.
CanSend == Len(chunks) < Capacity \/ receiver # "open"

\* The thread after a chunk was sent; with nothing remaining it ends.
Sent ==
  [pc |-> IF thread.remaining = ChunkLen THEN "end" ELSE "read",
   pos |-> thread.pos + ChunkLen, remaining |-> thread.remaining - ChunkLen]

Send ==
  /\ thread.pc = "send" /\ CanSend
  /\ IF receiver = "open"
     THEN /\ chunks' = Append(chunks, [i \in 1 .. ChunkLen |-> thread.pos + i - 1])
          /\ thread' = Sent
     ELSE thread' = [thread EXCEPT !.pc = "end"] /\ UNCHANGED chunks
  /\ UNCHANGED <<path, fd, changes, head, receiver, body>>

SendError ==
  /\ thread.pc = "send error" /\ CanSend
  /\ chunks' = IF receiver = "open" THEN Append(chunks, <<Junk>>) ELSE chunks
  /\ thread' = [thread EXCEPT !.pc = "end"]
  /\ UNCHANGED <<path, fd, changes, head, receiver, body>>

-----------------------------------------------------------------------------
(* The worker's side of the channel, and the file system.                    *)

\* Mutant: the worker keeps a sender, so the channel is never disconnected.
Disconnected_never == FALSE

Disconnected == chunks = <<>> /\ thread.pc = "end"

\* try_next by advance_static_stream: data, an error (the connection is closed),
\* or Finished; Pending changes nothing.
TryNext ==
  /\ receiver = "open"
  /\ \/ /\ chunks # <<>> /\ Head(chunks) # <<Junk>>
        /\ body' = body \o Head(chunks) /\ chunks' = Tail(chunks)
        /\ UNCHANGED receiver
     \/ /\ chunks # <<>> /\ Head(chunks) = <<Junk>>
        /\ receiver' = "failed" /\ chunks' = Tail(chunks) /\ UNCHANGED body
     \/ /\ Disconnected
        /\ receiver' = "finished" /\ UNCHANGED <<chunks, body>>
  /\ UNCHANGED <<path, fd, changes, head, thread>>

\* remove_connection drops the stream with the connection: the client left, a deadline.
\* Chunks still in the channel are lost with it.
Drop ==
  /\ receiver = "open"
  /\ receiver' = "dropped"
  /\ UNCHANGED <<path, fd, changes, head, thread, chunks, body>>

\* The file is removed, replaced (the open one is not) or resized in place.
FileChanges ==
  /\ changes > 0 /\ changes' = changes - 1
  /\ \E n \in Gone .. MaxSize :
       /\ path' = n
       /\ \/ UNCHANGED fd
          \/ n # Gone /\ fd # Gone /\ fd' = n
  /\ UNCHANGED <<head, thread, chunks, receiver, body>>

\* A file of one of the sizes, that may change if n > 0.
FileInit(sizes, n) ==
  /\ path \in sizes /\ fd = Gone /\ changes = n
  /\ head = [status |-> 0, start |-> 0, length |-> 0, stat |-> 0, range |-> NoRange]
  /\ thread = [pc |-> "none", pos |-> 0, remaining |-> 0]
  /\ chunks = <<>> /\ receiver = "none" /\ body = <<>>

Thread == Open \/ Read \/ Send \/ SendError

-----------------------------------------------------------------------------
\* The bytes of a file of the given size that a Range header asks for.
Asked(r, size) ==
  {i \in 0 .. size - 1 :
     IF r.start = Empty THEN i >= size - r.end
     ELSE i >= r.start /\ (r.end = Empty \/ i <= r.end)}

WellFormed(r) ==
  r.form = "dash" /\ {r.start, r.end} # {Empty} /\ Junk \notin {r.start, r.end}

\* What a 206 announces is the set of bytes of the file, as large as it was, that the
\* Range header asks for; it is 416 when a well-formed Range asks for none of them.
RangeIsWhatWasAsked ==
  head.range # NoRange /\ head.status \in {206, 416} =>
    LET wanted == Asked(head.range, head.stat)
        given == head.start .. head.start + head.length - 1
    IN  IF head.status = 206 THEN given = wanted /\ wanted # {}
        ELSE WellFormed(head.range) => wanted = {}

\* However the file changes between fs::metadata, open and the reads, what is sent after
\* the head is a prefix of the range the head announces, and all of it unless the stream
\* ends with an error: a file that got too short or vanished never ends as if complete.
BodyIsTheRange ==
  /\ Len(body) <= head.length
  /\ \A i \in DOMAIN body : body[i] = head.start + i - 1
  /\ receiver = "finished" => Len(body) = head.length

\* When the connection is gone the thread ends, even if it waits on a full channel.
ThreadOutlivesNoConnection == receiver \in {"failed", "dropped"} ~> thread.pc = "end"

\* With a connection that keeps receiving, every stream ends.
EveryStreamEnds == receiver = "open" ~> receiver # "open"

=============================================================================
