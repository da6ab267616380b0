----------------------------- MODULE Connection -----------------------------
(***************************************************************************)
(* One HTTP/1.1 connection of goose-http: Connection::run and              *)
(* respond_with_error (src/conn/mod.rs) with the head detection and the    *)
(* body readers they call (src/parse/mod.rs), facing one client over TCP.  *)
(*                                                                         *)
(* The client writes a stream of Wire, in segments of any length, and may  *)
(* stop, shut down its sending side, or reset the connection at any time.  *)
(* The server reads any number of the bytes that have arrived.  Positions  *)
(* are absolute offsets: self.buffer holds the bytes from pos up to read.  *)
(***************************************************************************)
EXTENDS Wire, Sequences

CONSTANTS
    Responses,    \* what a handler may come back with: a set of Response
    Timers,       \* whether the timeouts of ConnectionConfig may elapse
    Resets        \* whether the client may reset the connection

\* close:  the response has "close" in its first Connection field line
\* encode: how write_response ends when the peer takes all bytes: "ok", an error
\*         before the first byte ("conflict"), an error inside a streamed body
\*         ("stream"), never, as the streamed body yields nothing any more
\*         ("pending"); or the handler panics and there is no response ("panic")
Response == [close  : BOOLEAN,
             encode : {"ok", "conflict", "stream", "pending", "panic"}]

ASSUME ResponsesAssumption == Responses \subseteq Response /\ Responses # {}
ASSUME SwitchesAssumption  == Timers \in BOOLEAN /\ Resets \in BOOLEAN

VARIABLES
    wire,        \* what the client is going to write (never changes)
    sent,        \* bytes the client has written
    eof,         \* the client has shut down its sending side
    reset,       \* the client has reset the connection
    read,        \* bytes the server has taken from the socket
    pos,         \* bytes the parser has consumed
    phase,       \* where Connection::run is
    stage,       \* the state of the body reader
    remaining,   \* remaining, current_chunk_remaining
    cur,         \* the element that held the head of the current request
    body,        \* offsets of the bytes gathered for the current request
    response,    \* the response on its way to the socket
    handled,     \* calls of the handler: request number and body bytes
    continued,   \* requests for which "100 Continue" was written
    replies,     \* final responses written to the socket
    result       \* what Connection::run returns, once that is decided

client == <<wire, sent, eof, reset>>
reader == <<stage, remaining, body>>
output == <<handled, continued, replies, response>>
vars   == <<client, read, pos, phase, reader, cur, output, result>>

Phases  == {"idle", "continue", "body", "handle", "respond", "reject", "done"}
Stages  == {"none", "fixed", "size", "data", "crlf", "trailers", "done"}
Results == {"running", "Ok", "HeaderTooLarge", "Incomplete", "Parse", "Body",
            "TimeoutHeader", "TimeoutIdle", "TimeoutBody", "Io", "Encode",
            "Panic"}

Call  == [msg : Nat, body : SUBSET Nat]
Reply == [kind : {"response", "partial", "error"}, status : {0, 400, 408},
          msg : Nat, close : BOOLEAN]

NoResponse == [close |-> FALSE, encode |-> "ok"]

TypeOK ==
    /\ wire \in Streams
    /\ sent \in Nat /\ read \in Nat /\ pos \in Nat
    /\ pos <= read /\ read <= sent /\ sent <= Total(wire)
    /\ eof \in BOOLEAN /\ reset \in BOOLEAN
    /\ phase \in Phases /\ stage \in Stages /\ result \in Results
    /\ remaining \in Nat
    /\ cur \in 0 .. wire.count
    /\ body \subseteq Nat
    /\ response \in Response
    /\ handled \in Seq(Call)
    /\ continued \subseteq Nat
    /\ replies \in Seq(Reply)

Init ==
    /\ wire \in Streams
    /\ sent = 0 /\ eof = FALSE /\ reset = FALSE
    /\ read = 0 /\ pos = 0
    /\ phase = "idle" /\ stage = "none" /\ remaining = 0
    /\ cur = 0 /\ body = {}
    /\ response = NoResponse
    /\ handled = <<>> /\ continued = {} /\ replies = <<>>
    /\ result = "running"

-----------------------------------------------------------------------------
\* The client and the network.

ClientSends ==
    /\ ~eof /\ ~reset
    /\ \E n \in 1 .. (Total(wire) - sent) : sent' = sent + n
    /\ UNCHANGED <<wire, eof, reset, read, pos, phase, reader, cur, output, result>>

ClientShutsDown ==
    /\ ~eof /\ ~reset
    /\ eof' = TRUE
    /\ UNCHANGED <<wire, sent, reset, read, pos, phase, reader, cur, output, result>>

ClientResets ==
    /\ Resets /\ ~reset
    /\ reset' = TRUE
    /\ UNCHANGED <<wire, sent, eof, read, pos, phase, reader, cur, output, result>>

-----------------------------------------------------------------------------
\* What the buffer holds.

Buffered == read - pos

\* Mutant: the terminator is missed when it is the last thing in the buffer.
HeadEndLate(q, c) == HeadIn(wire, pos, q, c) /\ c < q

\* find_headers_end, of a buffer that ends at offset q
HeadEnd(q, c) == HeadIn(wire, pos, q, c)

NeedsMoreHead == ~ \E c \in HeadEnds(wire) : HeadEnd(read, c)
NeedsMoreLine == ~ \E c \in wire.crlf : LineIn(wire, pos, read, c)

\* Mutant: the limit is applied to all that is buffered.
BufferExceedsLimit(q) == q - pos > HeaderLimit

\* incomplete_head_exceeds_limit, of a buffer that ends at offset q
HeadExceedsLimit(q) ==
    /\ ~ \E c \in HeadEnds(wire) : HeadEnd(q, c)
    /\ q - pos > HeaderLimit

Request == wire.el[cur]
Msg     == wire.msg[cur]

\* processed_requests: the loop has written a response before.
ProcessedRequests == replies # <<>>

\* The read returns 0.
AtEof == eof /\ read = sent

-----------------------------------------------------------------------------
\* How run() ends.

Return(r) == phase' = "done" /\ result' = r

Answer(kind, status, m, close) ==
    replies' = Append(replies, [kind |-> kind, status |-> status,
                                msg |-> m, close |-> close])

\* respond_with_error is called; Err(r) is returned once it has written.
Reject(r) ==
    /\ phase' = "reject" /\ result' = r
    /\ UNCHANGED <<client, reader, cur, output>>

ErrorStatus ==
    IF result \in {"TimeoutHeader", "TimeoutIdle", "TimeoutBody"} THEN 408 ELSE 400

Fail(r) ==
    /\ Return(r)
    /\ UNCHANGED <<client, read, pos, reader, cur, output>>

-----------------------------------------------------------------------------
\* Waiting for a request head.

\* read_buf, then the second look at the limit, before the loop starts over.
ReadHead ==
    /\ phase = "idle" /\ NeedsMoreHead /\ ~HeadExceedsLimit(read)
    /\ \E n \in 1 .. (sent - read) :
          /\ read' = read + n
          /\ IF HeadExceedsLimit(read + n)
             THEN Reject("HeaderTooLarge")
             ELSE UNCHANGED <<client, phase, reader, cur, output, result>>
    /\ UNCHANGED pos

\* The look at the limit at the top of the loop: bytes read past a chunked body
\* may already exceed it.
RejectLongHead ==
    /\ phase = "idle" /\ HeadExceedsLimit(read)
    /\ Reject("HeaderTooLarge")
    /\ UNCHANGED <<read, pos>>

\* Mutant: every end of input counts as an orderly one.
HeadEofQuiet ==
    /\ phase = "idle" /\ NeedsMoreHead /\ ~HeadExceedsLimit(read)
    /\ AtEof
    /\ Fail("Ok")

HeadEof ==
    /\ phase = "idle" /\ NeedsMoreHead /\ ~HeadExceedsLimit(read)
    /\ AtEof
    /\ IF Buffered = 0 THEN Fail("Ok")
                       ELSE Reject("Incomplete") /\ UNCHANGED <<read, pos>>

HeadIoError ==
    /\ phase = "idle" /\ NeedsMoreHead /\ ~HeadExceedsLimit(read)
    /\ reset
    /\ Fail("Io")

\* Mutant: a connection that has answered something is left waiting.
FirstHeadTimeout ==
    /\ Timers
    /\ phase = "idle" /\ NeedsMoreHead /\ ~HeadExceedsLimit(read)
    /\ read = sent /\ ~eof /\ ~reset
    /\ ~ProcessedRequests
    /\ Reject("TimeoutHeader")
    /\ UNCHANGED <<read, pos>>

\* tokio polls the read before the timer, so the timer wins only when there is
\* nothing to read.
HeadTimeout ==
    /\ Timers
    /\ phase = "idle" /\ NeedsMoreHead /\ ~HeadExceedsLimit(read)
    /\ read = sent /\ ~eof /\ ~reset
    /\ Reject(IF Buffered = 0 /\ ProcessedRequests THEN "TimeoutIdle"
                                                   ELSE "TimeoutHeader")
    /\ UNCHANGED <<read, pos>>

-----------------------------------------------------------------------------
\* The head is in the buffer.

\* Element k is what parse_request_head makes of the bytes from pos up to c.
HeadAt(k, c) ==
    /\ wire.el[k].kind = "head" /\ wire.el[k].ok
    /\ From(wire, k) = pos /\ wire.to[k] = c
    /\ c - pos <= HeaderLimit

\* BodyMode::Fixed(0) goes through a reader that is finished at once.
FirstStage(e) ==
    CASE e.mode = "none"    -> "none"
      [] e.mode = "fixed"   -> IF e.n = 0 THEN "done" ELSE "fixed"
      [] e.mode = "chunked" -> "size"

AfterHead(e) == IF e.mode = "none" THEN "handle" ELSE "body"
AfterExpect(e) == IF e.expect THEN "continue" ELSE AfterHead(e)

ParseHead ==
    /\ phase = "idle"
    /\ \E c \in HeadEnds(wire), k \in Elements(wire) :
          /\ HeadEnd(read, c)
          /\ HeadAt(k, c)
          /\ pos' = c
          /\ cur' = k
          /\ phase' = AfterExpect(wire.el[k])
          /\ stage' = FirstStage(wire.el[k])
          /\ remaining' = IF wire.el[k].mode = "fixed" THEN wire.el[k].n ELSE 0
    /\ body' = {}
    /\ UNCHANGED <<client, read, output, result>>

RejectHead ==
    /\ phase = "idle"
    /\ \E c \in HeadEnds(wire) :
          /\ HeadEnd(read, c)
          /\ ~ \E k \in Elements(wire) : HeadAt(k, c)
          /\ Reject(IF c - pos > HeaderLimit THEN "HeaderTooLarge" ELSE "Parse")
    /\ UNCHANGED <<read, pos>>

\* The interim response goes out before any byte of the body is asked for.
WriteContinue ==
    /\ phase = "continue"
    /\ \/ /\ continued' = continued \cup {Msg}
          /\ phase' = AfterHead(Request)
          /\ UNCHANGED <<client, read, pos, reader, cur, handled, replies,
                         response, result>>
       \/ reset /\ Fail("Encode")

-----------------------------------------------------------------------------
\* The body readers.  All of a body is gathered under one timeout.

Draining  == stage \in {"fixed", "data"} /\ remaining > 0
NeedsRead == \/ Draining /\ Buffered = 0
             \/ stage = "crlf" /\ Buffered < 2
             \/ stage \in {"size", "trailers"} /\ NeedsMoreLine

\* Mutant: all that is buffered is taken for payload.
WholeBuffer == Buffered

\* min(buffer.len(), remaining)
Share == IF Buffered < remaining THEN Buffered ELSE remaining

\* What remains to be read once n more payload bytes are in hand.
Take(n) ==
    /\ pos' = pos + n
    /\ body' = body \cup (pos .. (pos + n - 1))
    /\ remaining' = remaining - n
    /\ stage' = IF remaining = n
                THEN IF stage = "fixed" THEN "done" ELSE "crlf"
                ELSE stage
    /\ UNCHANGED <<client, phase, cur, output, result>>

\* Payload that an earlier read has left in the buffer.
TakeBuffered ==
    /\ phase = "body" /\ Draining /\ Buffered > 0
    /\ Take(Share)
    /\ UNCHANGED read

\* Payload straight from the socket, never more than the body still has.
ReadPayload ==
    /\ phase = "body" /\ Draining /\ Buffered = 0
    /\ \E n \in 1 .. (sent - read) :
          /\ n <= remaining
          /\ read' = read + n
          /\ Take(n)

\* read_buf into the shared buffer: it may take bytes of later requests too.
ReadLine ==
    /\ phase = "body" /\ NeedsRead /\ ~Draining
    /\ \E n \in 1 .. (sent - read) : read' = read + n
    /\ UNCHANGED <<client, pos, phase, reader, cur, output, result>>

ConsumeTo(c, next) ==
    /\ pos' = c
    /\ stage' = next
    /\ UNCHANGED <<client, read, phase, cur, body, output, result>>

BadBody == Reject("Body") /\ UNCHANGED <<read, pos>>

\* A line of the kind wanted starts at pos and ends at c.
LineAt(k, c, kind) ==
    /\ wire.el[k].kind = kind /\ wire.el[k].ok
    /\ From(wire, k) = pos /\ wire.to[k] = c

\* Mutant: the body ends with the last chunk's size line.
AfterSizeNoTrailers(n) == IF n = 0 THEN "done" ELSE "data"

AfterSize(n) == IF n = 0 THEN "trailers" ELSE "data"

ChunkSize ==
    /\ phase = "body" /\ stage = "size"
    /\ \E c \in wire.crlf :
          /\ LineIn(wire, pos, read, c)
          /\ \/ \E k \in Elements(wire) :
                   /\ LineAt(k, c, "size")
                   /\ remaining' = wire.el[k].n
                   /\ ConsumeTo(c, AfterSize(wire.el[k].n))
             \/ /\ ~ \E k \in Elements(wire) : LineAt(k, c, "size")
                /\ BadBody

ChunkCrLf ==
    /\ phase = "body" /\ stage = "crlf" /\ Buffered >= 2
    /\ IF pos + 2 \in wire.crlf
       THEN ConsumeTo(pos + 2, "size") /\ UNCHANGED remaining
       ELSE BadBody

Trailer ==
    /\ phase = "body" /\ stage = "trailers"
    /\ \E c \in wire.crlf :
          /\ LineIn(wire, pos, read, c)
          /\ IF c = pos + 2
             THEN ConsumeTo(c, "done") /\ UNCHANGED remaining
             ELSE \/ /\ \E k \in Elements(wire) : LineAt(k, c, "trailer")
                     /\ ConsumeTo(c, "trailers")
                     /\ UNCHANGED remaining
                  \/ /\ ~ \E k \in Elements(wire) : LineAt(k, c, "trailer")
                     /\ BadBody

\* Mutant: read_next is called once and not in a loop.
BodyBegun == \/ stage = "done"
             \/ stage = "fixed" /\ remaining < Request.n

BodyComplete == stage = "done"

BodyRead ==
    /\ phase = "body" /\ BodyComplete
    /\ phase' = "handle"
    /\ UNCHANGED <<client, read, pos, reader, cur, output, result>>

BodyEof ==
    /\ phase = "body" /\ NeedsRead /\ AtEof
    /\ BadBody

BodyIoError ==
    /\ phase = "body" /\ NeedsRead /\ reset
    /\ BadBody

\* One timer spans the whole body; it can elapse at any read.
BodyTimeout ==
    /\ Timers
    /\ phase = "body" /\ NeedsRead
    /\ Reject("TimeoutBody")
    /\ UNCHANGED <<read, pos>>

-----------------------------------------------------------------------------
\* Handler and response.

Handle ==
    /\ phase = "handle"
    /\ handled' = Append(handled, [msg |-> Msg, body |-> body])
    /\ \E r \in Responses :
          IF r.encode = "panic"
          THEN Return("Panic") /\ UNCHANGED response
          ELSE response' = r /\ phase' = "respond" /\ UNCHANGED result
    /\ UNCHANGED <<client, read, pos, reader, cur, continued, replies>>

\* should_close_after_request
RequestClose(e) ==
    IF e.version = "1.1" THEN e.conn = "close" ELSE e.conn # "keep-alive"

\* Mutant: the version is left to the Connection field.
ClosesByField == RequestClose(Request) \/ response.close

\* The directive: HTTP/1.0 connections are never kept open.
Closes == \/ RequestClose(Request)
          \/ response.close
          \/ Request.version # "1.1"

\* Mutant: the loop goes on after a response that closes.
WriteResponseKeepOpen ==
    /\ phase = "respond" /\ response.encode = "ok"
    /\ Answer("response", 0, Msg, Closes)
    /\ phase' = "idle"
    /\ UNCHANGED <<client, read, pos, reader, cur, handled, continued, response, result>>

WriteResponse ==
    /\ phase = "respond" /\ response.encode = "ok"
    /\ Answer("response", 0, Msg, Closes)
    /\ IF Closes THEN Return("Ok") ELSE phase' = "idle" /\ UNCHANGED result
    /\ UNCHANGED <<client, read, pos, reader, cur, handled, continued, response>>

\* write_response fails: nothing was written, or a part of the response was.
WriteFails ==
    /\ phase = "respond" /\ (response.encode \in {"conflict", "stream"} \/ reset)
    /\ \/ replies' = replies /\ (response.encode # "stream" \/ reset)
       \/ Answer("partial", 0, Msg, TRUE) /\ (response.encode # "conflict")
    /\ Return("Encode")
    /\ UNCHANGED <<client, read, pos, reader, cur, handled, continued, response>>

\* The error response is on the wire, or its write fails.
WriteError ==
    /\ phase = "reject"
    /\ \/ Answer("error", ErrorStatus, Len(replies) + 1, TRUE) /\ Return(result)
       \/ reset /\ UNCHANGED replies /\ Return("Encode")
    /\ UNCHANGED <<client, read, pos, reader, cur, handled, continued, response>>

\* The task awaits a write or the next chunk of a streamed body: there is no
\* timer there, so it stays as long as the peer does not read or the stream does
\* not yield.
Held ==
    \/ phase = "respond" /\ response.encode = "pending"
    \/ phase = "respond" /\ response.encode # "conflict" /\ ~reset
    \/ phase \in {"continue", "reject"} /\ ~reset

-----------------------------------------------------------------------------
\* The task has returned and dropped the socket.
Terminated ==
    /\ phase = "done"
    /\ UNCHANGED vars

Client == ClientSends \/ ClientShutsDown \/ ClientResets

Server ==
    \/ ReadHead \/ RejectLongHead \/ HeadEof \/ HeadIoError \/ HeadTimeout
    \/ ParseHead \/ RejectHead \/ WriteContinue
    \/ TakeBuffered \/ ReadPayload \/ ReadLine
    \/ ChunkSize \/ ChunkCrLf \/ Trailer \/ BodyRead
    \/ BodyEof \/ BodyIoError \/ BodyTimeout
    \/ Handle \/ WriteResponse \/ WriteFails \/ WriteError

Next == Client \/ Server \/ Terminated

Spec == Init /\ [][Next]_vars

\* The runtime polls a task that can proceed, and an armed timer elapses.  Nothing
\* is asked of the client, so a write need never complete.
FairSpec == Spec /\ WF_vars(Server /\ ~Held)

\* Besides, the client reads what is written to it, and streamed bodies yield.
TakenSpec == Spec /\ WF_vars(Server)

-----------------------------------------------------------------------------
\* Properties.

\* The wire stays synchronised: whenever the loop is back at its top, whatever
\* segments the bytes came in and however far body reads have read ahead, the
\* parser stands exactly where the next request starts, and exactly the requests
\* before that place have been answered.
WireSync == phase = "idle" => Boundary(wire, pos, Len(replies))

\* The j-th call of the handler is for the j-th request, with the payload bytes
\* of that request and no others.
ExactBodies ==
    \A j \in DOMAIN handled :
        /\ handled[j].msg = j
        /\ handled[j].body = Payload(wire, j)

\* The requests are answered in order, each at most once, by the handler's
\* response; only the last reply may be an error or a fragment; and a reply that
\* announces the close is the last one.
OrderedReplies ==
    \A j \in DOMAIN replies :
        /\ replies[j].msg = j
        /\ j < Len(replies) => replies[j].kind = "response" /\ ~replies[j].close
        /\ replies[j].kind # "error" => j <= Len(handled)
        /\ replies[j].kind = "error" => j > Len(handled)

\* A head is refused for its size exactly when it is longer than HEADER_LIMIT:
\* how TCP cut it, and what was read together with it, makes no difference.
SizeVerdict ==
    /\ result = "HeaderTooLarge" =>
           \E k \in Elements(wire) : /\ wire.el[k].kind = "head"
                                     /\ From(wire, k) = pos
                                     /\ Size(wire, k) > HeaderLimit
    /\ \A k \in Elements(wire), m \in 1 .. Len(handled) :
           HeadOf(wire, k, m) => Size(wire, k) <= HeaderLimit

\* The server never waits for the body of a request that asked for
\* "100 Continue" before it has written that line, so it cannot wait for a
\* client that waits for the server; and it writes it to nobody else.
ContinueBeforeBody ==
    /\ phase = "body" /\ Request.expect => Msg \in continued
    /\ \A m \in continued :
           \E k \in Elements(wire) : HeadOf(wire, k, m) /\ wire.el[k].expect

\* When the client's shutdown ends the connection without an error, every byte
\* it wrote belonged to a request that was answered.
NothingDropped ==
    (result = "Ok" /\ (replies = <<>> \/ ~replies[Len(replies)].close))
        => pos = sent /\ Boundary(wire, sent, Len(replies))

\* The server takes no byte of a later request as its own before the request at
\* hand has its reply.
Serialised ==
    [][ \A k \in Elements(wire) :
            wire.el[k].kind = "head" /\ pos <= From(wire, k) /\ From(wire, k) < pos'
                => Len(replies) + 1 = wire.msg[k] ]_vars

\* Element k is the last one that has been consumed whole, and the reader stands
\* where the state of its machine says.
Place(k) ==
    LET e == wire.el[k]
        Partly == remaining \in 1 .. e.n /\ pos + remaining = wire.to[k] + e.n
    IN  /\ wire.msg[k] = Len(replies) + 1 /\ e.ok
        /\ stage \in {"none", "done"} => pos = wire.to[k] /\ Completes(e)
        /\ stage = "fixed" => e.kind = "head" /\ e.mode = "fixed" /\ Partly
        /\ stage = "size" => /\ pos = wire.to[k]
                             /\ \/ e.kind = "head" /\ e.mode = "chunked"
                                \/ e.kind = "crlf"
        /\ stage = "data" => e.kind = "size" /\ Partly
        /\ stage = "crlf" => pos = wire.to[k] /\ e.kind = "data"
        /\ stage = "trailers" => /\ pos = wire.to[k]
                                 /\ \/ e.kind = "size" /\ e.n = 0
                                    \/ e.kind = "trailer"

Serving == {"continue", "body", "handle", "respond"}

\* While a request is served, cur holds its head, and everything up to pos has
\* been understood as the client meant it.
InRequest ==
    phase \in Serving =>
        /\ cur \in Elements(wire)
        /\ HeadOf(wire, cur, Len(replies) + 1)
        /\ Size(wire, cur) <= HeaderLimit
        /\ \E k \in Elements(wire) : Place(k)
        /\ phase \in {"handle", "respond"} => stage \in {"none", "done"}
        /\ phase = "body" => stage # "none"
        /\ stage = "none" <=> Request.mode = "none"

\* What has been gathered of the body is the payload up to pos.
Gathered ==
    phase \in Serving => body = PayloadBefore(wire, Len(replies) + 1, pos)

\* Until the end, each reply is a whole response that keeps the connection, and
\* only the response being written has been handled and not answered.
SoFar ==
    phase # "done" =>
        /\ \A j \in DOMAIN replies : replies[j].kind = "response" /\ ~replies[j].close
        /\ Len(handled) = IF phase = "respond" THEN Len(replies) + 1 ELSE Len(replies)
        /\ phase # "reject" => result = "running"

\* The inductive invariant behind the safety properties: at every moment of every
\* request the offset, the state of the body reader and the bytes gathered agree
\* with the framing the client meant.
FramingInv ==
    /\ TypeOK
    /\ SoFar
    /\ WireSync
    /\ InRequest
    /\ Gathered
    /\ ExactBodies
    /\ OrderedReplies

\* The connection does what RequestServer promises.
Promised == INSTANCE RequestServer WITH open <- (phase # "done")
Promise  == Promised!Spec

\* Request m is complete within the first p bytes of the stream.
CompleteBy(m, p) ==
    \E k \in Elements(wire) : /\ wire.to[k] <= p /\ m = wire.msg[k]
                              /\ wire.el[k].ok /\ Completes(wire.el[k])

\* A client that has written whole requests, and reads, gets a reply to each, or
\* sees the connection end; it need not write another byte for that, nor a timer
\* elapse.
\* (The stream is finite, so "again and again" is "from some point on".)
RequestsAnswered ==
    []<>(\/ phase = "done"
         \/ \A m \in { wire.msg[k] : k \in Elements(wire) } :
                CompleteBy(m, sent) => Len(replies) >= m)

\* A client that sent the head of a request with Expect: 100-continue and now
\* waits, reading, is told to go on, or sees the connection end.
ContinueComes ==
    []<>(\/ phase = "done"
         \/ \A k \in Elements(wire) :
                wire.el[k].expect /\ wire.to[k] <= sent => wire.msg[k] \in continued)

\* The timers end every connection whose client stops writing, wherever it stops:
\* whatever the client does or omits, a connection ends, or hangs in one write.
Terminates == <>(phase = "done") \/ <>[]Held
=============================================================================
