------------------------------ MODULE Exchange ------------------------------
(***************************************************************************)
(* Requests and responses over one connection of goose-http: a table of    *)
(* routes is built (RouterBuilder), a client sends requests, ahead of the  *)
(* responses if it likes, and the connection loop passes each to           *)
(* Router::handle and its response to write_response.  The client takes    *)
(* the bytes apart by RFC 9112 alone.                                      *)
(*                                                                         *)
(* How the requests are cut out of the bytes is the matter of Connection;  *)
(* here they arrive as wholes.                                             *)
(***************************************************************************)
EXTENDS Router, SequencesExt

CONSTANTS
    Programs,       \* what applications may ask of the builder: sequences of routes
    Versions,       \* HTTP versions of the requests
    ClosesAsked,    \* whether they say "Connection: close"
    MaxRequests     \* bound: requests sent

\* A route: a path, a method, and a handler, known by its response.
Routes == [path : Paths, method : Methods, handler : Response]

ASSUME ProgramsAssumption == Programs \subseteq Seq(Routes)
ASSUME VersionsAssumption == Versions \subseteq {"1.0", "1.1"} /\ ClosesAsked \subseteq BOOLEAN
ASSUME BoundsAssumption   == MaxRequests \in Nat

VARIABLES
    table,      \* Router.routes
    autoHead,   \* Router.auto_head
    calls,      \* calls of the builder so far: path, method and handler
    built,      \* RouterBuilder::build has been called
    asked,      \* requests, in the order the client sent them
    served,     \* requests handled
    server,     \* where the connection loop is
    reply,      \* the response being written
    left,       \* pieces of its body still to be written
    line,       \* what has been written and not yet received
    reading,    \* what the client takes the next bytes for
    part,       \* the reply it is in the middle of
    got         \* the replies it has made out

setup  == <<table, autoHead, calls, built>>
loop   == <<served, server, reply, left>>
reader == <<reading, part, got>>
vars   == <<setup, asked, loop, line, reader>>

Request == [path : Paths, method : Methods, version : Versions, close : ClosesAsked]
Heads   == [status : 100 .. 599, length : Nat \cup {NoLength}, coding : Codings,
            close : BOOLEAN, allow : SUBSET STRING]
Item    == [kind : {"head", "bytes", "chunk", "fin"}, n : Nat, head : Heads]
Reading == [by : {"head", "length", "chunks", "close", "ended"}, n : Nat]
Reply   == [head : Heads, bytes : Nat, whole : BOOLEAN]

NoHead == SentHead(Plain(200), "GET", FALSE)
AtHead == [by |-> "head", n |-> 0]
NoPart == [head |-> NoHead, bytes |-> 0, whole |-> FALSE]

TypeOK ==
    /\ DOMAIN table \subseteq Paths
    /\ \A p \in DOMAIN table : table[p] \in [DOMAIN table[p] -> Response]
    /\ calls \in Seq(Routes)
    /\ autoHead \in BOOLEAN /\ built \in BOOLEAN
    /\ asked \in Seq(Request)
    /\ served \in 0 .. Len(asked)
    /\ server \in {"ready", "respond", "body", "closed"}
    /\ reply \in Response /\ left \in Seq(Nat)
    /\ line \in Seq(Item)
    /\ reading \in Reading /\ part \in Reply
    /\ got \in Seq(Reply) /\ Len(got) <= served

Init ==
    /\ table = NoRoutes /\ autoHead = TRUE /\ calls = <<>> /\ built = FALSE
    /\ asked = <<>> /\ served = 0
    /\ server = "ready" /\ reply = Plain(200) /\ left = <<>>
    /\ line = <<>>
    /\ reading = AtHead /\ part = NoPart /\ got = <<>>

-----------------------------------------------------------------------------
\* Building the router.

\* RouterBuilder::route, get, head, post, ...
Register ==
    /\ ~built
    /\ \E program \in Programs :
          /\ IsStrictPrefix(calls, program)
          /\ LET c == program[Len(calls) + 1]
             IN  /\ table' = InsertRoute(table, c.path, c.method, c.handler)
                 /\ calls' = Append(calls, c)
    /\ UNCHANGED <<autoHead, built, asked, loop, line, reader>>

\* RouterBuilder::auto_head
SetAutoHead ==
    /\ ~built
    /\ autoHead' \in BOOLEAN
    /\ UNCHANGED <<table, calls, built, asked, loop, line, reader>>

Build ==
    /\ ~built
    /\ built' = TRUE
    /\ UNCHANGED <<table, autoHead, calls, asked, loop, line, reader>>

-----------------------------------------------------------------------------
\* The connection loop.

Current == asked[served]

\* apply_request_preconditions lets a request without conditional fields pass.
Handle ==
    /\ server = "ready" /\ served < Len(asked)
    /\ served' = served + 1
    /\ reply' = Answer(table, autoHead, asked[served + 1].path, asked[served + 1].method)
    /\ server' = "respond"
    /\ UNCHANGED <<setup, asked, left, line, reader>>

Put(kind, n, head) == Append(line, [kind |-> kind, n |-> n, head |-> head])

Directive == Current.close \/ reply.close \/ Current.version # "1.1"

\* The error is found before anything is written; the loop returns and drops the
\* socket.
WriteConflict ==
    /\ server = "respond" /\ Conflicting(reply)
    /\ line' = Put("fin", 0, NoHead)
    /\ server' = "closed"
    /\ UNCHANGED <<setup, asked, served, reply, left, reader>>

WriteHead ==
    /\ server = "respond" /\ ~Conflicting(reply)
    /\ line' = Put("head", 0, SentHead(reply, Current.method, Directive))
    /\ left' = SentBody(reply, Current.method).pieces
    /\ server' = "body"
    /\ UNCHANGED <<setup, asked, served, reply, reader>>

Streams == SentBody(reply, Current.method).kind = "stream"

\* Mutant: empty chunks of the stream are written like any other.
WriteEveryPiece ==
    /\ server = "body" /\ left # <<>>
    /\ line' = Put(IF Streams THEN "chunk" ELSE "bytes", Head(left), NoHead)
    /\ left' = Tail(left)
    /\ UNCHANGED <<setup, asked, served, server, reply, reader>>

\* A piece of no bytes adds nothing to the wire: write_all of nothing, and the
\* "continue" of write_chunked_body.
WritePiece ==
    /\ server = "body" /\ left # <<>>
    /\ line' = IF Head(left) = 0 THEN line
               ELSE Put(IF Streams THEN "chunk" ELSE "bytes", Head(left), NoHead)
    /\ left' = Tail(left)
    /\ UNCHANGED <<setup, asked, served, server, reply, reader>>

StreamFails == Streams /\ SentBody(reply, Current.method).fails

\* The error of the stream ends the loop in the middle of the response.
BreakOff ==
    /\ server = "body" /\ left = <<>> /\ StreamFails
    /\ line' = Put("fin", 0, NoHead)
    /\ server' = "closed"
    /\ UNCHANGED <<setup, asked, served, reply, left, reader>>

\* Mutant: the last chunk is left out.
FinishQuietly ==
    /\ server = "body" /\ left = <<>> /\ ~StreamFails
    /\ IF Directive THEN line' = Put("fin", 0, NoHead) /\ server' = "closed"
                    ELSE line' = line /\ server' = "ready"
    /\ UNCHANGED <<setup, asked, served, reply, left, reader>>

\* Mutant: the loop goes on with the response it has just written.
FinishAgain ==
    /\ server = "body" /\ left = <<>> /\ ~StreamFails
    /\ line' = IF Streams THEN Put("chunk", 0, NoHead) ELSE line
    /\ server' = "respond"
    /\ UNCHANGED <<setup, asked, served, reply, left, reader>>

\* The last chunk, a chunk of no bytes, and the close where it was announced.
Finish ==
    LET last == IF Streams THEN Put("chunk", 0, NoHead) ELSE line
        fin  == [kind |-> "fin", n |-> 0, head |-> NoHead]
    IN  /\ server = "body" /\ left = <<>> /\ ~StreamFails
        /\ IF Directive THEN line' = Append(last, fin) /\ server' = "closed"
                        ELSE line' = last /\ server' = "ready"
        /\ UNCHANGED <<setup, asked, served, reply, left, reader>>

-----------------------------------------------------------------------------
\* The client.

Ask ==
    /\ built /\ Len(asked) < MaxRequests
    /\ reading.by # "ended"
    /\ \E q \in Request : asked' = Append(asked, q)
    /\ UNCHANGED <<setup, loop, line, reader>>

NextItem == Head(line)
Deliver(whole, r) == got' = Append(got, [r EXCEPT !.whole = whole])

\* The client has r of the current reply and reads on as f says, if anything is to
\* follow.
Proceed(r, f) ==
    IF f = [by |-> "length", n |-> 0]
    THEN Deliver(TRUE, r) /\ reading' = AtHead /\ part' = NoPart
    ELSE got' = got /\ reading' = f /\ part' = r

Take(kind) == /\ line # <<>> /\ NextItem.kind = kind
              /\ line' = Tail(line)
              /\ UNCHANGED <<setup, asked, loop>>

TakeHead ==
    /\ reading.by = "head" /\ Take("head") /\ Len(got) < Len(asked)
    /\ LET request == asked[Len(got) + 1]
       IN  Proceed([head |-> NextItem.head, bytes |-> 0, whole |-> FALSE],
                   Framing(NextItem.head, request.method, request.version))

TakeBytes ==
    /\ reading.by = "length" /\ Take("bytes") /\ NextItem.n <= reading.n
    /\ Proceed([part EXCEPT !.bytes = @ + NextItem.n], [reading EXCEPT !.n = @ - NextItem.n])

TakeChunk ==
    /\ reading.by = "chunks" /\ Take("chunk")
    /\ Proceed([part EXCEPT !.bytes = @ + NextItem.n],
               IF NextItem.n = 0 THEN [by |-> "length", n |-> 0] ELSE reading)

\* The end of the connection, between replies or within one.
TakeFin ==
    /\ reading.by # "ended" /\ Take("fin")
    /\ reading' = [by |-> "ended", n |-> 0]
    /\ part' = NoPart
    /\ IF reading.by = "head" THEN got' = got ELSE Deliver(reading.by = "close", part)

\* Bytes that the client can only misread: a head it has not asked for, body where a
\* head is due, a head or chunk framing where payload is due, payload where a chunk
\* is due.
Misread ==
    \/ reading.by = "head"   /\ NextItem.kind = "head" /\ Len(got) = Len(asked)
    \/ reading.by = "head"   /\ NextItem.kind \in {"bytes", "chunk"}
    \/ reading.by = "length" /\ NextItem.kind \in {"head", "chunk"}
    \/ reading.by = "length" /\ NextItem.kind = "bytes" /\ NextItem.n > reading.n
    \/ reading.by = "chunks" /\ NextItem.kind \in {"head", "bytes"}
    \/ reading.by = "close"  /\ NextItem.kind \in {"head", "chunk"}

-----------------------------------------------------------------------------
Setup  == Register \/ SetAutoHead \/ Build
Server == Handle \/ WriteConflict \/ WriteHead \/ WritePiece \/ BreakOff \/ Finish
Client == TakeHead \/ TakeBytes \/ TakeChunk \/ TakeFin

Next == Setup \/ Ask \/ Server \/ Client

Spec == Init /\ [][Next]_vars

\* The task of the connection is polled, the client reads what has arrived, and a
\* streamed body yields its chunks or fails at last; nothing makes the client send.
FairSpec == Spec /\ WF_vars(Server) /\ WF_vars(Client)

-----------------------------------------------------------------------------
\* Properties.

\* The client never takes bytes of one reply for another, or framing for payload:
\* what write_response says of a body's end is where it ends.
InStep == line # <<>> => ~Misread

\* What the calls of the builder say, the last one for a path and a method first.
Named(p, m) == { i \in DOMAIN calls : calls[i].path = p /\ calls[i].method = m }
LastNamed(p, m) == calls[CHOOSE i \in Named(p, m) : \A k \in Named(p, m) : k <= i].handler

HeadFromGet(q) ==
    /\ autoHead /\ q.method = "HEAD"
    /\ Named(q.path, "HEAD") = {} /\ Named(q.path, "GET") # {}

\* The response that is due to request q, before framing.
Due(q) ==
    IF Named(q.path, q.method) # {} THEN LastNamed(q.path, q.method)
    ELSE IF HeadFromGet(q) THEN LastNamed(q.path, "GET")
    ELSE IF q.method \notin Standard THEN Plain(501)
    ELSE IF \E i \in DOMAIN calls : calls[i].path = q.path THEN Plain(405)
    ELSE Plain(404)

\* The bytes in the first i pieces, for each i.
Upto(pieces) ==
    LET sum[i \in 0 .. Len(pieces)] == IF i = 0 THEN 0 ELSE sum[i - 1] + pieces[i]
    IN  sum

BodyLength(body) == Upto(body.pieces)[Len(body.pieces)]

\* The j-th reply is what the router was built to answer to the j-th request: its
\* status and, if it arrived whole, every byte of the body that this method and
\* status allow.  A stream that fails is never mistaken for one that ended, and only
\* the last reply of a connection is cut short.
FaithfulReplies ==
    \A j \in DOMAIN got :
        LET r    == Due(asked[j])
            body == SentBody(r, asked[j].method)
        IN  /\ got[j].head.status = r.status
            /\ got[j].whole <=> ~body.fails
            /\ got[j].whole => got[j].bytes = BodyLength(body)
            /\ ~got[j].whole => j = Len(got) /\ reading.by = "ended"

\* A 405 advertises exactly the methods that work: a method it lists is answered
\* with something other than 405 or 501, and one it leaves out is not.
AllowIsExact ==
    \A i, j \in DOMAIN got :
        /\ asked[i].path = asked[j].path
        /\ got[i].head.status = 405
        => (asked[j].method \in got[i].head.allow <=> got[j].head.status \notin {405, 501})

\* A response without a body whose handler says nothing of its length.
Unsized(r) == r.body.kind = "empty" /\ r.length = NoLength

\* Where HEAD has no handler of its own, its reply has the status that GET has for
\* the same path, and the Content-Length of GET whenever GET shows one; but where
\* the handler leaves the body empty and sets no length, GET shows 0 and HEAD
\* shows nothing.
HeadMirrorsGet ==
    \A i, j \in DOMAIN got :
        /\ asked[i].path = asked[j].path
        /\ asked[i].method = "GET" /\ HeadFromGet(asked[j])
        => /\ got[j].head.status = got[i].head.status
           /\ got[i].head.length # NoLength
                => got[j].head.length = IF Unsized(Due(asked[i])) THEN NoLength
                                        ELSE got[i].head.length

\* strip_body_for_head gives a length to a response that its handler gave a coding.
CodedForGet(q) == HeadFromGet(q) /\ Due(q).coding # "absent" /\ Due(q).body.kind = "full"

\* The connection ends only after a reply that announced it, or that was cut short,
\* or at a response that its handler gave both a length and a coding, or, for a HEAD
\* that reuses the handler of GET, a full body and a coding.
EndsExplained ==
    reading.by = "ended" =>
        \/ got # <<>> /\ (got[Len(got)].head.close \/ ~got[Len(got)].whole)
        \/ /\ Len(got) < Len(asked)
           /\ LET q == asked[Len(got) + 1] IN Conflicting(Due(q)) \/ CodedForGet(q)

\* Every request gets its reply, unless the connection ends first.
Answered ==
    \A j \in 1 .. MaxRequests :
        Len(asked) >= j ~> Len(got) >= j \/ reading.by = "ended"
=============================================================================
