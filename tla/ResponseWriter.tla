--------------------------- MODULE ResponseWriter ---------------------------
(***************************************************************************)
(* How goose-http frames a response: ResponseWriter::write_response        *)
(* (src/encode/mod.rs), and beside it how a recipient that follows RFC     *)
(* 9112, section 6.3, finds the end of that response.                      *)
(*                                                                         *)
(* A message body is a sequence of piece lengths: its bytes, the field     *)
(* lines that do not frame it, and its trailers make no difference here.   *)
(***************************************************************************)
EXTENDS Integers, Sequences

\* No Content-Length field.
NoLength == -1

\* Transfer-Encoding: absent, "chunked" as the last coding, "chunked" before another
\* coding, or codings without "chunked".
Codings == {"absent", "chunked", "chunked-inside", "other"}

\* ResponseBody.  A full body is one piece; a stream may fail after its pieces.
Body == [kind : {"empty", "full", "stream"}, pieces : Seq(Nat), fails : BOOLEAN]

\* A Response, as a handler returns it.
Response == [status : 100 .. 599,
             length : Nat \cup {NoLength},
             coding : Codings,
             close  : BOOLEAN,
             allow  : SUBSET STRING,
             body   : Body]

EmptyBody == [kind |-> "empty", pieces |-> <<>>, fails |-> FALSE]

\* Response::new
Plain(status) == [status |-> status, length |-> NoLength, coding |-> "absent",
                  close |-> FALSE, allow |-> {}, body |-> EmptyBody]

FullLength(r) == r.body.pieces[1]

\* forbid_content_length, and the statuses response_allows_body refuses
Bodiless(status) == status \in 100 .. 199 \cup {204, 304}

\* Mutant: the method of the request is not looked at.
BodyAllowedByStatus(status, method) == ~Bodiless(status)

\* response_allows_body
BodyAllowed(status, method) == ~Bodiless(status) /\ method # "HEAD"

\* ensure_chunked_encoding is content with "chunked" anywhere among the codings.
EnsureChunked(coding) ==
    IF coding \in {"chunked", "chunked-inside"} THEN coding ELSE "chunked"

\* The error that write_response returns before it writes anything.
Conflicting(r) == r.length # NoLength /\ r.coding # "absent"

\* The Content-Length that is sent.
SentLength(r, method) ==
    IF Bodiless(r.status) \/ (r.body.kind = "stream" /\ method # "HEAD") THEN NoLength
    ELSE IF r.length # NoLength THEN r.length
    ELSE IF r.body.kind = "full" THEN FullLength(r)
    ELSE IF method = "HEAD" THEN NoLength ELSE 0

SentCoding(r, method) ==
    IF BodyAllowed(r.status, method) /\ r.body.kind = "stream"
    THEN EnsureChunked(r.coding)
    ELSE "absent"

\* The head section that is sent, and the body behind it.
SentHead(r, method, directive) ==
    [status |-> r.status,
     length |-> SentLength(r, method),
     coding |-> SentCoding(r, method),
     close  |-> directive \/ r.close,
     allow  |-> r.allow]

SentBody(r, method) == IF BodyAllowed(r.status, method) THEN r.body ELSE EmptyBody

-----------------------------------------------------------------------------
\* The recipient.

\* How a client that sent this method, in this version, finds the end of the body
\* behind a head: after n bytes, at the last chunk, or where the connection ends.
Framing(head, method, version) ==
    IF Bodiless(head.status) \/ method = "HEAD" THEN [by |-> "length", n |-> 0]
    ELSE IF head.coding = "chunked" /\ version = "1.1" THEN [by |-> "chunks", n |-> 0]
    ELSE IF head.coding # "absent" THEN [by |-> "close", n |-> 0]
    ELSE IF head.length # NoLength THEN [by |-> "length", n |-> head.length]
    ELSE [by |-> "close", n |-> 0]

\* Where a body ends, as write_response puts it on the wire.
Written(body) ==
    CASE body.kind = "empty"  -> [by |-> "length", n |-> 0]
      [] body.kind = "full"   -> [by |-> "length", n |-> body.pieces[1]]
      [] body.kind = "stream" -> [by |-> "chunks", n |-> 0]

\* What is asked of a handler that replies to a method: the Content-Length it sets
\* is that of the body, unless no body follows, and nothing comes after "chunked".
Sound(r, method) ==
    /\ r.body.kind = "full" => Len(r.body.pieces) = 1
    /\ r.length # NoLength =>
          \/ Bodiless(r.status) \/ method = "HEAD"
          \/ r.body.kind = "full" /\ r.length = FullLength(r)
          \/ r.body.kind = "empty" /\ r.length = 0
          \/ r.body.kind = "stream"
    /\ r.coding # "chunked-inside"

\* The recipient stops reading exactly where the body that is written ends.
FramingAgrees(r, method) ==
    Framing(SentHead(r, method, FALSE), method, "1.1") = Written(SentBody(r, method))
=============================================================================
