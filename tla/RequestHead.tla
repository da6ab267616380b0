---------------------------- MODULE RequestHead ----------------------------
(***************************************************************************)
(* The head of a request: the loop of parse_request_head (src/parse/mod.rs)*)
(* over the field lines, one line at a step, and the decision of           *)
(* determine_body_mode how the body is framed.                             *)
(*                                                                         *)
(* The text of a line is abstracted to what the loop finds out about it.   *)
(***************************************************************************)
EXTENDS Headers, Integers, FiniteSets

CONSTANT Inputs     \* the heads that a client may send

Names   == {"host", "content-length", "transfer-encoding", "other"}
CodingNames == {"chunked", "other"}

\* A field line: the name; whether the line as a whole is well formed (no folding, a
\* field name, no control characters, within LINE_LIMIT); whether the value parses;
\* and the value of a Content-Length or the codings of a Transfer-Encoding.
Line == [name : Names, formed : BOOLEAN, good : BOOLEAN,
         length : Nat, codings : Seq(CodingNames) \ {<<>>}]

\* A head: whether it is UTF-8 within HEADER_LIMIT and its request line parses, and
\* its field lines.
Input == [start : BOOLEAN, lines : Seq(Line)]

ASSUME InputsAssumption == Inputs \subseteq Input

NotGiven == -1

\* BodyMode, and no mode yet.
Modes == [by : {"none", "chunked"}, n : {0}] \cup [by : {"fixed"}, n : Nat]
NoBody   == [by |-> "none", n |-> 0]
Chunked  == [by |-> "chunked", n |-> 0]
Fixed(n) == [by |-> "fixed", n |-> n]

VARIABLES
    input,
    read,       \* lines read
    hostSeen,
    length,     \* content_length
    codings,    \* transfer_encodings
    headers,
    verdict,
    mode        \* body_mode

vars == <<input, read, hostSeen, length, codings, headers, verdict, mode>>

TypeOK ==
    /\ input \in Input
    /\ read \in 0 .. Len(input.lines)
    /\ hostSeen \in BOOLEAN
    /\ length \in Nat \cup {NotGiven}
    /\ codings \in Seq(CodingNames)
    /\ DOMAIN headers.map \subseteq Names
    /\ \A n \in DOMAIN headers.map : headers.map[n] \in Seq(Line)
    /\ verdict \in {"reading", "accepted", "rejected"}
    /\ mode \in Modes

Init ==
    /\ input \in Inputs
    /\ read = 0 /\ hostSeen = FALSE /\ length = NotGiven /\ codings = <<>>
    /\ headers = NoHeaders
    /\ verdict = "reading" /\ mode = NoBody

-----------------------------------------------------------------------------
\* The line that the loop is at.
This   == input.lines[read + 1]
AtLine == verdict = "reading" /\ input.start /\ read < Len(input.lines)

Reject == /\ verdict' = "rejected"
          /\ UNCHANGED <<input, read, hostSeen, length, codings, headers, mode>>

\* What is wrong before the field lines: the size, the encoding, the request line.
RejectStart == verdict = "reading" /\ ~input.start /\ Reject

RejectLine ==
    /\ AtLine
    /\ \/ ~This.formed
       \/ This.name = "host" /\ (hostSeen \/ ~This.good)
       \/ This.name \in {"content-length", "transfer-encoding"} /\ ~This.good
       \/ This.name = "content-length" /\ length \notin {NotGiven, This.length}
    /\ Reject

\* A line of this name that is well formed is kept, whatever the loop learns from it.
Keep(name) ==
    /\ AtLine /\ This.formed /\ This.name = name
    /\ headers' = AppendField(headers, name, This)
    /\ read' = read + 1
    /\ UNCHANGED <<input, verdict, mode>>

Host ==
    /\ Keep("host")
    /\ ~hostSeen /\ This.good
    /\ hostSeen' = TRUE
    /\ UNCHANGED <<length, codings>>

\* Mutant: the last Content-Length counts.
LastLength ==
    /\ Keep("content-length")
    /\ This.good
    /\ length' = This.length
    /\ UNCHANGED <<hostSeen, codings>>

\* A Content-Length may come again with the same value.
ContentLength ==
    /\ Keep("content-length")
    /\ This.good /\ length \in {NotGiven, This.length}
    /\ length' = This.length
    /\ UNCHANGED <<hostSeen, codings>>

\* Mutant: a second Transfer-Encoding line replaces the codings of the first.
LastEncoding ==
    /\ Keep("transfer-encoding")
    /\ This.good
    /\ codings' = This.codings
    /\ UNCHANGED <<hostSeen, length>>

TransferEncoding ==
    /\ Keep("transfer-encoding")
    /\ This.good
    /\ codings' = codings \o This.codings
    /\ UNCHANGED <<hostSeen, length>>

OtherField == Keep("other") /\ UNCHANGED <<hostSeen, length, codings>>

ChunkedAt == { i \in DOMAIN codings : codings[i] = "chunked" }

\* Mutant: the coding overrides the length.
FramedByCoding == codings = <<>> \/ ChunkedAt = {Len(codings)}

\* determine_body_mode: "chunked" is needed once and last, and then no Content-Length
\* may be there.
Framed == codings = <<>> \/ (ChunkedAt = {Len(codings)} /\ length = NotGiven)

\* Mutant: a request without framing fields is given a length all the same.
BodyModeFixed == IF codings # <<>> THEN Chunked ELSE [by |-> "fixed", n |-> length]

BodyMode == IF codings # <<>> THEN Chunked
            ELSE IF length # NotGiven THEN Fixed(length)
            ELSE NoBody

AtEnd == verdict = "reading" /\ input.start /\ read = Len(input.lines)

RejectEnd == AtEnd /\ ~(hostSeen /\ Framed) /\ Reject

Accept ==
    /\ AtEnd /\ hostSeen /\ Framed
    /\ verdict' = "accepted"
    /\ mode' = BodyMode
    /\ UNCHANGED <<input, read, hostSeen, length, codings, headers>>

Next == RejectStart \/ RejectLine \/ RejectEnd
        \/ Host \/ ContentLength \/ TransferEncoding \/ OtherField \/ Accept

Spec == Init /\ [][Next]_vars

-----------------------------------------------------------------------------
\* Properties.

Lines          == input.lines
Named(name)    == { i \in DOMAIN Lines : Lines[i].name = name }
Lengths        == { Lines[i].length : i \in Named("content-length") }
IsLast(i, S)   == i \in S /\ \A k \in S : k <= i
HasChunked(cs) == \E k \in DOMAIN cs : cs[k] = "chunked"

\* RFC 9112, sections 3.2, 5 and 6.3, of the head as a whole: every line is in order,
\* there is one Host, the Content-Length lines agree, and "chunked" is applied once,
\* last, and to a message without a Content-Length.
InOrder ==
    \A i \in DOMAIN Lines :
        Lines[i].formed /\ (Lines[i].name # "other" => Lines[i].good)

OneHost   == \E i \in DOMAIN Lines : Named("host") = {i}
OneLength == \A m, n \in Lengths : m = n

ChunkedOnceLast ==
    \A i \in Named("transfer-encoding") :
        LET cs == Lines[i].codings
        IN  /\ HasChunked(cs) <=> IsLast(i, Named("transfer-encoding"))
            /\ \A k \in DOMAIN cs : cs[k] = "chunked" => k = Len(cs)

Unambiguous ==
    /\ OneHost /\ OneLength
    /\ Named("transfer-encoding") # {} => Lengths = {}

\* A head is accepted exactly when it is in order and its framing has one reading;
\* which line comes first makes no difference.
Verdict ==
    verdict # "reading" =>
        (verdict = "accepted"
            <=> input.start /\ InOrder /\ Unambiguous /\ ChunkedOnceLast)

\* The body of an accepted request is framed as the whole of its field lines says,
\* and no line of it could be read another way.
OneReading ==
    verdict = "accepted" =>
        /\ Unambiguous
        /\ mode = Chunked <=> Named("transfer-encoding") # {}
        /\ mode.by = "fixed" => Lengths = {mode.n}
        /\ mode = NoBody => Lengths = {}

\* The lines numbered in S are the values, one each and in their order.
AreLines(values, S) ==
    /\ Len(values) = Cardinality(S)
    /\ \A i \in S : values[Cardinality({ k \in S : k <= i })] = Lines[i]

\* The handler, which sees the headers and not the mode, reads the same framing there:
\* the values of each field are those of its lines, all of them and in order, and those
\* of Content-Length are the length by which the body was framed.
HandlerSeesFraming ==
    verdict = "accepted" =>
        /\ Consistent(headers)
        /\ \A name \in Names :
              /\ HasField(headers, name) <=> Named(name) # {}
              /\ AreLines(GetAll(headers, name), Named(name))
        /\ \A v \in 1 .. Len(GetAll(headers, "content-length")) :
              mode = Fixed(GetAll(headers, "content-length")[v].length)
=============================================================================
