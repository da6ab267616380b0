-------------------------------- MODULE Wire --------------------------------
(***************************************************************************)
(* What one client writes on one connection, as offsets into a byte        *)
(* stream.                                                                 *)
(*                                                                         *)
(* A stream is cut into elements: element k occupies the bytes from        *)
(* To(k-1) up to, and not including, To(k).  Elements are what RFC 9112,   *)
(* and the parser in src/parse/mod.rs, distinguish: a request head, the    *)
(* bytes of a Content-Length body, and the size lines, data, CRLFs,        *)
(* trailer lines and the blank line of a chunked body.  The offsets at     *)
(* which some CRLF ends are given separately, so that a body may contain   *)
(* any line structure, and so that a reader standing at a wrong offset     *)
(* still sees definite bytes.                                              *)
(***************************************************************************)
EXTENDS Naturals

CONSTANTS
    Streams,       \* the byte streams a client may write
    HeaderLimit    \* HEADER_LIMIT: longest request head accepted, in bytes

Kinds == {"head", "body", "size", "data", "crlf", "trailer", "blank"}

\* What the parser learns from an element.  "ok" is the verdict of every check
\* that needs the bytes of this element alone (request line, field syntax, Host,
\* LINE_LIMIT, framing fields; chunk size digits; trailer syntax).
Element == [kind    : Kinds,
            ok      : BOOLEAN,
            mode    : {"none", "fixed", "chunked"},        \* BodyMode of a head
            n       : Nat,                      \* Content-Length or chunk size
            version : {"1.0", "1.1"},
            conn    : {"absent", "close", "keep-alive"},   \* first Connection
            expect  : BOOLEAN]                         \* Expect: 100-continue

Elements(w) == 1 .. w.count
From(w, k)  == w.to[k - 1]
Size(w, k)  == w.to[k] - w.to[k - 1]

\* Offsets at which CRLF CRLF ends.
HeadEnds(w) == { c \in w.crlf : \E d \in w.crlf : d + 2 = c }

\* find_crlf and find_headers_end: the first terminator that lies, whole, in the
\* bytes from offset lo up to offset hi.
FirstIn(ends, width, lo, hi, c) ==
    /\ c \in ends
    /\ lo + width <= c
    /\ c <= hi
    /\ \A d \in ends : lo + width <= d => c <= d

LineIn(w, lo, hi, c) == FirstIn(w.crlf, 2, lo, hi, c)
HeadIn(w, lo, hi, c) == FirstIn(HeadEnds(w), 4, lo, hi, c)

-----------------------------------------------------------------------------
\* The shape of well-formed streams.

\* Each element ends where the parser is entitled to see it end.
Shaped(w, k) ==
    LET e == w.el[k]
    IN  /\ e.kind = "head" => HeadIn(w, From(w, k), w.to[k], w.to[k])
        /\ e.kind \in {"size", "trailer"} =>
               LineIn(w, From(w, k), w.to[k], w.to[k]) /\ Size(w, k) > 2
        /\ e.kind = "blank" => w.to[k] \in w.crlf /\ Size(w, k) = 2 /\ e.ok
        /\ e.kind = "crlf" => Size(w, k) = 2 /\ (e.ok <=> w.to[k] \in w.crlf)
        /\ e.kind \in {"body", "data"} => e.ok

\* An element with which a request is complete.
Completes(e) ==
    \/ e.kind \in {"body", "blank"}
    \/ e.kind = "head" /\ e.mode = "none"
    \/ e.kind = "head" /\ e.mode = "fixed" /\ e.n = 0

\* The element that must come after an acceptable element k.
Follows(w, k) ==
    LET e == w.el[k]
        f == w.el[k + 1]
    IN  /\ Completes(e) => f.kind = "head"
        /\ e.kind = "head" /\ e.mode = "fixed" /\ e.n > 0 =>
               f.kind = "body" /\ Size(w, k + 1) = e.n
        /\ e.kind = "head" /\ e.mode = "chunked" => f.kind = "size"
        /\ e.kind = "size" /\ e.n > 0 =>
               f.kind = "data" /\ Size(w, k + 1) = e.n
        /\ e.kind = "size" /\ e.n = 0 => f.kind \in {"trailer", "blank"}
        /\ e.kind = "trailer" => f.kind \in {"trailer", "blank"}
        /\ e.kind = "data" => f.kind = "crlf"
        /\ e.kind = "crlf" => f.kind = "size"

\* w.msg numbers the requests: element k is part of request w.msg[k].
Numbered(w) ==
    /\ w.msg[1] = 1
    /\ \A j, k \in Elements(w) :
           /\ j <= k => w.msg[j] <= w.msg[k]
           /\ j < k /\ w.el[k].kind = "head" => w.msg[j] < w.msg[k]
    /\ \A k \in 1 .. (w.count - 1) :
           w.msg[k + 1] = IF w.el[k + 1].kind = "head" THEN w.msg[k] + 1
                                                       ELSE w.msg[k]

WellFormed(w) ==
    /\ w.count \in Nat \ {0}
    /\ w.to \in [0 .. w.count -> Nat]
    /\ w.el \in [Elements(w) -> Element]
    /\ w.msg \in [Elements(w) -> Nat \ {0}]
    /\ w.crlf \subseteq Nat
    /\ w.to[0] = 0
    /\ \A j, k \in 0 .. w.count : j < k => w.to[j] < w.to[k]
    /\ w.el[1].kind = "head"
    /\ \A k \in Elements(w) : Shaped(w, k)
    /\ \A k \in 1 .. (w.count - 1) : w.el[k].ok => Follows(w, k)
    /\ Numbered(w)

ASSUME StreamsAssumption == \A w \in Streams : WellFormed(w)
ASSUME LimitAssumption   == HeaderLimit \in Nat \ {0}

-----------------------------------------------------------------------------
\* What the client means, read off the elements and not off the parser.

Total(w) == w.to[w.count]

\* The payload bytes of request m: Content-Length body or chunk data.
Payload(w, m) ==
    UNION { From(w, k) .. (w.to[k] - 1) :
              k \in { j \in Elements(w) : /\ w.msg[j] = m
                                          /\ w.el[j].kind \in {"body", "data"} } }

\* Its part in the first p bytes of the stream.
PayloadBefore(w, m, p) == { x \in Payload(w, m) : x < p }

\* Offset p is where request m + 1 starts, after m whole acceptable requests.
Boundary(w, p, m) ==
    \/ p = 0 /\ m = 0
    \/ \E k \in Elements(w) : /\ p = w.to[k]
                              /\ m = w.msg[k]
                              /\ w.el[k].ok
                              /\ Completes(w.el[k])

\* Element k is the head of request m.
HeadOf(w, k, m) == w.el[k].kind = "head" /\ w.msg[k] = m
=============================================================================
