---------------------------- MODULE MCConnection ----------------------------
(***************************************************************************)
(* Instances of Connection for TLC: client streams of at most 22 bytes and *)
(* at most three requests, with a head limit of 7 bytes.                   *)
(***************************************************************************)
EXTENDS Connection, FiniteSetsExt

\* Elements with their length in bytes.
Blank(kind, len) ==
    [len |-> len, inner |-> {},
     el |-> [kind |-> kind, ok |-> TRUE, mode |-> "none", n |-> 0,
             version |-> "1.1", conn |-> "absent", expect |-> FALSE]]
Bad(e)        == [e EXCEPT !.el.ok = FALSE]
Get(len)      == Blank("head", len)
GetClose(len) == [Get(len) EXCEPT !.el.conn = "close"]
Get10(len)    == [Get(len) EXCEPT !.el.version = "1.0", !.el.conn = "keep-alive"]
Post(len, n)  == [Get(len) EXCEPT !.el.mode = "fixed", !.el.n = n]
PostCh(len)   == [Get(len) EXCEPT !.el.mode = "chunked"]
Expecting(e)  == [e EXCEPT !.el.expect = TRUE]
Body(n)       == Blank("body", n)
ChSize(len, n) == [Blank("size", len) EXCEPT !.el.n = n]
Data(n)       == Blank("data", n)
CrLf          == Blank("crlf", 2)
TrailerLn(n)  == Blank("trailer", n)
End           == Blank("blank", 2)
\* A payload that contains CRLF CRLF, ending i bytes into it.
WithBlankLine(e, i) == [e EXCEPT !.inner = {i, i - 2}]

Ends(s) == [k \in 0 .. Len(s) |-> MapThenSumSet(LAMBDA j : s[j].len, 1 .. k)]
CrlfEnds(e) ==
    CASE e.el.kind = "head"                          -> {e.len - 2, e.len}
      [] e.el.kind \in {"size", "trailer", "blank"}  -> {e.len}
      [] e.el.kind = "crlf"    -> IF e.el.ok THEN {e.len} ELSE {}
      [] e.el.kind \in {"body", "data"}              -> {}

Stream(s) ==
    LET to == Ends(s)
    IN  [count |-> Len(s),
         to    |-> to,
         el    |-> [k \in 1 .. Len(s) |-> s[k].el],
         msg   |-> [k \in 1 .. Len(s) |->
                      Cardinality({ j \in 1 .. k : s[j].el.kind = "head" })],
         crlf  |-> UNION { { to[k - 1] + i : i \in CrlfEnds(s[k]) \cup s[k].inner } :
                             k \in 1 .. Len(s) }]

\* Plain pipelines, Content-Length bodies, and the ways a connection closes.
Plain == { Stream(s) : s \in {
    <<Get(6), Get(5), Get(7)>>,
    <<Post(5, 3), Body(3), Get(5)>>,
    <<Post(5, 5), WithBlankLine(Body(5), 4), Get(5)>>,
    <<Post(5, 0), Get(5)>>,
    <<Expecting(Post(5, 2)), Body(2), Get(5)>>,
    <<Expecting(Get(5)), Get(5)>>,
    <<GetClose(5), Get(5)>>,
    <<Get10(5), Get(5)>>,
    <<Get(5), Bad(Get(6)), Get(5)>>,
    <<Get(7), Get(8), Get(5)>>,
    <<Post(5, 1), Body(1), Get(10)>> } }

\* Chunked bodies.
Chunked == { Stream(s) : s \in {
    <<PostCh(5), ChSize(3, 2), Data(2), CrLf, ChSize(3, 0), End, Get(5)>>,
    <<PostCh(5), ChSize(3, 0), TrailerLn(4), End, Get(6)>>,
    <<Expecting(PostCh(5)), ChSize(3, 0), End, Get(5)>>,
    <<PostCh(5), ChSize(3, 4), WithBlankLine(Data(4), 4), CrLf, ChSize(3, 0), End>>,
    <<PostCh(5), ChSize(3, 0), End, Get(11)>>,
    <<PostCh(5), ChSize(3, 1), Data(1), Bad(CrLf), Get(5)>>,
    <<PostCh(5), Bad(ChSize(4, 0)), Get(5)>>,
    <<PostCh(5), ChSize(3, 0), Bad(TrailerLn(4)), Get(5)>> } }

AllStreams == Plain \cup Chunked

R(close, encode) == [close |-> close, encode |-> encode]
AllResponses == { R(FALSE, "ok"), R(TRUE, "ok"), R(FALSE, "conflict"),
                  R(FALSE, "stream"), R(FALSE, "pending"), R(FALSE, "panic") }

\* For the liveness runs: the handler keeps the connection, or closes it.
SoundResponses == { R(FALSE, "ok"), R(TRUE, "ok") }
=============================================================================
