----------------------------- MODULE MCExchange -----------------------------
(***************************************************************************)
(* Instances of Exchange for TLC: one path that has routes and one that    *)
(* may have none, and the kinds of responses a handler can give.           *)
(***************************************************************************)
EXTENDS Exchange

Full(n)         == [Plain(200) EXCEPT !.body = [kind |-> "full", pieces |-> <<n>>, fails |-> FALSE]]
Stream(s)       == [Plain(200) EXCEPT !.body = [kind |-> "stream", pieces |-> s, fails |-> FALSE]]
Failing(s)      == [Plain(200) EXCEPT !.body = [kind |-> "stream", pieces |-> s, fails |-> TRUE]]
Closing(r)      == [r EXCEPT !.close = TRUE]
Sized(r, n)     == [r EXCEPT !.length = n]
Coded(r, c)     == [r EXCEPT !.coding = c]
Status(r, s)    == [r EXCEPT !.status = s]

\* Full and streamed bodies, with and without a length of their own; a stream with
\* an empty piece; one that fails; a body behind a status that has none; a close;
\* a response with both a length and a coding; a full body with a coding; and no
\* body at all.
AllHandlers == { Plain(200), Full(3), Sized(Full(2), 2), Stream(<<1, 0, 2>>), Sized(Stream(<<2>>), 2),
                 Coded(Stream(<<1>>), "other"), Failing(<<1>>),
                 Status(Full(2), 204), Status(Full(2), 404), Closing(Full(1)), Full(0),
                 Coded(Sized(Stream(<<1>>), 1), "chunked"), Coded(Full(2), "chunked") }

RoutesFor(p, methods, handlers) ==
    [path : {p}, method : methods, handler : handlers]

\* One route with any of the handlers, or two routes, with the same method or not,
\* and plain handlers.
OneRoute  == { <<r>> : r \in RoutesFor("/", Methods \ {"POST"}, AllHandlers) }
TwoRoutes == { <<q, r>> : q \in RoutesFor("/", {"GET", "HEAD"}, {Full(3)}),
                          r \in RoutesFor("/", {"GET", "POST", "BREW"}, {Full(1), Stream(<<1, 0, 2>>)}) }
AllPrograms == OneRoute \cup TwoRoutes

\* For the runs that look for a disagreement: one plain route.
FewPrograms == { <<r>> : r \in RoutesFor("/", {"GET", "HEAD"}, {Full(3), Stream(<<1, 0, 2>>)}) }

AllMethods  == {"GET", "HEAD", "POST", "BREW"}
HeadMethods == {"GET", "HEAD"}
AnyCase     == {"GET", "HEAD", "head"}
=============================================================================
