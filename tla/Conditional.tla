---------------------------- MODULE Conditional ----------------------------
(***************************************************************************)
(* Conditional requests: apply_request_preconditions of src/conn/mod.rs,   *)
(* which compares the If- fields of a request with the validators of the   *)
(* response that the handler gave, and replaces that response when they    *)
(* say so.                                                                 *)
(***************************************************************************)
EXTENDS ResponseWriter

\* An entity tag is weak when it is written with W/ before it; its opaque part is
\* known by a number.  ETag holds one tag; If-Match and If-None-Match hold "*" or a list.
Tag     == [weak : BOOLEAN, opaque : Nat \ {0}]
TagList == [any : BOOLEAN, tags : SUBSET Tag]

\* Absent fields.  A date that does not parse counts as absent.
NoTag  == [weak |-> FALSE, opaque |-> 0]
NoList == [any |-> FALSE, tags |-> {NoTag}]
NoDate == -1

Dates == Nat \cup {NoDate}

\* The first line of each conditional field of a request.
Conditions == [ifMatch : TagList \cup {NoList}, ifUnmodified : Dates,
               ifNone  : TagList \cup {NoList}, ifModified   : Dates]

Unconditional == [ifMatch |-> NoList, ifUnmodified |-> NoDate,
                  ifNone  |-> NoList, ifModified   |-> NoDate]

\* The validators of a response.
Validators == [etag : Tag \cup {NoTag}, date : Dates]

\* weak_etag_equal
WeakEqual(a, b) == a.opaque = b.opaque

\* Mutant: If-None-Match uses the strong comparison too.
MatchesAlwaysStrong(list, tag, comparison) ==
    /\ tag # NoTag
    /\ list.any \/ tag \in list.tags

\* etag_list_matches.  The "strong" comparison is equality of the text.
EtagListMatches(list, tag, comparison) ==
    /\ tag # NoTag
    /\ \/ list.any
       \/ comparison = "strong" /\ tag \in list.tags
       \/ comparison = "weak" /\ \E t \in list.tags : WeakEqual(t, tag)

Safe(method) == method \in {"GET", "HEAD"}

\* No decision: the handler's response stands.
Stands == 0

\* Mutant: If-Modified-Since is consulted beside If-None-Match.
DecideByDateToo(method, q, v) ==
    IF q.ifMatch # NoList /\ ~EtagListMatches(q.ifMatch, v.etag, "strong") THEN 412
    ELSE IF q.ifUnmodified # NoDate /\ v.date # NoDate /\ v.date > q.ifUnmodified THEN 412
    ELSE IF q.ifNone # NoList /\ EtagListMatches(q.ifNone, v.etag, "weak")
         THEN IF Safe(method) THEN 304 ELSE 412
    ELSE IF /\ q.ifModified # NoDate /\ Safe(method)
            /\ v.date # NoDate /\ v.date <= q.ifModified
         THEN 304
    ELSE Stands

\* Mutant: a later field overrides the verdict of If-Match.
DecideLast(method, q, v) ==
    IF q.ifNone # NoList /\ EtagListMatches(q.ifNone, v.etag, "weak")
         THEN IF Safe(method) THEN 304 ELSE 412
    ELSE IF /\ q.ifNone = NoList /\ q.ifModified # NoDate /\ Safe(method)
            /\ v.date # NoDate /\ v.date <= q.ifModified
         THEN 304
    ELSE IF q.ifMatch # NoList /\ ~EtagListMatches(q.ifMatch, v.etag, "strong") THEN 412
    ELSE IF q.ifUnmodified # NoDate /\ v.date # NoDate /\ v.date > q.ifUnmodified THEN 412
    ELSE Stands

\* The decision of apply_request_preconditions: If-Match, If-Unmodified-Since, then
\* If-None-Match or else If-Modified-Since.
Decide(method, q, v) ==
    LET matchFails    == q.ifMatch # NoList /\ ~EtagListMatches(q.ifMatch, v.etag, "strong")
        modified      == /\ q.ifUnmodified # NoDate /\ v.date # NoDate
                         /\ v.date > q.ifUnmodified
        noneFails     == q.ifNone # NoList /\ EtagListMatches(q.ifNone, v.etag, "weak")
        notModified   == /\ q.ifNone = NoList /\ q.ifModified # NoDate /\ Safe(method)
                         /\ v.date # NoDate /\ v.date <= q.ifModified
    IN  IF matchFails \/ modified THEN 412
        ELSE IF noneFails THEN IF Safe(method) THEN 304 ELSE 412
        ELSE IF notModified THEN 304
        ELSE Stands

\* Mutant: the framing of the replaced body stays.
ReplaceBodyOnly(r, status) == [r EXCEPT !.status = status, !.body = EmptyBody]

\* What is left of the handler's response.
Replace(r, status) ==
    [status |-> status, length |-> NoLength, coding |-> "absent",
     close |-> r.close, allow |-> r.allow, body |-> EmptyBody]

\* apply_request_preconditions, and the test of the status before it.
Evaluate(method, q, v, r) ==
    LET status == Decide(method, q, v)
    IN  IF r.status < 400 /\ status # Stands THEN Replace(r, status) ELSE r
=============================================================================
