------------------------------ MODULE Harness ------------------------------
(***************************************************************************)
(* The application of the compliance harness (HarnessService in            *)
(* src/bin/compliance_harness.rs), and what the connection loop makes of   *)
(* its response: apply_request_preconditions and the framing fields.       *)
(***************************************************************************)
EXTENDS Conditional, Ranges, Cache

CONSTANT Size       \* bytes of each representation that the harness has

Representations == {"index", "asset", "time", "validator", "immutable",
                    "en", "fr", "es", "range", "posted"}

ASSUME SizeAssumption == Size \in [Representations -> Nat]

\* Which bytes a body carries: those from first to last of a representation, or of the
\* one made at a time.
Text(of, at)   == [of |-> of, at |-> at, first |-> 0, last |-> Size[of] - 1]
Part(of, x, y) == [of |-> of, at |-> 0, first |-> x, last |-> y]
NoText         == [of |-> "none", at |-> 0, first |-> 0, last |-> -1]

\* A request: Accept-Language is a list of tags, Range is absent or a RangeField.
NoRange == [unit |-> "absent", parts |-> <<>>]

NoValidators == [etag |-> NoTag, date |-> NoDate]

\* Response::set_body_bytes
BodyOf(text) ==
    IF text = NoText THEN EmptyBody
    ELSE [kind |-> "full", pieces |-> <<text.last - text.first + 1>>, fails |-> FALSE]

\* Cache-Control and Vary, and ensure_age_header.
FieldsOf(control, vary) ==
    EnsureAge([control |-> control, age |-> None, expires |-> None, date |-> None, vary |-> vary])

\* A response: what frames it, its validators, the fields a cache looks at, its bytes.
Answer(status, v, fields, text) ==
    [r |-> [status |-> status, length |-> NoLength, coding |-> "absent", close |-> FALSE,
            allow |-> {}, body |-> BodyOf(text)],
     v |-> v, fields |-> fields, text |-> text]

\* Response::new
Reply(status) == Answer(status, NoValidators, NoFields, NoText)

HarnessEtag   == [weak |-> FALSE, opaque |-> 1]
ImmutableEtag == [weak |-> FALSE, opaque |-> 2]
LastModified  == 0

Uncached == <<Flag("no-store")>>

-----------------------------------------------------------------------------
\* The routes.

ServeIndex == Answer(200, NoValidators, FieldsOf(Uncached, {}), Text("index", 0))

ServeHealth == Reply(204)

ServeStaticAsset == Answer(200, NoValidators, FieldsOf(<<MaxAge(120)>>, {}), Text("asset", 0))

ServeTimeJson(now) == Answer(200, NoValidators, FieldsOf(Uncached, {}), Text("time", now))

ServePostEcho == Answer(200, NoValidators, FieldsOf(Uncached, {}), Text("posted", 0))

\* matches_if_none_match compares the text of the tags.
MatchesIfNoneMatch(q, etag) == q # NoList /\ (q.any \/ etag \in q.tags)

ServeCacheValidator(q) ==
    LET v      == [etag |-> HarnessEtag, date |-> LastModified]
        fields == FieldsOf(<<MaxAge(60), Flag("must-revalidate")>>, {})
    IN  IF MatchesIfNoneMatch(q.ifNone, HarnessEtag) THEN Answer(304, v, fields, NoText)
        ELSE Answer(200, v, fields, Text("validator", 0))

ServeCacheImmutable ==
    Answer(200, [etag |-> ImmutableEtag, date |-> NoDate],
           FieldsOf(<<MaxAge(31536000), Flag("other")>>, {}), Text("immutable", 0))

\* parse_language_tag: the first tag that is not empty decides.
Named(tag)      == tag # ""
NamedTags(tags) == SelectSeq(tags, Named)

Language(tag) ==
    CASE tag \in {"fr", "fr-FR"}          -> "fr"
      [] tag \in {"es", "es-ES", "es-MX"} -> "es"
      [] OTHER                            -> "en"

ParseLanguageTag(tags) ==
    IF NamedTags(tags) = <<>> THEN "en" ELSE Language(Head(NamedTags(tags)))

\* Mutant: Vary is left out.
ServeLanguageUnmarked(tags) ==
    Answer(200, NoValidators, FieldsOf(<<MaxAge(30)>>, {}), Text(ParseLanguageTag(tags), 0))

ServeVaryAcceptLanguage(tags) ==
    Answer(200, NoValidators, FieldsOf(<<MaxAge(30)>>, {"Accept-Language"}),
           Text(ParseLanguageTag(tags), 0))

\* With apply_range_demo_headers.
ServeRangeDemo(range) ==
    LET answer == RangeDemo(range, Size["range"])
    IN  Answer(answer.status, [etag |-> ImmutableEtag, date |-> LastModified],
               FieldsOf(<<MaxAge(120), Flag("must-revalidate")>>, {}),
               IF answer.status = 416 THEN NoText ELSE Part("range", answer.start, answer.end))

Allowing(status) ==
    [Answer(status, NoValidators, FieldsOf(Uncached, {}), NoText)
        EXCEPT !.r.allow = {"GET", "HEAD", "OPTIONS"}]

-----------------------------------------------------------------------------
\* handle_get_route.  Absolute and authority forms of the target, which no route has,
\* are answered alike.
HandleGetRoute(q, now) ==
    CASE q.target = "/"                     -> ServeIndex
      [] q.target = "/__health"             -> ServeHealth
      [] q.target = "/static/hello.txt"     -> ServeStaticAsset
      [] q.target = "/json/time"            -> ServeTimeJson(now)
      [] q.target = "/cache/validator"      -> ServeCacheValidator(q.conditions)
      [] q.target = "/cache/immutable"      -> ServeCacheImmutable
      [] q.target = "/vary/accept-language" -> ServeVaryAcceptLanguage(q.languages)
      [] q.target = "/range/demo"           -> ServeRangeDemo(q.range)
      [] OTHER                              -> Reply(404)

\* The framing of a response whose body has been set to Empty.
Headless(x, length) ==
    [r |-> [status |-> x.r.status, length |-> length, coding |-> x.r.coding,
            close |-> x.r.close, allow |-> x.r.allow, body |-> EmptyBody],
     v |-> x.v, fields |-> x.fields, text |-> NoText]

\* Mutant: the body is dropped without noting its length.
DropHeadBody(x) == Headless(x, x.r.length)

\* normalize_head_response
NormalizeHead(x) ==
    Headless(x, IF x.r.body.kind = "full" /\ x.r.length = NoLength THEN FullLength(x.r)
                ELSE x.r.length)

\* dispatch_request
Dispatch(q, now) ==
    CASE q.method = "GET"      -> HandleGetRoute(q, now)
      [] q.method = "HEAD"     -> NormalizeHead(HandleGetRoute(q, now))
      [] q.method = "POST"     -> IF q.target = "/" THEN ServePostEcho ELSE Reply(404)
      [] q.method = "OPTIONS"  -> Allowing(204)
      [] q.method \in {"PUT", "DELETE", "CONNECT", "TRACE", "PATCH"} -> Allowing(405)
      [] OTHER                 -> Answer(501, NoValidators, FieldsOf(Uncached, {}), NoText)

\* What the connection loop sends for it: the preconditions, and the Date of the moment.
Served(q, now) ==
    LET x == Dispatch(q, now)
        r == Evaluate(q.method, q.conditions, x.v, x.r)
    IN  [r |-> r, v |-> x.v, fields |-> [x.fields EXCEPT !.date = now],
         text |-> IF r.body = EmptyBody THEN NoText ELSE x.text]
=============================================================================
