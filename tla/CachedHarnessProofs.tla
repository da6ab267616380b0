------------------------ MODULE CachedHarnessProofs ------------------------
(***************************************************************************)
(* CachedHarness, proved for any number of clients, for all requests that  *)
(* clients may send, and for representations of any length.                *)
(***************************************************************************)
EXTENDS CachedHarness, MessageProofs

-----------------------------------------------------------------------------
\* The responses of the harness.

FieldNames(f) == f = [control |-> f.control, age |-> f.age, expires |-> f.expires,
                      date |-> f.date, vary |-> f.vary]

\* Cache-Control as the routes write it.
Directed(control) == control \in Seq(Directive) /\ Len(control) <= 2

\* A response as the routes make them: the body and its text agree, it has the fields
\* of one that was just made, and no Expires.
Sane(x) ==
    /\ FieldNames(x.fields) /\ x.fields.age \in {None, 0}
    /\ x.fields.expires = None /\ Directed(x.fields.control)
    /\ x.r.status \in Nat /\ x.r.length = NoLength
    /\ x.text = NoText => x.r.body = EmptyBody
    /\ x.text # NoText => /\ x.r.body.kind = "full" /\ FullLength(x.r) \in Nat
                          /\ x.r.body # EmptyBody

LEMMA FieldsOfParts ==
    ASSUME NEW control, NEW vary
    PROVE  FieldsOf(control, vary) =
             [control |-> control, age |-> 0, expires |-> None, date |-> None, vary |-> vary]
  BY DEF FieldsOf, EnsureAge, None

LEMMA AnswerParts ==
    ASSUME NEW status, NEW v, NEW fields, NEW text
    PROVE  Answer(status, v, fields, text) =
             [r |-> [status |-> status, length |-> NoLength, coding |-> "absent",
                     close |-> FALSE, allow |-> {}, body |-> BodyOf(text)],
              v |-> v, fields |-> fields, text |-> text]
  BY DEF Answer

LEMMA AnswerIsSane ==
    ASSUME NEW status \in Nat, NEW v, NEW fields, NEW text,
           \/ fields = NoFields
           \/ \E control, vary : Directed(control) /\ fields = FieldsOf(control, vary),
           text = NoText \/ text.last - text.first + 1 \in Nat
    PROVE  Sane(Answer(status, v, fields, text))
<1> DEFINE x == Answer(status, v, fields, text)
<1>1. /\ x.fields = fields /\ x.text = text
      /\ x.r.status = status /\ x.r.length = NoLength /\ x.r.body = BodyOf(text)
  <2>1. x = [r |-> [status |-> status, length |-> NoLength, coding |-> "absent",
                    close |-> FALSE, allow |-> {}, body |-> BodyOf(text)],
             v |-> v, fields |-> fields, text |-> text]
    BY AnswerParts
  <2> HIDE DEF x
  <2> QED
    BY <2>1
<1>2. /\ FieldNames(fields) /\ fields.age \in {None, 0}
      /\ fields.expires = None /\ Directed(fields.control)
  <2>1. CASE fields = NoFields
    BY <2>1 DEF NoFields, FieldNames, Directed
  <2>2. CASE \E control, vary : Directed(control) /\ fields = FieldsOf(control, vary)
    BY <2>2, FieldsOfParts DEF FieldNames
  <2> QED
    BY <2>1, <2>2
<1>3. text = NoText => BodyOf(text) = EmptyBody
  BY DEF BodyOf
<1>4. text # NoText => /\ BodyOf(text).kind = "full" /\ BodyOf(text).pieces[1] \in Nat
                       /\ BodyOf(text) # EmptyBody
  BY DEF BodyOf, EmptyBody
<1> HIDE DEF x
<1>5. Sane(x)
  BY <1>1, <1>2, <1>3, <1>4 DEF Sane, FullLength
<1> QED
  BY <1>5 DEF x

LEMMA DirectivesOfRoutes ==
    /\ Directed(Uncached) /\ Directed(<<MaxAge(120)>>) /\ Directed(<<MaxAge(30)>>)
    /\ Directed(<<MaxAge(60), Flag("must-revalidate")>>)
    /\ Directed(<<MaxAge(120), Flag("must-revalidate")>>)
    /\ Directed(<<MaxAge(31536000), Flag("other")>>)
<1>1. \A n \in Nat : MaxAge(n) \in Directive
  BY DEF MaxAge, Directive
<1>2. \A t \in {"no-store", "must-revalidate", "other"} : Flag(t) \in Directive
  BY DEF Flag, Directive
<1>3. \A d \in Directive : Directed(<<d>>)
  BY DEF Directed
<1>4. \A d1, d2 \in Directive : Directed(<<d1, d2>>)
  BY DEF Directed
<1> QED
  BY <1>1, <1>2, <1>3, <1>4 DEF Uncached

\* Such a Cache-Control gives a lifetime in seconds, or none.
LEMMA LastAgeIsNumber ==
    ASSUME NEW control, Directed(control)
    PROVE  LastAge(control) \in Int
<1> DEFINE at == CHOOSE i \in Numbered(control) : \A j \in Numbered(control) : j <= i
<1>1. Numbered(control) \subseteq DOMAIN control /\ DOMAIN control \subseteq {1, 2}
  BY DEF Numbered, Directed
<1>2. \A i \in DOMAIN control : control[i].param \in Int
  <2>1. \A i \in DOMAIN control : control[i] \in Directive
    BY DEF Directed
  <2>2. \A d \in Directive : d.param \in Int
    BY DEF Directive, None
  <2> QED
    BY <2>1, <2>2
<1>3. CASE Numbered(control) = {}
  BY <1>3 DEF LastAge, None
<1>4. CASE Numbered(control) # {}
  <2>1. \E i \in Numbered(control) : \A j \in Numbered(control) : j <= i
    <3>1. CASE 2 \in Numbered(control)
      BY <1>1, <3>1
    <3>2. CASE 2 \notin Numbered(control)
      BY <1>1, <1>4, <3>2
    <3> QED
      BY <3>1, <3>2
  <2>2. at \in Numbered(control)
    BY <2>1
  <2> HIDE DEF at
  <2>3. control[at].param \in Int
    BY <1>1, <1>2, <2>2
  <2> QED
    BY <1>4, <2>3 DEF LastAge, at
<1> QED
  BY <1>3, <1>4

LEMMA TextLength ==
    ASSUME NEW of \in Representations, NEW at
    PROVE  /\ Text(of, at) # NoText
           /\ Text(of, at).last - Text(of, at).first + 1 \in Nat
<1>1. Size[of] \in Nat
  BY SizeAssumption
<1>2. of # "none"
  BY DEF Representations
<1> QED
  BY <1>1, <1>2 DEF Text, NoText

LEMMA LanguageIsKnown ==
    ASSUME NEW tags
    PROVE  ParseLanguageTag(tags) \in {"en", "fr", "es"}
<1>1. \A tag : Language(tag) \in {"en", "fr", "es"}
  BY DEF Language
<1> QED
  BY <1>1 DEF ParseLanguageTag

LEMMA PartLength ==
    ASSUME NEW range \in RangeField \cup {NoRange}
    PROVE  LET answer == RangeDemo(range, Size["range"])
           IN  /\ answer.status \in {200, 206, 416}
               /\ answer.status # 416 => answer.end - answer.start + 1 \in Nat
<1>1. Size["range"] \in Nat
  BY SizeAssumption DEF Representations
<1>2. CASE range \in RangeField
  <2>1. IsExact(RangeDemo(range, Size["range"]), range, Size["range"])
    BY <1>1, <1>2, AnswerIsExact
  <2> QED
    BY <1>1, <2>1 DEF IsExact
<1>3. CASE range = NoRange
  <2>1. ~Parses(range)
    BY <1>3 DEF Parses, NoRange
  <2> QED
    BY <1>1, <2>1 DEF RangeDemo
<1> QED
  BY <1>2, <1>3

\* A request of a client, once it has perhaps been made one for validation.
Sendable(q) == q.range \in RangeField \cup {NoRange}

LEMMA RouteIsSane ==
    ASSUME NEW q, NEW at, Sendable(q)
    PROVE  Sane(HandleGetRoute(q, at))
<1>1. CASE q.target = "/"
  <2>1. Sane(ServeIndex)
    BY AnswerIsSane, DirectivesOfRoutes, TextLength DEF ServeIndex, Representations
  <2> QED
    BY <1>1, <2>1 DEF HandleGetRoute
<1>2. CASE q.target = "/__health"
  <2>1. Sane(ServeHealth)
    BY AnswerIsSane DEF ServeHealth, Reply
  <2> QED
    BY <1>2, <2>1 DEF HandleGetRoute
<1>3. CASE q.target = "/static/hello.txt"
  <2>1. Sane(ServeStaticAsset)
    BY AnswerIsSane, DirectivesOfRoutes, TextLength DEF ServeStaticAsset, Representations
  <2> QED
    BY <1>3, <2>1 DEF HandleGetRoute
<1>4. CASE q.target = "/json/time"
  <2>1. Sane(ServeTimeJson(at))
    BY AnswerIsSane, DirectivesOfRoutes, TextLength DEF ServeTimeJson, Representations
  <2> QED
    BY <1>4, <2>1 DEF HandleGetRoute
<1>5. CASE q.target = "/cache/validator"
  <2>1. Sane(ServeCacheValidator(q.conditions))
    BY AnswerIsSane, DirectivesOfRoutes, TextLength DEF ServeCacheValidator, Representations
  <2> QED
    BY <1>5, <2>1 DEF HandleGetRoute
<1>6. CASE q.target = "/cache/immutable"
  <2>1. Sane(ServeCacheImmutable)
    BY AnswerIsSane, DirectivesOfRoutes, TextLength DEF ServeCacheImmutable, Representations
  <2> QED
    BY <1>6, <2>1 DEF HandleGetRoute
<1>7. CASE q.target = "/vary/accept-language"
  <2>1. ParseLanguageTag(q.languages) \in Representations
    BY LanguageIsKnown DEF Representations
  <2>2. Sane(ServeVaryAcceptLanguage(q.languages))
    BY <2>1, AnswerIsSane, DirectivesOfRoutes, TextLength DEF ServeVaryAcceptLanguage
  <2> QED
    BY <1>7, <2>2 DEF HandleGetRoute
<1>8. CASE q.target = "/range/demo"
  <2> DEFINE answer == RangeDemo(q.range, Size["range"])
             text   == IF answer.status = 416 THEN NoText
                       ELSE Part("range", answer.start, answer.end)
  <2>1. /\ answer.status \in {200, 206, 416}
        /\ answer.status # 416 => answer.end - answer.start + 1 \in Nat
    BY PartLength DEF Sendable
  <2> HIDE DEF answer
  <2>2. text = NoText \/ text.last - text.first + 1 \in Nat
    BY <2>1 DEF Part
  <2>3. Sane(ServeRangeDemo(q.range))
    <3> HIDE DEF text
    <3>1. Sane(Answer(answer.status, [etag |-> ImmutableEtag, date |-> LastModified],
                      FieldsOf(<<MaxAge(120), Flag("must-revalidate")>>, {}), text))
      BY <2>1, <2>2, AnswerIsSane, DirectivesOfRoutes
    <3> QED
      BY <3>1 DEF ServeRangeDemo, text, answer
  <2> QED
    BY <1>8, <2>3 DEF HandleGetRoute
<1>9. CASE q.target \notin {"/", "/__health", "/static/hello.txt", "/json/time",
                           "/cache/validator", "/cache/immutable", "/vary/accept-language",
                           "/range/demo"}
  <2>1. HandleGetRoute(q, at) = Reply(404)
    BY <1>9 DEF HandleGetRoute
  <2>2. Sane(Reply(404))
    BY AnswerIsSane DEF Reply
  <2> QED
    BY <2>1, <2>2
<1> QED
  BY <1>1, <1>2, <1>3, <1>4, <1>5, <1>6, <1>7, <1>8, <1>9

\* A request for validation is answered like the request that it is made of, or by 304.
LEMMA ConditionsMatterLittle ==
    ASSUME NEW p, NEW q, NEW at,
           q.target = p.target, q.languages = p.languages, q.range = p.range,
           p.conditions.ifNone = NoList
    PROVE  LET x == HandleGetRoute(q, at)
               y == HandleGetRoute(p, at)
           IN  x = y \/ (x.r.status = 304 /\ x.fields = y.fields)
<1>1. CASE q.target = "/cache/validator"
  <2> DEFINE v      == [etag |-> HarnessEtag, date |-> LastModified]
             fields == FieldsOf(<<MaxAge(60), Flag("must-revalidate")>>, {})
             full   == Answer(200, v, fields, Text("validator", 0))
             short  == Answer(304, v, fields, NoText)
  <2>1. ~MatchesIfNoneMatch(p.conditions.ifNone, HarnessEtag)
    BY DEF MatchesIfNoneMatch
  <2>2. HandleGetRoute(p, at) = full
    BY <1>1, <2>1 DEF HandleGetRoute, ServeCacheValidator
  <2>3. HandleGetRoute(q, at) = IF MatchesIfNoneMatch(q.conditions.ifNone, HarnessEtag)
                                THEN short ELSE full
    BY <1>1 DEF HandleGetRoute, ServeCacheValidator
  <2>4. short.r.status = 304 /\ short.fields = fields /\ full.fields = fields
    <3> HIDE DEF v, fields
    <3> QED
      BY AnswerParts
  <2> HIDE DEF full, short
  <2> QED
    BY <2>2, <2>3, <2>4
<1>2. CASE q.target # "/cache/validator"
  BY <1>2 DEF HandleGetRoute
<1> QED
  BY <1>1, <1>2

\* Responses that may be kept differ by target and language only: not by the time, nor
\* by a Range field that had no effect.
LEMMA RouteIsStable ==
    ASSUME NEW p1, NEW p2, NEW at1, NEW at2, Sendable(p1),
           p1.conditions.ifNone = NoList, p2.conditions.ifNone = NoList,
           p1.target = p2.target, p2.range \in {NoRange, p1.range}
    PROVE  LET y1 == HandleGetRoute(p1, at1)
               y2 == HandleGetRoute(p2, at2)
           IN  /\ y2.fields = y1.fields
               /\ /\ y1.r.status = 200
                  /\ ~Says(y1.fields.control, "no-store")
                  /\ "Accept-Language" \in y1.fields.vary => p1.languages = p2.languages
                  => y2.r.status = 200 /\ y2.text = y1.text
<1> DEFINE y1 == HandleGetRoute(p1, at1)
           y2 == HandleGetRoute(p2, at2)
<1>1. CASE p1.target = "/json/time"
  <2> DEFINE fields == FieldsOf(Uncached, {})
  <2>1. y1 = ServeTimeJson(at1) /\ y2 = ServeTimeJson(at2)
    BY <1>1 DEF HandleGetRoute
  <2>2. ServeTimeJson(at1).fields = fields /\ ServeTimeJson(at2).fields = fields
    BY DEF ServeTimeJson, Answer
  <2>3. Says(fields.control, "no-store")
    <3>1. fields.control = <<Flag("no-store")>>
      BY FieldsOfParts DEF Uncached
    <3> HIDE DEF fields
    <3> QED
      BY <3>1 DEF Says, Flag
  <2> HIDE DEF y1, y2, fields
  <2>4. y1.fields = fields /\ y2.fields = fields
    BY <2>1, <2>2
  <2> QED
    BY <2>3, <2>4 DEF y1, y2
<1>2. CASE p1.target = "/cache/validator"
  <2>1. /\ ~MatchesIfNoneMatch(p1.conditions.ifNone, HarnessEtag)
        /\ ~MatchesIfNoneMatch(p2.conditions.ifNone, HarnessEtag)
    BY DEF MatchesIfNoneMatch
  <2>2. y1 = y2
    BY <1>2, <2>1 DEF HandleGetRoute, ServeCacheValidator
  <2> QED
    BY <2>2
<1>3. CASE p1.target = "/vary/accept-language"
  <2> DEFINE fields == FieldsOf(<<MaxAge(30)>>, {"Accept-Language"})
  <2>1. /\ y1 = ServeVaryAcceptLanguage(p1.languages)
        /\ y2 = ServeVaryAcceptLanguage(p2.languages)
    BY <1>3 DEF HandleGetRoute
  <2>2. /\ ServeVaryAcceptLanguage(p1.languages).fields = fields
        /\ ServeVaryAcceptLanguage(p2.languages).fields = fields
    BY DEF ServeVaryAcceptLanguage, Answer
  <2>3. "Accept-Language" \in fields.vary
    BY FieldsOfParts
  <2> HIDE DEF y1, y2, fields
  <2>4. y1.fields = fields /\ y2.fields = fields
    BY <2>1, <2>2
  <2> QED
    BY <2>1, <2>3, <2>4 DEF y1, y2
<1>4. CASE p1.target = "/range/demo" /\ p2.range = NoRange
  <2> DEFINE fields == FieldsOf(<<MaxAge(120), Flag("must-revalidate")>>, {})
             all    == [status |-> 200, start |-> 0, end |-> Size["range"] - 1]
  <2>1. y1 = ServeRangeDemo(p1.range) /\ y2 = ServeRangeDemo(NoRange)
    BY <1>4 DEF HandleGetRoute
  <2>2. /\ ServeRangeDemo(p1.range).fields = fields /\ ServeRangeDemo(NoRange).fields = fields
        /\ ServeRangeDemo(p1.range).r.status = RangeDemo(p1.range, Size["range"]).status
    BY DEF ServeRangeDemo, Answer
  <2>3. RangeDemo(NoRange, Size["range"]) = all
    BY DEF RangeDemo, Parses, NoRange
  <2>4. RangeDemo(p1.range, Size["range"]).status = 200
          => RangeDemo(p1.range, Size["range"]) = all
    <3>1. CASE p1.range = NoRange
      BY <2>3, <3>1
    <3>2. CASE p1.range \in RangeField
      <4> DEFINE answer == RangeDemo(p1.range, Size["range"])
      <4>1. Size["range"] \in Nat
        BY SizeAssumption DEF Representations
      <4>2. IsExact(answer, p1.range, Size["range"])
        BY <3>2, <4>1, AnswerIsExact
      <4> HIDE DEF answer
      <4>3. answer.status = 200 => answer = all
        BY <4>2 DEF IsExact
      <4> QED
        BY <4>3 DEF answer
    <3> QED
      BY <3>1, <3>2 DEF Sendable
  <2>5. RangeDemo(p1.range, Size["range"]).status = 200
          => ServeRangeDemo(p1.range) = ServeRangeDemo(NoRange)
    BY <2>3, <2>4 DEF ServeRangeDemo
  <2> HIDE DEF y1, y2, fields, all
  <2>6. y1.fields = fields /\ y2.fields = fields /\ (y1.r.status = 200 => y1 = y2)
    BY <2>1, <2>2, <2>5
  <2> QED
    BY <2>6 DEF y1, y2
<1>5. CASE p1.target = "/range/demo" /\ p2.range = p1.range
  <2>1. y1 = y2
    BY <1>5 DEF HandleGetRoute
  <2> QED
    BY <2>1
<1>6. CASE p1.target \notin {"/json/time", "/cache/validator", "/vary/accept-language",
                            "/range/demo"}
  <2>1. y1 = y2
    BY <1>6 DEF HandleGetRoute
  <2> QED
    BY <2>1
<1> QED
  BY <1>1, <1>2, <1>3, <1>4, <1>5, <1>6

-----------------------------------------------------------------------------
\* What the connection loop makes of them.

ByTagsOnly(q) == /\ q.conditions.ifMatch = NoList
                 /\ q.conditions.ifUnmodified = NoDate /\ q.conditions.ifModified = NoDate

LEMMA ServedParts ==
    ASSUME NEW q, NEW at
    PROVE  LET x == Dispatch(q, at)
               r == Evaluate(q.method, q.conditions, x.v, x.r)
           IN  /\ Served(q, at).r = r
               /\ Served(q, at).fields = [x.fields EXCEPT !.date = at]
               /\ Served(q, at).text = (IF r.body = EmptyBody THEN NoText ELSE x.text)
               /\ Served(q, at) = [r |-> Served(q, at).r, v |-> Served(q, at).v,
                                   fields |-> Served(q, at).fields, text |-> Served(q, at).text]
  BY DEF Served

\* Without conditions the response stands, and If-None-Match alone can make it a 304.
LEMMA Undisturbed ==
    ASSUME NEW method \in {"GET", "HEAD"}, NEW q, NEW v, NEW r,
           q.ifMatch = NoList, q.ifUnmodified = NoDate, q.ifModified = NoDate
    PROVE  /\ q.ifNone = NoList => Evaluate(method, q, v, r) = r
           /\ Evaluate(method, q, v, r) = r \/ Evaluate(method, q, v, r).status = 304
<1>1. Decide(method, q, v) \in {304, Stands}
  BY DEF Decide, Safe
<1>2. q.ifNone = NoList => Decide(method, q, v) = Stands
  BY DEF Decide, Stands
<1>3. Replace(r, 304).status = 304
  BY DEF Replace
<1> QED
  BY <1>1, <1>2, <1>3 DEF Evaluate

LEMMA ServedGet ==
    ASSUME NEW q, NEW at, q.method = "GET", Sendable(q), ByTagsOnly(q)
    PROVE  LET s == Served(q, at)
               x == HandleGetRoute(q, at)
           IN  /\ s.fields = [x.fields EXCEPT !.date = at]
               /\ s.r.status = 304 \/ (s.r = x.r /\ s.text = x.text)
               /\ q.conditions.ifNone = NoList => s.r = x.r /\ s.text = x.text
<1> DEFINE s == Served(q, at)
           x == HandleGetRoute(q, at)
           r == Evaluate(q.method, q.conditions, x.v, x.r)
<1>1. Dispatch(q, at) = x
  BY DEF Dispatch
<1>2. s.r = r /\ s.fields = [x.fields EXCEPT !.date = at]
      /\ s.text = (IF r.body = EmptyBody THEN NoText ELSE x.text)
  BY <1>1, ServedParts
<1>3. (q.conditions.ifNone = NoList => r = x.r) /\ (r = x.r \/ r.status = 304)
  BY Undisturbed DEF ByTagsOnly
<1>4. Sane(x)
  BY RouteIsSane
<1> HIDE DEF s, x, r
<1>5. r = x.r => s.text = x.text
  BY <1>2, <1>4 DEF Sane
<1>6. /\ s.fields = [x.fields EXCEPT !.date = at]
      /\ s.r.status = 304 \/ (s.r = x.r /\ s.text = x.text)
      /\ q.conditions.ifNone = NoList => s.r = x.r /\ s.text = x.text
  BY <1>2, <1>3, <1>5
<1> QED
  BY <1>6 DEF s, x

LEMMA RequestParts ==
    ASSUME NEW p \in Request
    PROVE  /\ p.conditions = Unconditional /\ p.conditions.ifNone = NoList
           /\ Sendable(p) /\ ByTagsOnly(p)
<1>1. p.conditions = Unconditional /\ p.range \in RangeField \cup {NoRange}
  BY DEF Request
<1> QED
  BY <1>1 DEF Unconditional, Sendable, ByTagsOnly

LEMMA ValidatingParts ==
    ASSUME NEW p \in Request, NEW e
    PROVE  LET q == Validating(p, e)
           IN  /\ q.method = p.method /\ q.target = p.target
               /\ q.languages = p.languages /\ q.range = p.range
               /\ ByTagsOnly(q)
<1> DEFINE list == [any |-> FALSE, tags |-> {e.reply.v.etag}]
           q    == Validating(p, e)
<1>1. CASE e.reply.v.etag = NoTag
  <2>1. q = p
    BY <1>1 DEF Validating
  <2> HIDE DEF q
  <2>2. ByTagsOnly(q)
    BY <2>1, RequestParts
  <2> QED
    BY <2>1, <2>2 DEF q
<1>2. CASE e.reply.v.etag # NoTag
  <2>1. q = [p EXCEPT !.conditions.ifNone = list]
    BY <1>2 DEF Validating
  <2>2. /\ p = [method |-> p.method, target |-> p.target, languages |-> p.languages,
                range |-> p.range, conditions |-> p.conditions]
    BY DEF Request
  <2>3. p.conditions = [ifMatch |-> NoList, ifUnmodified |-> NoDate,
                        ifNone |-> NoList, ifModified |-> NoDate]
    BY RequestParts DEF Unconditional
  <2> HIDE DEF q, list
  <2>4. /\ q.method = p.method /\ q.target = p.target
        /\ q.languages = p.languages /\ q.range = p.range
        /\ q.conditions.ifMatch = NoList
        /\ q.conditions.ifUnmodified = NoDate /\ q.conditions.ifModified = NoDate
    BY <2>1, <2>2, <2>3
  <2> QED
    BY <2>4 DEF ByTagsOnly, q
<1> QED
  BY <1>1, <1>2

\* What validation makes of the response to a GET: the same or a 304, with the same fields.
LEMMA ValidatedServed ==
    ASSUME NEW p \in Request, NEW e, NEW at, p.method = "GET"
    PROVE  LET s == Served(Validating(p, e), at)
               m == Served(p, at)
           IN  /\ s.fields = m.fields
               /\ s.r.status = 304 \/ (s.r = m.r /\ s.text = m.text)
               /\ FieldNames(m.fields) /\ m.fields.age \in {None, 0}
               /\ m.fields.expires = None /\ Directed(m.fields.control)
<1> DEFINE q == Validating(p, e)
           x == HandleGetRoute(q, at)
           y == HandleGetRoute(p, at)
           s == Served(q, at)
           m == Served(p, at)
<1>1. /\ q.method = "GET" /\ q.target = p.target /\ q.languages = p.languages
      /\ q.range = p.range /\ ByTagsOnly(q)
  BY ValidatingParts
<1>2. Sendable(p) /\ Sendable(q) /\ ByTagsOnly(p) /\ p.conditions.ifNone = NoList
  <2>1. Sendable(p) /\ ByTagsOnly(p) /\ p.conditions.ifNone = NoList
    BY RequestParts
  <2> HIDE DEF q
  <2> QED
    BY <1>1, <2>1 DEF Sendable
<1> HIDE DEF q
<1>3. x = y \/ (x.r.status = 304 /\ x.fields = y.fields)
  BY <1>1, <1>2, ConditionsMatterLittle
<1>4. /\ s.fields = [x.fields EXCEPT !.date = at]
      /\ s.r.status = 304 \/ (s.r = x.r /\ s.text = x.text)
  BY <1>1, <1>2, ServedGet
<1>5. m.fields = [y.fields EXCEPT !.date = at] /\ m.r = y.r /\ m.text = y.text
  BY <1>2, ServedGet
<1>6. /\ FieldNames(y.fields) /\ y.fields.age \in {None, 0}
      /\ y.fields.expires = None /\ Directed(y.fields.control)
  BY <1>2, RouteIsSane DEF Sane
<1> HIDE DEF s, m, x, y
<1>7. /\ FieldNames(m.fields) /\ m.fields.age \in {None, 0}
      /\ m.fields.expires = None /\ Directed(m.fields.control)
  BY <1>5, <1>6 DEF FieldNames
<1>8. s.fields = m.fields /\ (s.r.status = 304 \/ (s.r = m.r /\ s.text = m.text))
  BY <1>3, <1>4, <1>5
<1> QED
  BY <1>7, <1>8 DEF s, m, q

\* What may be kept answers every other request that it is selected for.
LEMMA ServedAlike ==
    ASSUME NEW p1 \in Request, NEW p2 \in Request, NEW at1, NEW at2,
           p1.method = "GET", p2.method = "GET", p1.target = p2.target,
           p2.range \in {NoRange, p1.range}
    PROVE  LET m1 == Served(p1, at1)
               m2 == Served(p2, at2)
           IN  /\ m1.fields.control = m2.fields.control /\ m1.fields.vary = m2.fields.vary
               /\ /\ m1.r.status = 200
                  /\ ~Says(m1.fields.control, "no-store")
                  /\ "Accept-Language" \in m1.fields.vary => p1.languages = p2.languages
                  => m2.r.status = 200 /\ m2.text = m1.text
<1> DEFINE y1 == HandleGetRoute(p1, at1)
           y2 == HandleGetRoute(p2, at2)
           m1 == Served(p1, at1)
           m2 == Served(p2, at2)
<1>1. /\ Sendable(p1) /\ ByTagsOnly(p1) /\ p1.conditions.ifNone = NoList
      /\ Sendable(p2) /\ ByTagsOnly(p2) /\ p2.conditions.ifNone = NoList
  BY RequestParts
<1>2. /\ y2.fields = y1.fields
      /\ /\ y1.r.status = 200
         /\ ~Says(y1.fields.control, "no-store")
         /\ "Accept-Language" \in y1.fields.vary => p1.languages = p2.languages
         => y2.r.status = 200 /\ y2.text = y1.text
  BY <1>1, RouteIsStable
<1>3. m1.fields = [y1.fields EXCEPT !.date = at1] /\ m1.r = y1.r /\ m1.text = y1.text
  BY <1>1, ServedGet
<1>4. m2.fields = [y2.fields EXCEPT !.date = at2] /\ m2.r = y2.r /\ m2.text = y2.text
  BY <1>1, ServedGet
<1>5. FieldNames(y1.fields) /\ FieldNames(y2.fields)
  BY <1>1, RouteIsSane DEF Sane
<1> HIDE DEF y1, y2, m1, m2
<1>6. /\ m1.fields.control = y1.fields.control /\ m1.fields.vary = y1.fields.vary
      /\ m2.fields.control = y2.fields.control /\ m2.fields.vary = y2.fields.vary
  BY <1>3, <1>4, <1>5 DEF FieldNames
<1>7. /\ m1.fields.control = m2.fields.control /\ m1.fields.vary = m2.fields.vary
      /\ /\ m1.r.status = 200
         /\ ~Says(m1.fields.control, "no-store")
         /\ "Accept-Language" \in m1.fields.vary => p1.languages = p2.languages
         => m2.r.status = 200 /\ m2.text = m1.text
  BY <1>2, <1>3, <1>4, <1>6
<1> QED
  BY <1>7 DEF m1, m2

LEMMA ServedPlain ==
    ASSUME NEW p \in Request, NEW at, p.method = "GET"
    PROVE  /\ Served(p, at).r = HandleGetRoute(p, at).r
           /\ Served(p, at).text = HandleGetRoute(p, at).text
  BY RequestParts, ServedGet

LEMMA ServedPlainHead ==
    ASSUME NEW p \in Request, NEW at, p.method = "HEAD"
    PROVE  Served(p, at).r = NormalizeHead(HandleGetRoute(p, at)).r
<1> DEFINE n == NormalizeHead(HandleGetRoute(p, at))
<1>1. p.method # "GET"
  OBVIOUS
<1>2. Dispatch(p, at) = n
  BY <1>1, Zenon DEF Dispatch
<1> HIDE DEF n
<1>3. Served(p, at).r = Evaluate(p.method, p.conditions, n.v, n.r)
  BY <1>2 DEF Served
<1>4. Evaluate(p.method, p.conditions, n.v, n.r) = n.r
  BY RequestParts, Undisturbed DEF ByTagsOnly
<1> QED
  BY <1>3, <1>4 DEF n

\* HEAD is answered like GET.
LEMMA ServedHead ==
    ASSUME NEW p \in Request, NEW g \in Request, NEW at,
           p.method = "HEAD", g.method = "GET",
           g.target = p.target, g.languages = p.languages, g.range = p.range
    PROVE  LET s   == Served(p, at)
               get == Served(g, at)
           IN  /\ s.r.status = get.r.status
               /\ get.text # NoText => SentLength(s.r, "HEAD") = SentLength(get.r, "GET")
<1> DEFINE x   == HandleGetRoute(p, at)
           s   == Served(p, at)
           get == Served(g, at)
<1>2. HandleGetRoute(g, at) = x
  BY RequestParts DEF HandleGetRoute
<1>4. get.r = x.r /\ get.text = x.text
  BY <1>2, ServedPlain
<1>5. s.r = NormalizeHead(x).r
  BY ServedPlainHead
<1>6. Sane(x)
  BY RequestParts, RouteIsSane
<1> HIDE DEF x, s, get
<1>7. /\ NormalizeHead(x).r.status = x.r.status
      /\ NormalizeHead(x).r.body = EmptyBody
      /\ NormalizeHead(x).r.length = IF x.r.body.kind = "full" /\ x.r.length = NoLength
                                     THEN FullLength(x.r) ELSE x.r.length
  BY DEF NormalizeHead, Headless
<1>8. ASSUME get.text # NoText
      PROVE  SentLength(s.r, "HEAD") = SentLength(get.r, "GET")
  <2>1. x.r.body.kind = "full" /\ FullLength(x.r) \in Nat /\ x.r.length = NoLength
    BY <1>4, <1>6, <1>8 DEF Sane
  <2>2. s.r.length = FullLength(x.r) /\ s.r.body.kind = "empty" /\ s.r.status = x.r.status
    BY <1>5, <1>7, <2>1 DEF EmptyBody
  <2> QED
    BY <1>4, <2>1, <2>2 DEF SentLength, NoLength
<1> QED
  BY <1>4, <1>5, <1>7, <1>8 DEF s, get

-----------------------------------------------------------------------------
\* The invariant.

Shaped(x) ==
    /\ x = [r |-> x.r, v |-> x.v, fields |-> x.fields, text |-> x.text]
    /\ FieldNames(x.fields)

\* A response with what a cache goes by: as much age as time has passed since it was made.
Aged(x, meant, asked, at) ==
    /\ Shaped(x)
    /\ x.fields.control = meant.fields.control /\ x.fields.vary = meant.fields.vary
    /\ x.fields.expires = None /\ Directed(x.fields.control)
    /\ x.fields.age \in Nat /\ asked - at <= x.fields.age

\* A stored response is what the harness answers its request with.
EntryInv(e) ==
    LET meant == Served(e.request, e.born)
    IN  /\ e.request \in Request /\ e.request.method = "GET"
        /\ e.asked \in Nat /\ e.born \in Nat
        /\ Aged(e.reply, meant, e.asked, e.born)
        /\ e.reply.r.status = 200 /\ meant.r.status = 200 /\ e.reply.text = meant.text
        /\ ~Says(meant.fields.control, "no-store")

\* One that is being validated for a request was selected for it.
ChosenInv(e, p) ==
    e # Nothing => /\ EntryInv(e)
                   /\ p.method = "GET" /\ p.range = NoRange /\ Selects(e, p)

\* The reply x to a request p that was sent on at a time, with the validators of e.
ReplyInv(p, e, x, asked, at) ==
    LET meant == Served(Validating(p, e), at)
    IN  /\ at \in Nat
        /\ x.r = meant.r /\ x.text = meant.text
        /\ p.method = "GET" => Aged(x, meant, asked, at)
        /\ p.method # "GET" \/ Says(meant.fields.control, "no-store") => asked <= at

\* What a client gets: FreshWhenServed, Transparent and HeadTellsOfGet.
AnswerInv(p, x, asked, at, alone) ==
    LET meant == Served(p, at)
        get   == Served([p EXCEPT !.method = "GET"], at)
    IN  /\ alone => asked - at < Lifetime(x)
        /\ x.r.status = meant.r.status /\ x.text = meant.text
        /\ Says(meant.fields.control, "no-store") => ~alone /\ at >= asked
        /\ p.method = "HEAD" =>
             /\ x.r.status = get.r.status
             /\ get.text # NoText => SentLength(x.r, "HEAD") = SentLength(get.r, "GET")

CallInv(c) ==
    /\ phase[c] \in {"idle", "sent", "replied", "answered"}
    /\ phase[c] # "answered" => reused[c] = FALSE
    /\ phase[c] \in {"sent", "replied"} =>
         /\ request[c] \in Request /\ since[c] \in Nat /\ since[c] <= now
         /\ ChosenInv(validated[c], request[c])
    /\ phase[c] = "replied" => ReplyInv(request[c], validated[c], reply[c], since[c], born[c])
    /\ phase[c] = "answered" => AnswerInv(request[c], reply[c], since[c], born[c], reused[c])

Domains ==
    /\ DOMAIN phase = Clients /\ DOMAIN request = Clients /\ DOMAIN validated = Clients
    /\ DOMAIN since = Clients /\ DOMAIN reply = Clients /\ DOMAIN born = Clients
    /\ DOMAIN reused = Clients

Inv ==
    /\ now \in Nat
    /\ Domains
    /\ \A e \in store : EntryInv(e)
    /\ \A c \in Clients : CallInv(c)

-----------------------------------------------------------------------------
\* Facts about the steps, for any values.

LEMMA NothingAdds ==
    ASSUME NEW p
    PROVE  Validating(p, Nothing) = p
<1>1. Nothing.reply = Reply(404)
  BY DEF Nothing, Entry
<1>2. Reply(404).v = NoValidators
  BY AnswerParts DEF Reply
<1>3. Nothing.reply.v.etag = NoTag
  BY <1>1, <1>2 DEF NoValidators
<1> QED
  BY <1>3 DEF Validating

\* Its age has no influence on how long a response stays fresh.
LEMMA LifetimeByDirectives ==
    ASSUME NEW x, NEW y,
           x.fields.control = y.fields.control, x.fields.expires = y.fields.expires,
           x.fields.date = y.fields.date
    PROVE  Lifetime(x) = Lifetime(y)
  BY DEF Lifetime, FreshnessLifetime, Policy, PolicyFromHeaders

LEMMA LifetimeIsNumber ==
    ASSUME NEW x, x.fields.expires = None, Directed(x.fields.control)
    PROVE  Lifetime(x) \in Int
  BY LastAgeIsNumber DEF Lifetime, FreshnessLifetime, Policy, PolicyFromHeaders,
                         ParseCacheControl, None

LEMMA StorableParts ==
    ASSUME NEW q, NEW x
    PROVE  Storable(q, x) <=> /\ q.method = "GET" /\ x.r.status = 200
                              /\ ~Says(x.fields.control, "no-store")
  BY DEF Storable, Policy, PolicyFromHeaders, ParseCacheControl

LEMMA SelectsParts ==
    ASSUME NEW e, NEW p, Selects(e, p)
    PROVE  /\ e.request.target = p.target
           /\ "Accept-Language" \in e.reply.fields.vary => e.request.languages = p.languages
  BY DEF Selects, Policy, PolicyFromHeaders

\* A stored response serves the requests that it is selected for.
LEMMA EntryServes ==
    ASSUME NEW e, EntryInv(e), NEW p \in Request, NEW at,
           p.method = "GET", p.range = NoRange, Selects(e, p)
    PROVE  LET m == Served(p, at)
           IN  /\ m.r.status = 200 /\ m.text = e.reply.text
               /\ m.fields.control = e.reply.fields.control
               /\ m.fields.vary = e.reply.fields.vary
               /\ ~Says(m.fields.control, "no-store")
<1> DEFINE m == Served(p, at)
           w == Served(e.request, e.born)
<1>1. /\ e.request \in Request /\ e.request.method = "GET"
      /\ w.r.status = 200 /\ e.reply.text = w.text
      /\ e.reply.fields.control = w.fields.control /\ e.reply.fields.vary = w.fields.vary
      /\ ~Says(w.fields.control, "no-store")
  BY DEF EntryInv, Aged
<1>2. /\ e.request.target = p.target
      /\ "Accept-Language" \in e.reply.fields.vary => e.request.languages = p.languages
  BY SelectsParts
<1>3. /\ w.fields.control = m.fields.control /\ w.fields.vary = m.fields.vary
      /\ /\ w.r.status = 200
         /\ ~Says(w.fields.control, "no-store")
         /\ "Accept-Language" \in w.fields.vary => e.request.languages = p.languages
         => m.r.status = 200 /\ m.text = w.text
  BY <1>1, <1>2, ServedAlike
<1> HIDE DEF m, w
<1>4. /\ m.r.status = 200 /\ m.text = e.reply.text
      /\ m.fields.control = e.reply.fields.control
      /\ m.fields.vary = e.reply.fields.vary
      /\ ~Says(m.fields.control, "no-store")
  BY <1>1, <1>2, <1>3
<1> QED
  BY <1>4 DEF m

\* Reuse
LEMMA ReuseAnswers ==
    ASSUME NEW p \in Request, NEW e \in Candidates(p), EntryInv(e), Fresh(e), now \in Nat
    PROVE  AnswerInv(p, [e.reply EXCEPT !.fields.age = AgeOf(e)], now, e.born, TRUE)
<1> DEFINE f == [e.reply.fields EXCEPT !.age = AgeOf(e)]
           x == [e.reply EXCEPT !.fields.age = AgeOf(e)]
<1>1. p.method = "GET" /\ p.range = NoRange /\ Selects(e, p)
  BY DEF Candidates
<1>2. /\ Shaped(e.reply) /\ e.reply.fields.age \in Nat
      /\ e.asked - e.born <= e.reply.fields.age
      /\ e.asked \in Nat /\ e.born \in Nat /\ e.reply.r.status = 200
      /\ Lifetime(e.reply) \in Int
  BY LifetimeIsNumber DEF EntryInv, Aged
<1>3. AgeOf(e) = e.reply.fields.age + now - e.asked
  BY <1>2 DEF AgeOf, Policy, PolicyFromHeaders, None
<1>4. AgeOf(e) < Lifetime(e.reply)
  BY DEF Fresh
<1>5. /\ x.r = e.reply.r /\ x.text = e.reply.text
      /\ x.fields.control = e.reply.fields.control
      /\ x.fields.expires = e.reply.fields.expires
      /\ x.fields.date = e.reply.fields.date
  BY <1>2 DEF Shaped, FieldNames
<1>6. Served(p, e.born).r.status = 200 /\ Served(p, e.born).text = e.reply.text
      /\ ~Says(Served(p, e.born).fields.control, "no-store")
  BY <1>1, EntryServes
<1> HIDE DEF x
<1>7. Lifetime(x) = Lifetime(e.reply)
  BY <1>5, LifetimeByDirectives
<1>8. now - e.born < Lifetime(x)
  BY <1>2, <1>3, <1>4, <1>7
<1>9. AnswerInv(p, x, now, e.born, TRUE)
  BY <1>1, <1>2, <1>5, <1>6, <1>8 DEF AnswerInv
<1> QED
  BY <1>9 DEF x

\* Respond
LEMMA RespondReplies ==
    ASSUME NEW p \in Request, NEW e, ChosenInv(e, p), NEW asked \in Nat, asked <= now,
           now \in Nat, NEW at \in Nat, at <= now, MayPassOn(Validating(p, e), at)
    PROVE  ReplyInv(p, e, PassedOn(Validating(p, e), at), asked, at)
<1> DEFINE q     == Validating(p, e)
           s     == Served(q, at)
           aged  == [s.fields EXCEPT !.age = IF at = now THEN @ ELSE now - at]
           x     == PassedOn(q, at)
<1>1. /\ x.r = s.r /\ x.text = s.text /\ x.fields = EnsureAge(aged)
      /\ x = [r |-> x.r, v |-> x.v, fields |-> x.fields, text |-> x.text]
  <2>1. s = [r |-> s.r, v |-> s.v, fields |-> s.fields, text |-> s.text]
    BY ServedParts
  <2>2. x = [s EXCEPT !.fields = EnsureAge(aged)]
    BY DEF PassedOn
  <2> HIDE DEF s, x, aged
  <2> QED
    BY <2>1, <2>2
<1>2. q.method = p.method
  BY ValidatingParts
<1>3. at = now \/ (Storable(q, s) /\ at # now)
  BY DEF MayPassOn
<1>4. p.method # "GET" \/ Says(s.fields.control, "no-store") => asked <= at
  <2> HIDE DEF q, s
  <2> QED
    BY <1>2, <1>3, StorableParts
<1>5. ASSUME p.method = "GET"
      PROVE  Aged(x, s, asked, at)
  <2>1. /\ FieldNames(s.fields) /\ s.fields.age \in {None, 0}
        /\ s.fields.expires = None /\ Directed(s.fields.control)
    BY <1>5, ValidatedServed
  <2> HIDE DEF s, x
  <2>3. /\ FieldNames(aged) /\ aged.age = (IF at = now THEN s.fields.age ELSE now - at)
        /\ aged.control = s.fields.control /\ aged.vary = s.fields.vary
        /\ aged.expires = s.fields.expires
    BY <2>1 DEF FieldNames
  <2> HIDE DEF aged
  <2>4. aged.age = None \/ aged.age \in Nat
    BY <2>1, <2>3 DEF None
  <2>5. /\ FieldNames(EnsureAge(aged))
        /\ EnsureAge(aged).age = (IF aged.age = None THEN 0 ELSE aged.age)
        /\ EnsureAge(aged).control = aged.control /\ EnsureAge(aged).vary = aged.vary
        /\ EnsureAge(aged).expires = aged.expires
    BY <2>3 DEF EnsureAge, FieldNames
  <2>6. x.fields.age \in Nat /\ asked - at <= x.fields.age
    BY <1>1, <2>1, <2>3, <2>4, <2>5 DEF None
  <2> QED
    BY <1>1, <2>1, <2>3, <2>5, <2>6 DEF Aged, Shaped
<1> HIDE DEF s, x
<1>6. /\ at \in Nat /\ x.r = s.r /\ x.text = s.text
      /\ p.method = "GET" => Aged(x, s, asked, at)
      /\ p.method # "GET" \/ Says(s.fields.control, "no-store") => asked <= at
  BY <1>1, <1>4, <1>5
<1> QED
  BY <1>6 DEF ReplyInv, s, x, q

\* Confirm
LEMMA ConfirmRenews ==
    ASSUME NEW p \in Request, NEW e, e # Nothing, ChosenInv(e, p), NEW asked \in Nat,
           NEW x, NEW at, ReplyInv(p, e, x, asked, at)
    PROVE  LET y == [e.reply EXCEPT !.fields = x.fields]
           IN  EntryInv(Entry(e.request, y, asked, at)) /\ AnswerInv(p, y, asked, at, FALSE)
<1> DEFINE y == [e.reply EXCEPT !.fields = x.fields]
           s == Served(Validating(p, e), at)
           m == Served(p, at)
           w == Served(e.request, at)
           d == Entry(e.request, y, asked, at)
<1>1. EntryInv(e) /\ p.method = "GET" /\ p.range = NoRange /\ Selects(e, p)
  BY DEF ChosenInv
<1>2. /\ at \in Nat /\ Aged(x, s, asked, at)
      /\ Says(s.fields.control, "no-store") => asked <= at
  BY <1>1 DEF ReplyInv
<1>3. s.fields = m.fields
  BY <1>1, ValidatedServed
<1>4. /\ m.r.status = 200 /\ m.text = e.reply.text
      /\ m.fields.control = e.reply.fields.control
      /\ m.fields.vary = e.reply.fields.vary
      /\ ~Says(m.fields.control, "no-store")
  BY <1>1, EntryServes
<1>5. /\ e.request \in Request /\ e.request.method = "GET"
      /\ Shaped(e.reply) /\ e.reply.r.status = 200
  BY <1>1 DEF EntryInv, Aged
<1>6. /\ w.r.status = 200 /\ w.text = e.reply.text
      /\ w.fields.control = e.reply.fields.control
      /\ w.fields.vary = e.reply.fields.vary
      /\ ~Says(w.fields.control, "no-store")
  <2> DEFINE u == Served(e.request, e.born)
  <2>1. /\ u.r.status = 200 /\ e.reply.text = u.text
        /\ e.reply.fields.control = u.fields.control /\ e.reply.fields.vary = u.fields.vary
        /\ ~Says(u.fields.control, "no-store")
    BY <1>1 DEF EntryInv, Aged
  <2>2. /\ u.fields.control = w.fields.control /\ u.fields.vary = w.fields.vary
        /\ /\ u.r.status = 200
           /\ ~Says(u.fields.control, "no-store")
           /\ "Accept-Language" \in u.fields.vary => e.request.languages = e.request.languages
           => w.r.status = 200 /\ w.text = u.text
    BY <1>5, ServedAlike
  <2> HIDE DEF u, w
  <2> QED
    BY <2>1, <2>2
<1>7. /\ y.r = e.reply.r /\ y.text = e.reply.text /\ y.fields = x.fields
      /\ y = [r |-> y.r, v |-> y.v, fields |-> y.fields, text |-> y.text]
  BY <1>5 DEF Shaped
<1> HIDE DEF y, s, m, w
<1>8. Aged(y, w, asked, at)
  BY <1>2, <1>3, <1>4, <1>6, <1>7 DEF Aged, Shaped
<1>9. EntryInv(d)
  <2>1. /\ d.request = e.request /\ d.reply = y /\ d.asked = asked /\ d.born = at
    BY DEF Entry
  <2> HIDE DEF d
  <2> QED
    BY <1>2, <1>5, <1>6, <1>7, <1>8, <2>1 DEF EntryInv, w
<1>10. AnswerInv(p, y, asked, at, FALSE)
  BY <1>1, <1>4, <1>5, <1>7 DEF AnswerInv, m
<1> QED
  BY <1>9, <1>10 DEF y, d

\* Deliver
LEMMA DeliverKeeps ==
    ASSUME NEW p \in Request, NEW e, NEW asked \in Nat, NEW x, NEW at,
           ReplyInv(p, e, x, asked, at), x.r.status # 304, Storable(p, x)
    PROVE  EntryInv(Entry(p, x, asked, at))
<1> DEFINE s == Served(Validating(p, e), at)
           m == Served(p, at)
           d == Entry(p, x, asked, at)
<1>1. p.method = "GET" /\ x.r.status = 200 /\ ~Says(x.fields.control, "no-store")
  BY StorableParts
<1>2. at \in Nat /\ x.r = s.r /\ x.text = s.text /\ Aged(x, s, asked, at)
  BY <1>1 DEF ReplyInv
<1>3. s.fields = m.fields /\ (s.r.status = 304 \/ (s.r = m.r /\ s.text = m.text))
  BY <1>1, ValidatedServed
<1> HIDE DEF s, m
<1>4. d.request = p /\ d.reply = x /\ d.asked = asked /\ d.born = at
  BY DEF Entry
<1> HIDE DEF d
<1>5. /\ Aged(x, m, asked, at) /\ m.r.status = 200 /\ x.text = m.text
      /\ ~Says(m.fields.control, "no-store")
  BY <1>1, <1>2, <1>3 DEF Aged
<1>6. EntryInv(d)
  BY <1>1, <1>2, <1>4, <1>5 DEF EntryInv, m
<1> QED
  BY <1>6 DEF d

LEMMA DeliverAnswers ==
    ASSUME NEW p \in Request, NEW e, ChosenInv(e, p), NEW asked \in Nat, NEW x, NEW at,
           ReplyInv(p, e, x, asked, at), x.r.status # 304
    PROVE  AnswerInv(p, x, asked, at, FALSE)
<1> DEFINE s == Served(Validating(p, e), at)
           m == Served(p, at)
           g == [p EXCEPT !.method = "GET"]
           b == Served(g, at)
<1>1. /\ at \in Nat /\ x.r = s.r /\ x.text = s.text
      /\ p.method # "GET" \/ Says(s.fields.control, "no-store") => asked <= at
  BY DEF ReplyInv
<1>2. x.r = m.r /\ x.text = m.text /\ s.fields = m.fields
  <2>1. CASE p.method = "GET"
    <3>1. s.fields = m.fields /\ (s.r.status = 304 \/ (s.r = m.r /\ s.text = m.text))
      BY <2>1, ValidatedServed
    <3> HIDE DEF s, m
    <3> QED
      BY <1>1, <3>1
  <2>2. CASE p.method # "GET"
    <3>1. e = Nothing
      BY <2>2 DEF ChosenInv
    <3>2. s = m
      BY <3>1, NothingAdds
    <3> HIDE DEF s, m
    <3> QED
      BY <1>1, <3>2
  <2> QED
    BY <2>1, <2>2
<1>3. p.method = "HEAD" => /\ m.r.status = b.r.status
                           /\ b.text # NoText => SentLength(m.r, "HEAD") = SentLength(b.r, "GET")
  <2>1. /\ g \in Request /\ g.method = "GET" /\ g.target = p.target
        /\ g.languages = p.languages /\ g.range = p.range
    BY DEF Request, Methods
  <2> HIDE DEF g
  <2> QED
    BY <2>1, ServedHead
<1> HIDE DEF s, m, b
<1>4. Says(m.fields.control, "no-store") => at >= asked
  BY <1>1, <1>2
<1> QED
  BY <1>2, <1>3, <1>4 DEF AnswerInv, m, b

-----------------------------------------------------------------------------
\* The invariant holds.

LEMMA InvAtStart == Init => Inv
<1> SUFFICES ASSUME Init PROVE Inv
  OBVIOUS
<1>1. now \in Nat /\ Domains /\ store = {}
  BY DEF Init, Domains
<1>2. ASSUME NEW c \in Clients PROVE CallInv(c)
  <2>1. phase[c] = "idle" /\ reused[c] = FALSE
    BY DEF Init
  <2> QED
    BY <2>1 DEF CallInv
<1> QED
  BY <1>1, <1>2 DEF Inv

\* A call that a step leaves alone, though time may pass.
LEMMA CallStays ==
    ASSUME NEW c, CallInv(c), now \in Nat, now' \in Nat, now <= now',
           phase'[c] = phase[c], request'[c] = request[c], validated'[c] = validated[c],
           since'[c] = since[c], reply'[c] = reply[c], born'[c] = born[c],
           reused'[c] = reused[c]
    PROVE  CallInv(c)'
  BY DEF CallInv

LEMMA TickKeepsInv == Inv /\ Tick => Inv'
<1> SUFFICES ASSUME Inv, Tick PROVE Inv'
  OBVIOUS
<1>1. PICK n \in Steps : now' = now + n
  BY DEF Tick
<1>2. now \in Nat /\ now' \in Nat /\ now <= now'
  BY <1>1, TimeAssumption DEF Inv
<1>3. /\ store' = store /\ phase' = phase /\ request' = request /\ validated' = validated
      /\ since' = since /\ reply' = reply /\ born' = born /\ reused' = reused
  BY DEF Tick, call
<1>4. ASSUME NEW c \in Clients PROVE CallInv(c)'
  <2>1. CallInv(c)
    BY DEF Inv
  <2> QED
    BY <1>2, <1>3, <2>1, CallStays
<1>5. Domains'
  BY <1>3 DEF Inv, Domains
<1>6. \A e \in store' : EntryInv(e)
  BY <1>3 DEF Inv
<1> QED
  BY <1>2, <1>4, <1>5, <1>6 DEF Inv

LEMMA ReuseKeepsInv ==
    ASSUME Inv, NEW c \in Clients, Reuse(c)
    PROVE  Inv'
<1>1. PICK p \in Requests, e \in store :
        /\ e \in Candidates(p) /\ Fresh(e)
        /\ request' = [request EXCEPT ![c] = p]
        /\ reply' = [reply EXCEPT ![c] = [e.reply EXCEPT !.fields.age = AgeOf(e)]]
        /\ born' = [born EXCEPT ![c] = e.born]
  BY DEF Reuse, Candidates
<1> DEFINE x == [e.reply EXCEPT !.fields.age = AgeOf(e)]
<1>2. AnswerInv(p, x, now, e.born, TRUE)
  <2>1. EntryInv(e) /\ now \in Nat
    BY DEF Candidates, Inv
  <2>2. p \in Request
    BY RequestsAssumption
  <2> QED
    BY <1>1, <2>1, <2>2, ReuseAnswers
<1> HIDE DEF x
<1>3. /\ since' = [since EXCEPT ![c] = now] /\ reused' = [reused EXCEPT ![c] = TRUE]
      /\ phase' = [phase EXCEPT ![c] = "answered"]
      /\ now' = now /\ store' = store /\ validated' = validated
  BY DEF Reuse
<1>4. /\ reply' = [reply EXCEPT ![c] = x]
      /\ request' = [request EXCEPT ![c] = p] /\ born' = [born EXCEPT ![c] = e.born]
  BY <1>1 DEF x
<1>5. Domains /\ Domains'
  BY <1>3, <1>4 DEF Inv, Domains
<1>6. ASSUME NEW d \in Clients PROVE CallInv(d)'
  <2>1. CASE d = c
    BY <1>2, <1>3, <1>4, <1>5, <2>1 DEF CallInv, Domains
  <2>2. CASE d # c
    <3>1. CallInv(d) /\ now \in Nat
      BY DEF Inv
    <3>2. reused'[d] = reused[d]
      BY <1>3, <1>5, <2>2, Zenon DEF Domains
    <3>3. /\ phase'[d] = phase[d] /\ request'[d] = request[d] /\ since'[d] = since[d]
          /\ reply'[d] = reply[d] /\ born'[d] = born[d] /\ validated'[d] = validated[d]
      BY <1>3, <1>4, <1>5, <2>2 DEF Domains
    <3>4. now' \in Nat /\ now <= now'
      BY <1>3, <3>1
    <3> QED
      BY <3>1, <3>2, <3>3, <3>4, CallStays, Zenon
  <2> QED
    BY <2>1, <2>2
<1> QED
  BY <1>3, <1>5, <1>6 DEF Inv

LEMMA ForwardKeepsInv ==
    ASSUME Inv, NEW c \in Clients, Forward(c)
    PROVE  Inv'
<1>1. PICK p \in Requests, e \in store \cup {Nothing} :
        /\ e \in Candidates(p) \/ e = Nothing
        /\ request' = [request EXCEPT ![c] = p]
        /\ validated' = [validated EXCEPT ![c] = e]
  BY DEF Forward, Candidates
<1>2. /\ since' = [since EXCEPT ![c] = now] /\ phase' = [phase EXCEPT ![c] = "sent"]
      /\ now' = now /\ store' = store /\ reply' = reply /\ born' = born
      /\ reused' = reused /\ phase[c] = "idle"
  BY DEF Forward
<1>3. p \in Request /\ ChosenInv(e, p)
  BY <1>1, RequestsAssumption DEF Candidates, ChosenInv, Inv
<1>4. Domains /\ Domains' /\ now \in Nat
  BY <1>1, <1>2 DEF Inv, Domains
<1>5. ASSUME NEW d \in Clients PROVE CallInv(d)'
  <2>1. CallInv(d)
    BY DEF Inv
  <2>2. CASE d = c
    BY <1>1, <1>2, <1>3, <1>4, <2>1, <2>2 DEF CallInv, Domains
  <2>3. CASE d # c
    BY <1>1, <1>2, <1>4, <2>1, <2>3, CallStays DEF Domains
  <2> QED
    BY <2>2, <2>3
<1> QED
  BY <1>2, <1>4, <1>5 DEF Inv

LEMMA RespondKeepsInv ==
    ASSUME Inv, NEW c \in Clients, Respond(c)
    PROVE  Inv'
<1> DEFINE q == Validating(request[c], validated[c])
<1>1. PICK at \in {now} \cup { now - n : n \in Steps } :
        /\ at >= 0 /\ MayPassOn(q, at)
        /\ reply' = [reply EXCEPT ![c] = PassedOn(q, at)]
        /\ born' = [born EXCEPT ![c] = at]
  BY DEF Respond
<1>2. /\ phase' = [phase EXCEPT ![c] = "replied"] /\ phase[c] = "sent"
      /\ now' = now /\ store' = store /\ request' = request /\ validated' = validated
      /\ since' = since /\ reused' = reused
  BY DEF Respond
<1>3. at \in Nat /\ at <= now /\ now \in Nat
  BY <1>1, TimeAssumption DEF Inv
<1>4. /\ request[c] \in Request /\ since[c] \in Nat /\ since[c] <= now
      /\ ChosenInv(validated[c], request[c]) /\ reused[c] = FALSE
  BY <1>2 DEF Inv, CallInv
<1> DEFINE x == PassedOn(q, at)
<1>5. ReplyInv(request[c], validated[c], x, since[c], at)
  BY <1>1, <1>3, <1>4, RespondReplies
<1>6. reply' = [reply EXCEPT ![c] = x] /\ born' = [born EXCEPT ![c] = at]
  BY <1>1
<1> HIDE DEF x, q
<1>7. Domains /\ Domains'
  BY <1>2, <1>6 DEF Inv, Domains
<1>8. ASSUME NEW d \in Clients PROVE CallInv(d)'
  <2>1. CASE d = c
    BY <1>2, <1>3, <1>4, <1>5, <1>6, <1>7, <2>1 DEF CallInv, Domains
  <2>2. CASE d # c
    <3>1. CallInv(d)
      BY DEF Inv
    <3> QED
      BY <1>2, <1>3, <1>6, <1>7, <2>2, <3>1, CallStays DEF Domains
  <2> QED
    BY <2>1, <2>2
<1> QED
  BY <1>2, <1>3, <1>7, <1>8 DEF Inv

LEMMA StoreKeepsEntries ==
    ASSUME NEW e, EntryInv(e), \A d \in store : EntryInv(d)
    PROVE  \A d \in StoreWith(e) : EntryInv(d)
  BY DEF StoreWith

LEMMA ConfirmKeepsInv ==
    ASSUME Inv, NEW c \in Clients, Confirm(c)
    PROVE  Inv'
<1> DEFINE y == Confirmed(c)
           e == Entry(validated[c].request, y, since[c], born[c])
<1>1. /\ phase[c] = "replied" /\ validated[c] # Nothing /\ store' = StoreWith(e)
      /\ reply' = [reply EXCEPT ![c] = y] /\ phase' = [phase EXCEPT ![c] = "answered"]
      /\ now' = now /\ request' = request /\ validated' = validated
      /\ since' = since /\ born' = born /\ reused' = reused
  BY DEF Confirm
<1>2. /\ request[c] \in Request /\ since[c] \in Nat
      /\ ChosenInv(validated[c], request[c]) /\ reused[c] = FALSE
      /\ ReplyInv(request[c], validated[c], reply[c], since[c], born[c])
  BY <1>1 DEF Inv, CallInv
<1>3. EntryInv(e) /\ AnswerInv(request[c], y, since[c], born[c], FALSE)
  BY <1>1, <1>2, ConfirmRenews DEF Confirmed
<1> HIDE DEF y, e
<1>4. Domains /\ Domains' /\ now \in Nat
  BY <1>1 DEF Inv, Domains
<1>5. ASSUME NEW d \in Clients PROVE CallInv(d)'
  <2>1. CASE d = c
    BY <1>1, <1>2, <1>3, <1>4, <2>1 DEF CallInv, Domains
  <2>2. CASE d # c
    <3>1. CallInv(d)
      BY DEF Inv
    <3> QED
      BY <1>1, <1>4, <2>2, <3>1, CallStays DEF Domains
  <2> QED
    BY <2>1, <2>2
<1>6. \A d \in store' : EntryInv(d)
  BY <1>1, <1>3, StoreKeepsEntries DEF Inv
<1> QED
  BY <1>1, <1>4, <1>5, <1>6 DEF Inv

LEMMA DeliverKeepsInv ==
    ASSUME Inv, NEW c \in Clients, Deliver(c)
    PROVE  Inv'
<1> DEFINE e == Entry(request[c], reply[c], since[c], born[c])
<1>1. /\ phase[c] = "replied" /\ reply[c].r.status # 304
      /\ store' = IF Storable(request[c], reply[c]) THEN StoreWith(e) ELSE store
      /\ phase' = [phase EXCEPT ![c] = "answered"]
      /\ now' = now /\ request' = request /\ validated' = validated
      /\ since' = since /\ reply' = reply /\ born' = born /\ reused' = reused
  BY DEF Deliver
<1>2. /\ request[c] \in Request /\ since[c] \in Nat
      /\ ChosenInv(validated[c], request[c]) /\ reused[c] = FALSE
      /\ ReplyInv(request[c], validated[c], reply[c], since[c], born[c])
  BY <1>1 DEF Inv, CallInv
<1>3. AnswerInv(request[c], reply[c], since[c], born[c], FALSE)
  BY <1>1, <1>2, DeliverAnswers
<1>4. Storable(request[c], reply[c]) => EntryInv(e)
  BY <1>1, <1>2, DeliverKeeps
<1> HIDE DEF e
<1>5. Domains /\ Domains' /\ now \in Nat
  BY <1>1 DEF Inv, Domains
<1>6. ASSUME NEW d \in Clients PROVE CallInv(d)'
  <2>1. CASE d = c
    BY <1>1, <1>2, <1>3, <1>5, <2>1 DEF CallInv, Domains
  <2>2. CASE d # c
    <3>1. CallInv(d)
      BY DEF Inv
    <3> QED
      BY <1>1, <1>5, <2>2, <3>1, CallStays DEF Domains
  <2> QED
    BY <2>1, <2>2
<1>7. \A d \in store' : EntryInv(d)
  BY <1>1, <1>4, StoreKeepsEntries DEF Inv
<1> QED
  BY <1>1, <1>5, <1>6, <1>7 DEF Inv

LEMMA TakeKeepsInv ==
    ASSUME Inv, NEW c \in Clients, Take(c)
    PROVE  Inv'
<1>1. /\ phase' = [phase EXCEPT ![c] = "idle"] /\ reused' = [reused EXCEPT ![c] = FALSE]
      /\ request' = [request EXCEPT ![c] = NoCall]
      /\ validated' = [validated EXCEPT ![c] = Nothing]
      /\ since' = [since EXCEPT ![c] = 0] /\ reply' = [reply EXCEPT ![c] = Reply(404)]
      /\ born' = [born EXCEPT ![c] = 0] /\ now' = now /\ store' = store
  BY DEF Take
<1>2. Domains /\ Domains' /\ now \in Nat
  BY <1>1 DEF Inv, Domains
<1>3. ASSUME NEW d \in Clients PROVE CallInv(d)'
  <2>1. CASE d = c
    BY <1>1, <1>2, <2>1 DEF CallInv, Domains
  <2>2. CASE d # c
    <3>1. CallInv(d)
      BY DEF Inv
    <3>2. reused'[d] = reused[d]
      BY <1>1, <1>2, <2>2, Zenon DEF Domains
    <3>3. /\ phase'[d] = phase[d] /\ request'[d] = request[d] /\ since'[d] = since[d]
          /\ reply'[d] = reply[d] /\ born'[d] = born[d] /\ validated'[d] = validated[d]
      BY <1>1, <1>2, <2>2 DEF Domains
    <3>4. now \in Nat /\ now' \in Nat /\ now <= now'
      BY <1>1, <1>2
    <3> QED
      BY <3>1, <3>2, <3>3, <3>4, CallStays, Zenon
  <2> QED
    BY <2>1, <2>2
<1> QED
  BY <1>1, <1>2, <1>3 DEF Inv

LEMMA Invariance == Spec => []Inv
<1>1. Inv /\ [Next]_vars => Inv'
  <2> SUFFICES ASSUME Inv, [Next]_vars PROVE Inv'
    OBVIOUS
  <2>1. CASE Tick
    BY <2>1, TickKeepsInv
  <2>2. ASSUME NEW c \in Clients,
               Reuse(c) \/ Forward(c) \/ Respond(c) \/ Confirm(c) \/ Deliver(c) \/ Take(c)
        PROVE  Inv'
    BY <2>2, ReuseKeepsInv, ForwardKeepsInv, RespondKeepsInv, ConfirmKeepsInv,
       DeliverKeepsInv, TakeKeepsInv
  <2>3. CASE UNCHANGED vars
    <3>1. /\ now' = now /\ store' = store /\ phase' = phase /\ request' = request
          /\ validated' = validated /\ since' = since /\ reply' = reply /\ born' = born
          /\ reused' = reused
      BY <2>3 DEF vars, call
    <3>2. ASSUME NEW c \in Clients PROVE CallInv(c)'
      <4>1. CallInv(c) /\ now \in Nat
        BY DEF Inv
      <4> QED
        BY <3>1, <4>1, CallStays
    <3> QED
      BY <3>1, <3>2 DEF Inv, Domains
  <2> QED
    BY <2>1, <2>2, <2>3 DEF Next
<1> QED
  BY <1>1, InvAtStart, PTL DEF Spec

-----------------------------------------------------------------------------
\* What follows.

\* FreshWhenServed, the freshness that policy_from_headers, freshness_lifetime and
\* ensure_age_header give a shared cache, however long a response was under way.
THEOREM FreshIsFresh == Spec => []FreshWhenServed
<1>1. Inv => FreshWhenServed
  BY DEF Inv, CallInv, AnswerInv, Answered, FreshWhenServed
<1> QED
  BY <1>1, Invariance, PTL

\* Transparent: the Cache-Control and Vary fields of every route of the harness let a
\* cache reuse what it has only where the harness would have said the same.
THEOREM CachesAreTransparent == Spec => []Transparent
<1>1. ASSUME Inv, NEW c \in Clients, Answered(c)
      PROVE  LET meant == Served(request[c], born[c])
             IN  /\ reply[c].r.status = meant.r.status /\ reply[c].text = meant.text
                 /\ Policy(meant).control.noStore => ~reused[c] /\ born[c] >= since[c]
  <2>1. AnswerInv(request[c], reply[c], since[c], born[c], reused[c])
    BY <1>1 DEF Inv, CallInv, Answered
  <2> QED
    BY <2>1 DEF AnswerInv, Policy, PolicyFromHeaders, ParseCacheControl
<1>2. Inv => Transparent
  BY <1>1 DEF Transparent
<1> QED
  BY <1>2, Invariance, PTL

\* HeadTellsOfGet: normalize_head_response keeps the status, and the length of the body
\* that it drops, for every route.
THEOREM HeadIsHonest == Spec => []HeadTellsOfGet
<1>1. Inv => HeadTellsOfGet
  BY DEF Inv, CallInv, AnswerInv, Answered, HeadTellsOfGet
<1> QED
  BY <1>1, Invariance, PTL
=============================================================================
