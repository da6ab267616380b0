-------------------------- MODULE ValidationProofs --------------------------
(***************************************************************************)
(* Validation, proved for any number of clients, of writes and of seconds, *)
(* and for all the forms that conditional requests may have.               *)
(***************************************************************************)
EXTENDS Validation, MessageProofs

\* What a list of tags may be that was filled in from version n.
Mine(list, n) ==
    \/ list = NoList
    \/ list = [any |-> TRUE, tags |-> {}]
    \/ n # 0 /\ \E weak \in BOOLEAN :
                    list = [any |-> FALSE, tags |-> {[weak |-> weak, opaque |-> n]}]

\* What the handler may return for a request.
Given == {Plain(404), Page, Plain(200), Plain(201)}

FromHandler(method, asked, x) ==
    /\ x \in [r : Given, v : Validators, of : Nat]
    /\ \/ Safe(method) /\ x = NoResponse
       \/ Safe(method) /\ x.r = Page /\ x.of # 0 /\ x.of >= asked /\ x.v.etag = TagOf(x.of)
       \/ method = "PUT" /\ x.r \in {Plain(200), Plain(201)}

\* What the connection makes of it.
Conditioned(method, q, asked, x) ==
    \E r \in Given : /\ FromHandler(method, asked, [r |-> r, v |-> x.v, of |-> x.of])
                     /\ x.r = Evaluate(method, q, x.v, r)

ClientInv(c) ==
    LET method == request[c].method
        q      == request[c].q
    IN  /\ copy[c] \in 0 .. Current /\ since[c] \in 0 .. Current
        /\ response[c].of \in 0 .. Current
        /\ phase[c] \in {"idle", "sent", "handled", "answered"}
        /\ phase[c] # "idle" => /\ method \in {"GET", "HEAD", "PUT"}
                                /\ q \in Conditions
                                /\ Mine(q.ifMatch, copy[c]) /\ Mine(q.ifNone, copy[c])
        /\ phase[c] = "handled" => FromHandler(method, since[c], response[c])
        /\ phase[c] = "answered" => Conditioned(method, q, since[c], response[c])

Inv ==
    /\ dates \in Seq(Nat) /\ now \in Nat
    /\ DOMAIN phase = Clients /\ DOMAIN request = Clients /\ DOMAIN response = Clients
    /\ DOMAIN copy = Clients /\ DOMAIN since = Clients
    /\ \A c \in Clients : ClientInv(c)

-----------------------------------------------------------------------------
\* The responses.

LEMMA PlainIsResponse ==
    ASSUME NEW status \in 100 .. 599
    PROVE  Plain(status) \in Response
<1>1. EmptyBody \in Body
  BY DEF EmptyBody, Body
<1> QED
  BY <1>1 DEF Plain, Response, Codings

LEMMA PageIsResponse == Page \in Response /\ Page.status = 200
<1>1. [kind |-> "full", pieces |-> <<3>>, fails |-> FALSE] \in Body
  BY DEF Body
<1> QED
  BY <1>1 DEF Page, Response, Codings

LEMMA GivenAreResponses == Given \subseteq Response
  BY PlainIsResponse, PageIsResponse DEF Given

LEMMA NoResponseIsTyped == NoResponse \in [r : Given, v : Validators, of : Nat]
<1>1. [etag |-> NoTag, date |-> NoDate] \in Validators
  BY DEF Validators, Dates
<1> QED
  BY <1>1 DEF NoResponse, Given

\* What is left of a handler's response is the whole of it, or a status alone.
LEMMA Outcomes ==
    ASSUME NEW method, NEW q, NEW v, NEW r \in Response
    PROVE  LET e == Evaluate(method, q, v, r)
           IN  \/ /\ e = r
                  /\ r.status >= 400 \/ Decide(method, q, v) = Stands
               \/ /\ Decide(method, q, v) \in {304, 412}
                  /\ e = Replace(r, Decide(method, q, v))
<1>1. Decide(method, q, v) \in {Stands, 304, 412}
  BY DEF Decide
<1>2. r.status \in Nat
  BY DEF Response
<1> QED
  BY <1>1, <1>2 DEF Evaluate

LEMMA ReplacedIsTyped ==
    ASSUME NEW r \in Response, NEW status \in {304, 412}
    PROVE  /\ Replace(r, status) \in Response
           /\ Replace(r, status).status = status
           /\ Replace(r, status).length = NoLength
           /\ Replace(r, status).body = EmptyBody
           /\ Replace(r, status).coding = "absent"
<1>1. EmptyBody \in Body
  BY DEF EmptyBody, Body
<1> QED
  BY <1>1 DEF Replace, Response, Codings

-----------------------------------------------------------------------------
\* The steps.

LEMMA Initially == Init => Inv
<1> SUFFICES ASSUME Init
             PROVE  Inv
  OBVIOUS
<1>1. Current = 0 /\ dates \in Seq(Nat) /\ now \in Nat
  BY DEF Init, Current
<1>2. NoResponse.of = 0
  BY DEF NoResponse
<1> QED
  BY <1>1, <1>2 DEF Init, Inv, ClientInv

\* What a client fills in.
LEMMA FilledIn ==
    ASSUME Inv, NEW c \in Clients, NEW form \in Form, Fillable(form, copy[c])
    PROVE  /\ Fill(form, copy[c]) \in Conditions
           /\ Mine(Fill(form, copy[c]).ifMatch, copy[c])
           /\ Mine(Fill(form, copy[c]).ifNone, copy[c])
<1> DEFINE n == copy[c]
<1>1. n \in 0 .. Current /\ Current \in Nat /\ dates \in Seq(Nat)
  BY DEF Inv, ClientInv, Current
<1>2. form.weak \in BOOLEAN /\ form.star \in BOOLEAN
  BY DEF Form
<1>3. ASSUME NEW field \in {"match", "none"}
      PROVE  List(form, n, field) \in TagList \cup {NoList} /\ Mine(List(form, n, field), n)
  <2>1. CASE field \notin form.fields
    BY <2>1 DEF List, Mine
  <2>2. CASE field \in form.fields /\ form.star
    BY <2>2 DEF List, Mine, TagList
  <2>3. CASE field \in form.fields /\ ~form.star
    <3>1. n # 0
      <4>1. form.fields # {} /\ ~form.star
        BY <2>3
      <4> QED
        BY <4>1, Zenon DEF Fillable
    <3>2. List(form, n, field) = [any |-> FALSE, tags |-> {[weak |-> form.weak, opaque |-> n]}]
      <4>1. [TagOf(n) EXCEPT !.weak = form.weak] = [weak |-> form.weak, opaque |-> n]
        BY DEF TagOf
      <4> QED
        BY <2>3, <4>1 DEF List
    <3>3. [weak |-> form.weak, opaque |-> n] \in Tag
      BY <1>1, <1>2, <3>1 DEF Tag
    <3>4. List(form, n, field) \in TagList
      BY <3>2, <3>3 DEF TagList
    <3>5. Mine(List(form, n, field), n)
      BY <1>2, <3>1, <3>2, Zenon DEF Mine
    <3> QED
      BY <3>4, <3>5
  <2> QED
    BY <2>1, <2>2, <2>3
<1>4. ASSUME NEW field \in {"unmodified", "modified"}
      PROVE  Date(form, n, field) \in Dates
  <2>1. CASE field \notin form.fields
    BY <2>1 DEF Date, Dates
  <2>2. CASE field \in form.fields
    <3>1. n \in 1 .. Len(dates)
      BY <1>1, <2>2 DEF Fillable, Current
    <3> QED
      BY <1>1, <2>2, <3>1 DEF Date, Dates
  <2> QED
    BY <2>1, <2>2
<1> HIDE DEF n
<1>5. Fill(form, n) = [ifMatch      |-> List(form, n, "match"),
                       ifUnmodified |-> Date(form, n, "unmodified"),
                       ifNone       |-> List(form, n, "none"),
                       ifModified   |-> Date(form, n, "modified")]
  BY DEF Fill
<1> QED
  BY <1>3, <1>4, <1>5 DEF Conditions, n

\* A step that changes the state of one client only, and perhaps adds a version.
LEMMA OneClient ==
    ASSUME Inv, NEW c \in Clients,
           dates' \in Seq(Nat), now' \in Nat, Current' >= Current,
           DOMAIN phase' = Clients, DOMAIN request' = Clients, DOMAIN response' = Clients,
           DOMAIN copy' = Clients, DOMAIN since' = Clients,
           \A d \in Clients \ {c} :
               /\ phase'[d] = phase[d] /\ request'[d] = request[d]
               /\ response'[d] = response[d] /\ copy'[d] = copy[d] /\ since'[d] = since[d],
           ClientInv(c)'
    PROVE  Inv'
<1>1. Current \in Nat /\ Current' \in Nat
  BY DEF Inv, Current
<1>2. ASSUME NEW d \in Clients \ {c}
      PROVE  ClientInv(d)'
  <2>1. ClientInv(d)
    BY DEF Inv
  <2> QED
    BY <1>1, <2>1 DEF ClientInv
<1> QED
  BY <1>2 DEF Inv

LEMMA StepKeepsInv == Inv /\ [Next]_vars => Inv'
<1> SUFFICES ASSUME Inv, [Next]_vars
             PROVE  Inv'
  OBVIOUS
<1>0. Current \in Nat /\ dates \in Seq(Nat)
  BY DEF Inv, Current
<1>1. CASE Tick
  BY <1>1 DEF Tick, Inv, ClientInv, Current
<1>2. ASSUME NEW c \in Clients, Send(c)
      PROVE  Inv'
  <2>1. PICK method \in Methods, form \in Forms :
           /\ Fillable(form, copy[c])
           /\ request' = [request EXCEPT ![c] = [method |-> method, q |-> Fill(form, copy[c])]]
    BY <1>2 DEF Send
  <2>2. /\ method \in {"GET", "HEAD", "PUT"}
        /\ Fill(form, copy[c]) \in Conditions
        /\ Mine(Fill(form, copy[c]).ifMatch, copy[c])
        /\ Mine(Fill(form, copy[c]).ifNone, copy[c])
    BY <2>1, FilledIn, MethodsAssumption, FormsAssumption
  <2>3. /\ dates' = dates /\ now' = now /\ Current' = Current
        /\ phase' = [phase EXCEPT ![c] = "sent"] /\ since' = [since EXCEPT ![c] = Current]
        /\ response' = response /\ copy' = copy
    BY <1>2 DEF Send, resource, Current
  <2>4. request'[c].method = method /\ request'[c].q = Fill(form, copy[c])
    BY <2>1 DEF Inv
  <2>5. ClientInv(c)'
    BY <1>0, <2>2, <2>3, <2>4 DEF Inv, ClientInv
  <2>6. dates' \in Seq(Nat) /\ now' \in Nat /\ Current' >= Current
    BY <1>0, <2>1, <2>3 DEF Inv
  <2>7. /\ DOMAIN phase' = Clients /\ DOMAIN request' = Clients /\ DOMAIN response' = Clients
        /\ DOMAIN copy' = Clients /\ DOMAIN since' = Clients
    BY <2>1, <2>3 DEF Inv
  <2>8. \A d \in Clients \ {c} :
            /\ phase'[d] = phase[d] /\ request'[d] = request[d]
            /\ response'[d] = response[d] /\ copy'[d] = copy[d] /\ since'[d] = since[d]
    BY <2>1, <2>3 DEF Inv
  <2> QED
    BY <2>5, <2>6, <2>7, <2>8, OneClient
<1>3. ASSUME NEW c \in Clients, HandleRead(c)
      PROVE  Inv'
  <2>1. /\ dates' = dates /\ now' = now /\ Current' = Current
        /\ phase[c] = "sent" /\ phase' = [phase EXCEPT ![c] = "handled"]
        /\ request' = request /\ copy' = copy /\ since' = since
        /\ Safe(request[c].method)
    BY <1>3 DEF HandleRead, resource, Current
  <2>2. FromHandler(request[c].method, since[c], response'[c])
    <3>1. CASE Current = 0
      <4>1. response'[c] = NoResponse
        BY <1>3, <3>1 DEF HandleRead, Inv
      <4> QED
        BY <2>1, <4>1, NoResponseIsTyped DEF FromHandler
    <3>2. CASE Current # 0
      <4>1. response'[c] = [r |-> Page, v |-> Show(Current, dates[Current]), of |-> Current]
        BY <1>3, <3>2 DEF HandleRead, Inv
      <4>2. dates[Current] \in Nat /\ TagOf(Current) \in Tag
        BY <1>0, <3>2 DEF Current, TagOf, Tag
      <4>3. Show(Current, dates[Current]) \in Validators
            /\ Show(Current, dates[Current]).etag = TagOf(Current)
        BY <4>2 DEF Show, Validators, Dates
      <4>4. Page \in Given /\ Current >= since[c]
        BY <1>0 DEF Given, Inv, ClientInv
      <4> QED
        BY <1>0, <2>1, <3>2, <4>1, <4>3, <4>4 DEF FromHandler
    <3> QED
      BY <3>1, <3>2
  <2>3. ClientInv(c)'
    <3>1. response'[c].of \in 0 .. Current
      BY <1>0, <1>3 DEF HandleRead, Inv, NoResponse
    <3> QED
      BY <1>0, <2>1, <2>2, <3>1 DEF Inv, ClientInv
  <2>4. /\ DOMAIN response' = Clients
        /\ \A d \in Clients \ {c} : response'[d] = response[d]
    BY <1>3 DEF HandleRead, Inv
  <2>5. dates' \in Seq(Nat) /\ now' \in Nat /\ Current' >= Current
    BY <1>0, <2>1, <2>4 DEF Inv
  <2>6. /\ DOMAIN phase' = Clients /\ DOMAIN request' = Clients /\ DOMAIN response' = Clients
        /\ DOMAIN copy' = Clients /\ DOMAIN since' = Clients
    BY <2>1, <2>4 DEF Inv
  <2>7. \A d \in Clients \ {c} :
            /\ phase'[d] = phase[d] /\ request'[d] = request[d]
            /\ response'[d] = response[d] /\ copy'[d] = copy[d] /\ since'[d] = since[d]
    BY <2>1, <2>4 DEF Inv
  <2> QED
    BY <2>3, <2>5, <2>6, <2>7, OneClient
<1>4. ASSUME NEW c \in Clients, HandleWrite(c)
      PROVE  Inv'
  <2>1. dates' \in Seq(Nat) /\ now' = now /\ now \in Nat /\ Current' = Current + 1
    BY <1>0, <1>4 DEF HandleWrite, Current, Inv
  <2>2. /\ phase[c] = "sent" /\ phase' = [phase EXCEPT ![c] = "handled"]
        /\ request' = request /\ copy' = copy /\ since' = since
        /\ request[c].method = "PUT"
    BY <1>4 DEF HandleWrite
  <2>3. response'[c] = [r  |-> Plain(IF Current = 0 THEN 201 ELSE 200),
                        v  |-> Show(Current + 1, now),
                        of |-> Current + 1]
    BY <1>4 DEF HandleWrite, Inv
  <2>4. FromHandler(request[c].method, since[c], response'[c])
    <3>1. TagOf(Current + 1) \in Tag
      BY <1>0 DEF TagOf, Tag
    <3>2. Show(Current + 1, now) \in Validators
      BY <2>1, <3>1 DEF Show, Validators, Dates
    <3>3. Plain(IF Current = 0 THEN 201 ELSE 200) \in {Plain(200), Plain(201)}
      OBVIOUS
    <3> QED
      BY <1>0, <2>2, <2>3, <3>2, <3>3 DEF FromHandler, Given
  <2>5. ClientInv(c)'
    <3>1. response'[c].of = Current + 1
      BY <2>3
    <3>2. ClientInv(c)
      BY DEF Inv
    <3>3. /\ copy'[c] \in 0 .. Current' /\ since'[c] \in 0 .. Current'
          /\ response'[c].of \in 0 .. Current'
      BY <1>0, <2>1, <2>2, <3>1, <3>2 DEF ClientInv
    <3>4. phase'[c] = "handled"
      BY <2>2 DEF Inv
    <3> QED
      BY <2>2, <2>4, <3>2, <3>3, <3>4 DEF ClientInv
  <2>6. /\ DOMAIN response' = Clients
        /\ \A d \in Clients \ {c} : response'[d] = response[d]
    BY <1>4 DEF HandleWrite, Inv
  <2>7. Current' >= Current /\ now' \in Nat
    BY <1>0, <2>1
  <2> QED
    BY <2>1, <2>2, <2>5, <2>6, <2>7, OneClient DEF Inv
<1>5. ASSUME NEW c \in Clients, Precondition(c)
      PROVE  Inv'
  <2> DEFINE x      == response[c]
             method == request[c].method
             q      == request[c].q
  <2>1. /\ dates' = dates /\ now' = now /\ Current' = Current
        /\ phase[c] = "handled" /\ phase' = [phase EXCEPT ![c] = "answered"]
        /\ request' = request /\ copy' = copy /\ since' = since
        /\ response' = [response EXCEPT ![c].r = Evaluate(method, q, x.v, x.r)]
    BY <1>5 DEF Precondition, resource, Current
  <2>2. FromHandler(method, since[c], x)
    BY <2>1 DEF Inv, ClientInv
  <2>3. x.r \in Given /\ x = [r |-> x.r, v |-> x.v, of |-> x.of]
    BY <2>2 DEF FromHandler
  <2>4. /\ response'[c].r = Evaluate(method, q, x.v, x.r)
        /\ response'[c].v = x.v /\ response'[c].of = x.of
    BY <2>1, <2>3 DEF Inv
  <2>5. Conditioned(method, q, since[c], response'[c])
    BY <2>2, <2>3, <2>4 DEF Conditioned
  <2>6. ClientInv(c)'
    BY <1>0, <2>1, <2>5 DEF Inv, ClientInv
  <2>7. /\ DOMAIN response' = Clients
        /\ \A d \in Clients \ {c} : response'[d] = response[d]
    BY <2>1 DEF Inv
  <2>8. dates' \in Seq(Nat) /\ now' \in Nat /\ Current' >= Current
    BY <1>0, <2>1, <2>7 DEF Inv
  <2>9. /\ DOMAIN phase' = Clients /\ DOMAIN request' = Clients /\ DOMAIN response' = Clients
        /\ DOMAIN copy' = Clients /\ DOMAIN since' = Clients
    BY <2>1, <2>7 DEF Inv
  <2>10. \A d \in Clients \ {c} :
            /\ phase'[d] = phase[d] /\ request'[d] = request[d]
            /\ response'[d] = response[d] /\ copy'[d] = copy[d] /\ since'[d] = since[d]
    BY <2>1, <2>7 DEF Inv
  <2> QED
    BY <2>6, <2>8, <2>9, <2>10, OneClient
<1>6. ASSUME NEW c \in Clients, Receive(c)
      PROVE  Inv'
  <2>1. /\ dates' = dates /\ now' = now /\ Current' = Current
        /\ phase[c] = "answered" /\ phase' = [phase EXCEPT ![c] = "idle"]
        /\ since' = [since EXCEPT ![c] = 0]
    BY <1>6 DEF Receive, resource, Current
  <2>2. copy'[c] \in 0 .. Current /\ response'[c].of = 0
    <3>1. copy[c] \in 0 .. Current /\ response[c].of \in 0 .. Current
      BY DEF Inv, ClientInv
    <3>2. copy'[c] = copy[c] \/ copy'[c] = response[c].of
      BY <1>6 DEF Receive, Inv
    <3>3. response'[c] = NoResponse
      BY <1>6 DEF Receive, Inv
    <3> QED
      BY <3>1, <3>2, <3>3 DEF NoResponse
  <2>3. ClientInv(c)'
    BY <1>0, <2>1, <2>2 DEF Inv, ClientInv
  <2>4. dates' \in Seq(Nat) /\ now' \in Nat /\ Current' >= Current
    BY <1>0, <1>6, <2>1 DEF Inv
  <2>5. /\ DOMAIN phase' = Clients /\ DOMAIN request' = Clients /\ DOMAIN response' = Clients
        /\ DOMAIN copy' = Clients /\ DOMAIN since' = Clients
    BY <1>6, <2>1 DEF Inv, Receive
  <2>6. \A d \in Clients \ {c} :
            /\ phase'[d] = phase[d] /\ request'[d] = request[d]
            /\ response'[d] = response[d] /\ copy'[d] = copy[d] /\ since'[d] = since[d]
    BY <1>6, <2>1 DEF Inv, Receive
  <2> QED
    BY <2>3, <2>4, <2>5, <2>6, OneClient
<1>7. CASE UNCHANGED vars
  BY <1>7 DEF vars, resource, Inv, ClientInv, Current
<1> QED
  BY <1>1, <1>2, <1>3, <1>4, <1>5, <1>6, <1>7 DEF Next

LEMMA Invariance == Spec => []Inv
<1> QED
  BY Initially, StepKeepsInv, PTL DEF Spec
-----------------------------------------------------------------------------
\* The properties.

\* The three kinds of answer, by what the handler gave.
LEMMA Answers ==
    ASSUME Inv, NEW c \in Clients, Answered(c)
    PROVE  LET method == request[c].method
               v      == response[c].v
           IN  \E r \in Given :
                  /\ r \in Response
                  /\ response[c].r = Evaluate(method, request[c].q, v, r)
                  /\ method \in {"GET", "HEAD", "PUT"}
                  /\ \/ Safe(method) /\ r = Plain(404) /\ v.etag = NoTag /\ response[c].of = 0
                     \/ /\ Safe(method) /\ r = Page
                        /\ response[c].of # 0 /\ response[c].of >= since[c]
                        /\ v.etag = TagOf(response[c].of)
                     \/ method = "PUT" /\ r \in {Plain(200), Plain(201)}
<1> DEFINE method == request[c].method
           v      == response[c].v
           of     == response[c].of
<1>1. ClientInv(c) /\ phase[c] = "answered"
  BY DEF Inv, Answered
<1>2. Conditioned(method, request[c].q, since[c], response[c])
  BY <1>1 DEF ClientInv
<1>3. PICK r \in Given : /\ FromHandler(method, since[c], [r |-> r, v |-> v, of |-> of])
                         /\ response[c].r = Evaluate(method, request[c].q, v, r)
  BY <1>2 DEF Conditioned
<1>4. r \in Response /\ method \in {"GET", "HEAD", "PUT"}
  BY <1>1, GivenAreResponses DEF ClientInv
<1>5. \/ Safe(method) /\ r = Plain(404) /\ v.etag = NoTag /\ of = 0
      \/ Safe(method) /\ r = Page /\ of # 0 /\ of >= since[c] /\ v.etag = TagOf(of)
      \/ method = "PUT" /\ r \in {Plain(200), Plain(201)}
  <2>1. CASE Safe(method) /\ [r |-> r, v |-> v, of |-> of] = NoResponse
    <3>1. r = Plain(404) /\ v = [etag |-> NoTag, date |-> NoDate] /\ of = 0
      <4> HIDE DEF v, of
      <4> QED
        BY <2>1 DEF NoResponse
    <3> QED
      BY <2>1, <3>1
  <2>2. CASE ~(Safe(method) /\ [r |-> r, v |-> v, of |-> of] = NoResponse)
    <3> HIDE DEF v, of
    <3> QED
      BY <1>3, <2>2 DEF FromHandler
  <2> QED
    BY <2>1, <2>2
<1> QED
  BY <1>3, <1>4, <1>5

\* Whose tags a list by tags has.
LEMMA OwnTags ==
    ASSUME NEW list, NEW n, Mine(list, n), ByTag(list)
    PROVE  n # 0 /\ \E weak \in BOOLEAN :
                        list = [any |-> FALSE, tags |-> {[weak |-> weak, opaque |-> n]}]
  BY DEF Mine, ByTag

LEMMA WeakMatch ==
    ASSUME NEW list, NEW n, NEW tag, Mine(list, n), ByTag(list)
    PROVE  EtagListMatches(list, tag, "weak") <=> tag # NoTag /\ n = tag.opaque
<1>1. PICK weak \in BOOLEAN :
        list = [any |-> FALSE, tags |-> {[weak |-> weak, opaque |-> n]}]
  BY OwnTags
<1>2. list.any = FALSE /\ list.tags = {[weak |-> weak, opaque |-> n]}
  BY <1>1
<1>3. (\E t \in list.tags : WeakEqual(t, tag)) <=> n = tag.opaque
  BY <1>2 DEF WeakEqual
<1> QED
  BY <1>2, <1>3 DEF EtagListMatches

LEMMA StrongMatch ==
    ASSUME NEW list, NEW n, NEW tag, Mine(list, n), ByTag(list),
           EtagListMatches(list, tag, "strong")
    PROVE  tag.opaque = n
<1>1. PICK weak \in BOOLEAN :
        list = [any |-> FALSE, tags |-> {[weak |-> weak, opaque |-> n]}]
  BY OwnTags
<1>2. list.any = FALSE /\ list.tags = {[weak |-> weak, opaque |-> n]}
  BY <1>1
<1>3. tag \in list.tags
  BY <1>2 DEF EtagListMatches
<1> QED
  BY <1>2, <1>3

\* The order of the fields: If-Match decides first, and beside If-None-Match the date of
\* If-Modified-Since does not count.
LEMMA MatchFirst ==
    ASSUME NEW method, NEW q, NEW v, Decide(method, q, v) # 412, q.ifMatch # NoList
    PROVE  EtagListMatches(q.ifMatch, v.etag, "strong")
<1>1. SUFFICES ASSUME ~EtagListMatches(q.ifMatch, v.etag, "strong")
               PROVE  Decide(method, q, v) = 412
  OBVIOUS
<1> QED
  BY <1>1 DEF Decide

LEMMA NoFurther ==
    ASSUME NEW method, NEW q, NEW v, q.ifNone # NoList
    PROVE  /\ EtagListMatches(q.ifNone, v.etag, "weak") => Decide(method, q, v) # Stands
           /\ Decide(method, q, v) = 304 =>
                  Safe(method) /\ EtagListMatches(q.ifNone, v.etag, "weak")
<1>1. CASE EtagListMatches(q.ifNone, v.etag, "weak")
  BY <1>1 DEF Decide, Stands
<1>2. CASE ~EtagListMatches(q.ifNone, v.etag, "weak")
  BY <1>2 DEF Decide, Stands
<1> QED
  BY <1>1, <1>2

LEMMA Statuses ==
    /\ Plain(404).status = 404 /\ Plain(200).status = 200 /\ Plain(201).status = 201
    /\ Page.status = 200
  BY PageIsResponse DEF Plain

\* NotModifiedIsTrue of Validation: a 304 given on the strength of an entity tag
\* confirms a copy that was the current version when it was asked about, or later.
THEOREM NotModifiedHolds == Spec => []NotModifiedIsTrue
<1>1. ASSUME Inv, NEW c \in Clients,
             Answered(c), Status(c) = 304, ByTag(Asked(c).ifNone)
      PROVE  copy[c] >= since[c]
  <2> DEFINE method == request[c].method
             q      == request[c].q
             v      == response[c].v
  <2>1. PICK r \in Given :
          /\ r \in Response /\ response[c].r = Evaluate(method, q, v, r)
          /\ \/ Safe(method) /\ r = Plain(404) /\ v.etag = NoTag /\ response[c].of = 0
             \/ /\ Safe(method) /\ r = Page
                /\ response[c].of # 0 /\ response[c].of >= since[c]
                /\ v.etag = TagOf(response[c].of)
             \/ method = "PUT" /\ r \in {Plain(200), Plain(201)}
    BY <1>1, Answers
  <2>0. ByTag(q.ifNone) /\ q.ifNone # NoList
    BY <1>1 DEF Asked, ByTag
  <2>2. r.status # 304
    BY <2>1, Statuses
  <2>3. Decide(method, q, v) = 304
    BY <1>1, <2>1, <2>2, Outcomes, ReplacedIsTyped DEF Status
  <2>4. Safe(method) /\ EtagListMatches(q.ifNone, v.etag, "weak")
    BY <2>0, <2>3, NoFurther
  <2>5. Mine(q.ifNone, copy[c])
    BY <1>1 DEF Inv, ClientInv, Answered
  <2>6. v.etag # NoTag /\ copy[c] = v.etag.opaque
    BY <2>0, <2>4, <2>5, WeakMatch, Zenon
  <2>7. method # "PUT"
    BY <2>4 DEF Safe
  <2> HIDE DEF v, method
  <2>8. v.etag = TagOf(response[c].of) /\ response[c].of >= since[c]
    BY <2>1, <2>6, <2>7
  <2> QED
    BY <2>6, <2>8 DEF TagOf
<1>2. Inv => NotModifiedIsTrue
  BY <1>1 DEF NotModifiedIsTrue
<1> QED
  BY <1>2, Invariance, PTL

\* ValidCopyNotResent of Validation: weak comparison recognises the client's copy.
THEOREM ValidCopyStays == Spec => []ValidCopyNotResent
<1>1. ASSUME Inv, NEW c \in Clients, Answered(c), Safe(request[c].method),
             ByTag(Asked(c).ifNone), response[c].of = copy[c], Status(c) = 200
      PROVE  FALSE
  <2> DEFINE method == request[c].method
             q      == request[c].q
             v      == response[c].v
  <2>1. PICK r \in Given :
          /\ r \in Response /\ response[c].r = Evaluate(method, q, v, r)
          /\ \/ r = Plain(404) /\ v.etag = NoTag /\ response[c].of = 0
             \/ r = Page /\ response[c].of # 0 /\ v.etag = TagOf(response[c].of)
    BY <1>1, Answers DEF Safe
  <2>2. Mine(q.ifNone, copy[c])
    BY <1>1 DEF Inv, ClientInv, Answered
  <2>0. ByTag(q.ifNone) /\ q.ifNone # NoList
    BY <1>1 DEF Asked, ByTag
  <2>3. copy[c] # 0
    BY <2>0, <2>2, OwnTags
  <2>4. r = Page /\ v.etag = TagOf(copy[c])
    BY <1>1, <2>1, <2>3
  <2>5. v.etag.opaque = copy[c] /\ NoTag.opaque = 0
    BY <2>4 DEF TagOf, NoTag
  <2>6. EtagListMatches(q.ifNone, v.etag, "weak")
    <3>1. v.etag # NoTag
      BY <2>3, <2>5
    <3> QED
      BY <2>0, <2>2, <2>5, <3>1, WeakMatch, Zenon
  <2>7. Decide(method, q, v) # Stands
    BY <2>0, <2>6, NoFurther
  <2>8. r.status = 200
    BY <2>4, Statuses
  <2> QED
    BY <1>1, <2>1, <2>7, <2>8, Outcomes, ReplacedIsTyped DEF Status
<1>2. Inv => ValidCopyNotResent
  BY <1>1 DEF ValidCopyNotResent
<1> QED
  BY <1>2, Invariance, PTL

\* GuardedRead of Validation: whatever other conditions a read carries, If-Match lets it
\* succeed on the version of its tag only.
THEOREM ReadsAreGuarded == Spec => []GuardedRead
<1>1. ASSUME Inv, NEW c \in Clients, Answered(c), Safe(request[c].method),
             ByTag(Asked(c).ifMatch), Status(c) \in {200, 304}
      PROVE  response[c].of = copy[c]
  <2> DEFINE method == request[c].method
             q      == request[c].q
             v      == response[c].v
  <2>1. PICK r \in Given :
          /\ r \in Response /\ response[c].r = Evaluate(method, q, v, r)
          /\ \/ r = Plain(404)
             \/ r = Page /\ v.etag = TagOf(response[c].of)
    BY <1>1, Answers DEF Safe
  <2>0. ByTag(q.ifMatch) /\ q.ifMatch # NoList
    BY <1>1 DEF Asked, ByTag
  <2>2. Decide(method, q, v) # 412 /\ r # Plain(404)
    <3>1. r = Plain(404) => response[c].r = r
      BY <2>1, Statuses DEF Evaluate
    <3>2. r # Plain(404)
      BY <1>1, <3>1, Statuses DEF Status
    <3>3. r.status = 200
      BY <2>1, <3>2, Statuses
    <3>4. Decide(method, q, v) = 412 => response[c].r = Replace(r, 412)
      BY <2>1, <3>3 DEF Evaluate, Stands
    <3> QED
      BY <1>1, <2>1, <3>2, <3>4, ReplacedIsTyped DEF Status
  <2>3. EtagListMatches(q.ifMatch, v.etag, "strong")
    BY <2>0, <2>2, MatchFirst
  <2>4. Mine(q.ifMatch, copy[c])
    BY <1>1 DEF Inv, ClientInv, Answered
  <2>5. v.etag.opaque = copy[c]
    BY <2>0, <2>3, <2>4, StrongMatch, Zenon
  <2>6. v.etag = TagOf(response[c].of)
    BY <2>1, <2>2
  <2> HIDE DEF v
  <2> QED
    BY <2>5, <2>6 DEF TagOf
<1>2. Inv => GuardedRead
  BY <1>1 DEF GuardedRead
<1> QED
  BY <1>2, Invariance, PTL

\* A response without a body, and each that a handler gives, can be framed.
LEMMA BareIsFramed ==
    ASSUME NEW x \in Response, NEW method,
           x.coding = "absent", x.body = EmptyBody, x.length = NoLength
    PROVE  ~Conflicting(x) /\ FramingAgrees(x, method)
<1>1. ~Conflicting(x) /\ Sound(x, method)
  BY DEF Conflicting, Sound, EmptyBody
<1> QED
  BY <1>1, FramingIsRight, Zenon

LEMMA GivenIsFramed ==
    ASSUME NEW x \in Given, NEW method
    PROVE  ~Conflicting(x) /\ FramingAgrees(x, method)
<1>0. x \in Response
  BY GivenAreResponses
<1>1. CASE x = Page
  <2>1. ~Conflicting(x) /\ Sound(x, method)
    BY <1>1 DEF Page, Conflicting, Sound, FullLength
  <2> QED
    BY <1>0, <2>1, FramingIsRight, Zenon
<1>2. CASE x # Page
  <2>1. PICK status \in {404, 200, 201} : x = Plain(status)
    BY <1>2 DEF Given
  <2>2. x.coding = "absent" /\ x.body = EmptyBody /\ x.length = NoLength
    BY <2>1 DEF Plain
  <2> QED
    BY <1>0, <2>2, BareIsFramed
<1> QED
  BY <1>1, <1>2

\* AnswerIsFramed of Validation: what is left of a replaced response is framed rightly.
THEOREM AnswersAreFramed == Spec => []AnswerIsFramed
<1>1. ASSUME Inv, NEW c \in Clients, Answered(c)
      PROVE  ~Conflicting(response[c].r) /\ FramingAgrees(response[c].r, request[c].method)
  <2> DEFINE method == request[c].method
             q      == request[c].q
             v      == response[c].v
  <2>1. PICK r \in Given : /\ r \in Response
                           /\ response[c].r = Evaluate(method, q, v, r)
    BY <1>1, Answers
  <2>2. CASE response[c].r = r
    BY <2>1, <2>2, GivenIsFramed
  <2>3. CASE response[c].r # r
    <3>1. PICK status \in {304, 412} : response[c].r = Replace(r, status)
      BY <2>1, <2>3, Outcomes
    <3>2. /\ response[c].r \in Response /\ response[c].r.coding = "absent"
          /\ response[c].r.body = EmptyBody /\ response[c].r.length = NoLength
      BY <2>1, <3>1, ReplacedIsTyped
    <3> QED
      BY <3>2, BareIsFramed
  <2> QED
    BY <2>2, <2>3
<1>2. Inv => AnswerIsFramed
  BY <1>1 DEF AnswerIsFramed
<1> QED
  BY <1>2, Invariance, PTL
=============================================================================
