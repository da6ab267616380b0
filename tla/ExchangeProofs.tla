--------------------------- MODULE ExchangeProofs ---------------------------
(***************************************************************************)
(* Exchange, proved for all applications whose handlers are sound, and any *)
(* number of requests from a client that speaks HTTP/1.1: request and      *)
(* response stay in step.                                                  *)
(***************************************************************************)
EXTENDS Exchange, MessageProofs, SequenceTheorems

\* What is asked of an application: its handlers are sound for the methods they are
\* registered for, an empty body has no pieces, and only a stream can fail.  And of
\* clients: they speak HTTP/1.1, and spell HEAD as the writer does.
Proper(r, method) == /\ Sound(r, method)
                     /\ r.body.kind = "empty" => r.body.pieces = <<>>
                     /\ r.body.fails => r.body.kind = "stream"

SoundUse ==
    /\ \A program \in Programs : \A i \in DOMAIN program :
          Proper(program[i].handler, program[i].method)
    /\ Versions \subseteq {"1.1"}
    /\ \A m \in Methods : SpellsHead(m) => m = "HEAD"

\* And for AllowIsExact: handlers leave the refusals to the router.
NoRefusals ==
    \A program \in Programs : \A i \in DOMAIN program :
        program[i].handler.status \notin {405, 501}

-----------------------------------------------------------------------------
\* The bytes of a body, piece by piece.

\* Upto is what its recursion says.
LEMMA UptoIs ==
    ASSUME NEW p \in Seq(Nat)
    PROVE  /\ Upto(p) \in [0 .. Len(p) -> Nat] /\ Upto(p)[0] = 0
           /\ \A i \in 1 .. Len(p) : Upto(p)[i] = Upto(p)[i - 1] + p[i]
<1> DEFINE F(f) == [i \in 0 .. Len(p) |-> IF i = 0 THEN 0 ELSE f[i - 1] + p[i]]
           Sum(f, n) == /\ f \in [0 .. n -> Nat] /\ f[0] = 0
                        /\ \A i \in 1 .. n : f[i] = f[i - 1] + p[i]
           S == { n \in Nat : n <= Len(p) => \E f : Sum(f, n) }
<1>1. Len(p) \in Nat /\ \A i \in 1 .. Len(p) : p[i] \in Nat
  OBVIOUS
<1> HIDE DEF Sum
<1>2. 0 \in S
  <2>1. Sum([i \in 0 .. 0 |-> 0], 0)
    BY DEF Sum
  <2> QED
    BY <2>1
<1>3. ASSUME NEW n \in Nat, n \in S PROVE n + 1 \in S
  <2> SUFFICES ASSUME n + 1 <= Len(p) PROVE \E f : Sum(f, n + 1)
    OBVIOUS
  <2>1. n <= Len(p) /\ p[n + 1] \in Nat
    BY <1>1
  <2>2. PICK f : Sum(f, n)
    BY <1>3, <2>1
  <2>3. PICK g : g = [i \in 0 .. (n + 1) |-> IF i = n + 1 THEN f[n] + p[n + 1] ELSE f[i]]
    OBVIOUS
  <2>4. f[n] \in Nat /\ \A i \in 0 .. n : f[i] \in Nat
    BY <2>2 DEF Sum
  <2>5. g \in [0 .. (n + 1) -> Nat] /\ g[0] = 0
    BY <2>1, <2>2, <2>3, <2>4 DEF Sum
  <2>6. ASSUME NEW i \in 1 .. (n + 1) PROVE g[i] = g[i - 1] + p[i]
    <3>1. CASE i = n + 1
      BY <2>3, <3>1
    <3>2. CASE i \in 1 .. n
      <4>1. g[i] = f[i] /\ g[i - 1] = f[i - 1]
        BY <2>3, <3>2
      <4> QED
        BY <2>2, <3>2, <4>1 DEF Sum
    <3> QED
      BY <3>1, <3>2
  <2>7. Sum(g, n + 1)
    BY <2>5, <2>6 DEF Sum
  <2> QED
    BY <2>7
<1>4. \E f : Sum(f, Len(p))
  <2>1. Nat \subseteq S
    <3> HIDE DEF S
    <3> QED
      BY <1>2, <1>3, Induction
  <2> QED
    BY <1>1, <2>1
<1>5. PICK f : Sum(f, Len(p))
  BY <1>4
<1>6. f = F(f)
  BY <1>1, <1>5 DEF Sum
<1>7. Upto(p) = F(Upto(p))
  <2> DEFINE u == CHOOSE g : g = F(g)
  <2>1. Upto(p) = u
    BY DEF Upto
  <2>2. u = F(u)
    <3> HIDE DEF F
    <3> QED
      BY <1>6
  <2> QED
    BY <2>1, <2>2
<1> DEFINE v == Upto(p)
<1>8. \A i \in 0 .. Len(p) : v[i] = IF i = 0 THEN 0 ELSE v[i - 1] + p[i]
  BY <1>7
<1>9. DOMAIN v = 0 .. Len(p) /\ v = [i \in 0 .. Len(p) |-> v[i]]
  BY <1>7
<1> HIDE DEF v
<1>10. \A n \in Nat : n <= Len(p) => v[n] \in Nat
  <2> DEFINE T == { n \in Nat : n <= Len(p) => v[n] \in Nat }
  <2>1. 0 \in T
    BY <1>1, <1>8
  <2>2. ASSUME NEW n \in Nat, n \in T PROVE n + 1 \in T
    <3> SUFFICES ASSUME n + 1 <= Len(p) PROVE v[n + 1] \in Nat
      OBVIOUS
    <3>1. n + 1 \in 0 .. Len(p) /\ n + 1 # 0 /\ (n + 1) - 1 = n /\ n <= Len(p)
      BY <1>1
    <3>2. v[n + 1] = v[n] + p[n + 1]
      BY <1>8, <3>1
    <3> QED
      BY <1>1, <2>2, <3>1, <3>2
  <2>3. Nat \subseteq T
    <3> HIDE DEF T
    <3> QED
      BY <2>1, <2>2, Induction
  <2> QED
    BY <2>3
<1>11. v \in [0 .. Len(p) -> Nat]
  BY <1>1, <1>9, <1>10
<1> QED
  BY <1>1, <1>8, <1>11 DEF v

LEMMA SizeOfFew ==
    ASSUME NEW p \in Seq(Nat), Len(p) \in {0, 1}
    PROVE  Upto(p)[Len(p)] = IF p = <<>> THEN 0 ELSE p[1]
<1>1. Len(p) = 0 \/ Len(p) = 1
  OBVIOUS
<1>2. /\ Upto(p) \in [0 .. Len(p) -> Nat] /\ Upto(p)[0] = 0
      /\ \A i \in 1 .. Len(p) : Upto(p)[i] = Upto(p)[i - 1] + p[i]
  BY UptoIs
<1>3. CASE Len(p) = 0
  BY <1>2, <1>3
<1>4. CASE Len(p) = 1
  <2>1. 1 \in 1 .. Len(p) /\ p # <<>> /\ p[1] \in Nat
    BY <1>4
  <2>2. Upto(p)[1] = 0 + p[1]
    BY <1>2, <2>1
  <2> QED
    BY <1>4, <2>1, <2>2
<1> QED
  BY <1>1, <1>3, <1>4

\* s is the end of t.
IsRest(s, t) == /\ Len(s) <= Len(t)
                /\ \A i \in 1 .. Len(s) : s[i] = t[Len(t) - Len(s) + i]

\* From the first piece to the last.
LEMMA AtFirst ==
    ASSUME NEW p \in Seq(Nat)
    PROVE  IsRest(p, p) /\ Upto(p)[Len(p) - Len(p)] = 0
<1>1. PICK n \in Nat : n = Len(p)
  OBVIOUS
<1>2. n - n = 0 /\ \A i \in 1 .. n : n - n + i = i
  OBVIOUS
<1>3. Upto(p)[0] = 0
  BY UptoIs
<1> QED
  BY <1>1, <1>2, <1>3 DEF IsRest

\* One piece less to come, and its bytes more that are written.
LEMMA OnePieceOn ==
    ASSUME NEW p \in Seq(Nat), NEW s \in Seq(Nat), s # <<>>, IsRest(s, p)
    PROVE  /\ IsRest(Tail(s), p)
           /\ Upto(p)[Len(p) - Len(s)] \in Nat
           /\ Upto(p)[Len(p) - Len(Tail(s))] = Upto(p)[Len(p) - Len(s)] + Head(s)
<1>1. PICK k \in Nat : Len(s) = k + 1
  <2>1. Len(s) \in Nat /\ Len(s) # 0
    OBVIOUS
  <2>2. Len(s) - 1 \in Nat /\ (Len(s) - 1) + 1 = Len(s)
    BY <2>1
  <2> QED
    BY <2>2
<1>2. PICK m \in Nat : Len(p) = m + (k + 1)
  <2>1. Len(p) \in Nat /\ k + 1 <= Len(p)
    BY <1>1 DEF IsRest
  <2>2. Len(p) - (k + 1) \in Nat /\ (Len(p) - (k + 1)) + (k + 1) = Len(p)
    BY <2>1
  <2> QED
    BY <2>2
<1>3. PICK t : t = Tail(s)
  OBVIOUS
<1>4. Len(t) = k /\ Head(s) = s[1] /\ \A i \in 1 .. k : t[i] = s[i + 1]
  BY <1>1, <1>3
<1>5. /\ Len(p) - Len(s) = m /\ Len(p) - Len(t) = m + 1 /\ m + 1 \in 1 .. Len(p)
      /\ m \in 0 .. Len(p) /\ Len(t) <= Len(p)
  BY <1>1, <1>2, <1>4
<1>6. \A i \in 1 .. (k + 1) : s[i] = p[m + i]
  BY <1>1, <1>5 DEF IsRest
<1>7. \A i \in 1 .. k : t[i] = p[(m + 1) + i]
  <2> SUFFICES ASSUME NEW i \in 1 .. k PROVE t[i] = p[(m + 1) + i]
    OBVIOUS
  <2>1. i + 1 \in 1 .. (k + 1) /\ m + (i + 1) = (m + 1) + i
    OBVIOUS
  <2> QED
    BY <1>4, <1>6, <2>1
<1>8. IsRest(t, p)
  BY <1>4, <1>5, <1>7 DEF IsRest
<1>9. p[m + 1] = s[1]
  <2>1. 1 \in 1 .. (k + 1)
    OBVIOUS
  <2> QED
    BY <1>6, <2>1
<1>10. PICK u : u = Upto(p)
  OBVIOUS
<1>11. u \in [0 .. Len(p) -> Nat] /\ \A i \in 1 .. Len(p) : u[i] = u[i - 1] + p[i]
  BY <1>10, UptoIs
<1>12. u[m + 1] = u[m] + p[m + 1] /\ u[m] \in Nat
  <2>1. (m + 1) - 1 = m
    OBVIOUS
  <2> QED
    BY <1>5, <1>11, <2>1
<1> QED
  BY <1>3, <1>4, <1>5, <1>8, <1>9, <1>10, <1>12

-----------------------------------------------------------------------------
\* The table of routes and the calls that built it.

Offered(c) == \E program \in Programs : \E i \in DOMAIN program : c = program[i]

Latest(k, p, m) == k \in Named(p, m) /\ \A i \in Named(p, m) : i <= k

RouteInv ==
    /\ \A i \in DOMAIN calls : Offered(calls[i])
    /\ \A p \in Paths : p \in DOMAIN table <=> \E i \in DOMAIN calls : calls[i].path = p
    /\ \A p \in DOMAIN table :
          /\ \A m \in DOMAIN table[p] : m \in Methods
          /\ \A m \in Methods : m \in DOMAIN table[p] <=> Named(p, m) # {}
          /\ \A m \in DOMAIN table[p] :
                \E k : Latest(k, p, m) /\ table[p][m] = calls[k].handler

LEMMA Calls ==
    ASSUME TypeOK, RouteInv, NEW i \in DOMAIN calls
    PROVE  calls[i] \in Routes /\ Offered(calls[i])
BY DEF TypeOK, RouteInv

LEMMA LatestIsLast ==
    ASSUME TypeOK, NEW p, NEW m, NEW k, Latest(k, p, m)
    PROVE  calls[k].handler = LastNamed(p, m)
<1> DEFINE j == CHOOSE i \in Named(p, m) : \A n \in Named(p, m) : n <= i
<1>1. Named(p, m) \subseteq Nat
  BY DEF Named, TypeOK
<1>2. j \in Named(p, m) /\ \A n \in Named(p, m) : n <= j
  BY DEF Latest
<1>3. j = k
  <2> HIDE DEF j
  <2> QED
    BY <1>1, <1>2 DEF Latest
<1> QED
  BY <1>3 DEF LastNamed

\* A handler that the table has is the one that was named last, and the table has one
\* for whatever was named.
LEMMA Handlers ==
    ASSUME TypeOK, RouteInv, NEW p \in Paths, NEW m
    PROVE  /\ Exact(Entry(table, p), m) <=> Named(p, m) # {}
           /\ Exact(Entry(table, p), m) =>
                 /\ Entry(table, p)[m] \in Response
                 /\ Entry(table, p)[m] = LastNamed(p, m)
                 /\ \E i \in Named(p, m) : Entry(table, p)[m] = calls[i].handler
           /\ \A n \in DOMAIN Entry(table, p) : n \in Methods
<1>1. Named(p, m) # {} => p \in DOMAIN table /\ m \in Methods
  <2> SUFFICES ASSUME NEW i \in Named(p, m) PROVE p \in DOMAIN table /\ m \in Methods
    OBVIOUS
  <2>1. i \in DOMAIN calls /\ calls[i].path = p /\ calls[i].method = m
    BY DEF Named
  <2> QED
    BY <2>1, Calls DEF RouteInv, Routes
<1>2. CASE p \in DOMAIN table
  <2>1. Entry(table, p) = table[p] /\ table[p] \in [DOMAIN table[p] -> Response]
    BY <1>2 DEF Entry, TypeOK
  <2>2. m \in DOMAIN table[p] <=> Named(p, m) # {}
    BY <1>1, <1>2 DEF RouteInv
  <2>3. ASSUME m \in DOMAIN table[p]
        PROVE  /\ table[p][m] \in Response /\ table[p][m] = LastNamed(p, m)
               /\ \E i \in Named(p, m) : table[p][m] = calls[i].handler
    <3>1. PICK k : Latest(k, p, m) /\ table[p][m] = calls[k].handler
      BY <1>2, <2>3 DEF RouteInv
    <3>2. table[p][m] \in Response
      BY <2>1, <2>3
    <3> QED
      BY <3>1, <3>2, LatestIsLast DEF Latest
  <2> QED
    BY <1>2, <2>1, <2>2, <2>3 DEF Exact, RouteInv
<1>3. CASE p \notin DOMAIN table
  BY <1>1, <1>3 DEF Entry, NoEntry, Exact
<1> QED
  BY <1>2, <1>3

\* What the table has for a method is proper for it.
LEMMA HandlerIsProper ==
    ASSUME SoundUse, TypeOK, RouteInv, NEW p \in Paths, NEW m, Exact(Entry(table, p), m)
    PROVE  Entry(table, p)[m] \in Response /\ Proper(Entry(table, p)[m], m)
<1>1. PICK i \in Named(p, m) : Entry(table, p)[m] = calls[i].handler
  BY Handlers
<1>2. i \in DOMAIN calls /\ calls[i].method = m
  BY DEF Named
<1>3. Proper(calls[i].handler, m)
  BY <1>2, Calls DEF Offered, SoundUse
<1> QED
  BY <1>1, <1>3, Handlers

LEMMA PlainIsProper ==
    ASSUME NEW status \in 100 .. 599, NEW m
    PROVE  Plain(status) \in Response /\ Proper(Plain(status), m)
BY DEF Plain, Response, Body, EmptyBody, Codings, NoLength, Proper, Sound

\* The length of a full body.
LEMMA FullIsCounted ==
    ASSUME NEW r \in Response, NEW m, Proper(r, m), r.body.kind = "full"
    PROVE  FullLength(r) \in Nat /\ Len(r.body.pieces) = 1
<1>1. r.body.pieces \in Seq(Nat) /\ Len(r.body.pieces) = 1
  BY DEF Response, Body, Proper, Sound
<1> QED
  BY <1>1 DEF FullLength

LEMMA StrippedParts ==
    ASSUME NEW r \in Response
    PROVE  StripBodyForHead(r) =
             [status |-> r.status,
              length |-> IF r.body.kind = "full" /\ r.length = NoLength
                         THEN FullLength(r) ELSE r.length,
              coding |-> r.coding, close |-> r.close, allow |-> r.allow, body |-> EmptyBody]
<1>1. PICK n : n = IF r.body.kind = "full" /\ r.length = NoLength
                   THEN FullLength(r) ELSE r.length
  OBVIOUS
<1>2. PICK q : q = [status |-> r.status, length |-> n, coding |-> r.coding,
                    close |-> r.close, allow |-> r.allow, body |-> r.body]
  OBVIOUS
<1>3. [r EXCEPT !.length = n] = q
  BY <1>2 DEF Response
<1>4. [q EXCEPT !.body = EmptyBody] =
        [status |-> r.status, length |-> n, coding |-> r.coding, close |-> r.close,
         allow |-> r.allow, body |-> EmptyBody]
  BY <1>2
<1>5. StripBodyForHead(r) = [q EXCEPT !.body = EmptyBody]
  BY <1>1, <1>3 DEF StripBodyForHead
<1> QED
  BY <1>1, <1>4, <1>5

\* What GET would have given, without its body, is proper for HEAD.
LEMMA StrippedIsProper ==
    ASSUME NEW r \in Response, Proper(r, "GET")
    PROVE  StripBodyForHead(r) \in Response /\ Proper(StripBodyForHead(r), "HEAD")
<1> DEFINE s == StripBodyForHead(r)
           n == IF r.body.kind = "full" /\ r.length = NoLength THEN FullLength(r) ELSE r.length
<1>1. s = [status |-> r.status, length |-> n, coding |-> r.coding, close |-> r.close,
           allow |-> r.allow, body |-> EmptyBody]
  BY StrippedParts
<1>2. n \in Nat \cup {NoLength}
  BY FullIsCounted DEF Response
<1>3. EmptyBody \in Body
  BY DEF EmptyBody, Body
<1> HIDE DEF s, n
<1>4. s \in Response
  BY <1>1, <1>2, <1>3 DEF Response
<1>5. Proper(s, "HEAD")
  BY <1>1 DEF Proper, Sound, EmptyBody
<1> QED
  BY <1>4, <1>5 DEF s

\* Whatever the router answers is proper for the request.
LEMMA AnswerIsProper ==
    ASSUME SoundUse, TypeOK, RouteInv, NEW p \in Paths, NEW m \in Methods
    PROVE  LET r == Answer(table, autoHead, p, m) IN r \in Response /\ Proper(r, m)
<1> DEFINE entry == Entry(table, p)
           r     == Answer(table, autoHead, p, m)
<1>1. CASE Exact(entry, m)
  BY <1>1, HandlerIsProper DEF Answer
<1>2. CASE ~Exact(entry, m) /\ Fallback(entry, autoHead, m)
  <2>1. r = StripBodyForHead(entry["GET"]) /\ m = "HEAD" /\ Exact(entry, "GET")
    BY <1>2 DEF Answer, Fallback, SoundUse, Exact
  <2>2. entry["GET"] \in Response /\ Proper(entry["GET"], "GET")
    BY <2>1, HandlerIsProper
  <2> QED
    BY <2>1, <2>2, StrippedIsProper
<1>3. CASE ~Exact(entry, m) /\ ~Fallback(entry, autoHead, m)
  <2>1. DOMAIN entry \subseteq STRING
    BY Handlers, MethodsAssumption
  <2>2. Allow(entry, autoHead) \subseteq STRING
    <3> HIDE DEF entry
    <3>1. "HEAD" \in STRING
      BY MethodsAssumption DEF Standard
    <3>2. \A x \in Allow(entry, autoHead) : x \in DOMAIN entry \/ x = "HEAD"
      BY DEF Allow
    <3> QED
      BY <2>1, <3>1, <3>2
  <2>3. LET a == [Plain(405) EXCEPT !.allow = Allow(entry, autoHead)]
        IN  a \in Response /\ Proper(a, m)
    <3>1. PICK x \in SUBSET STRING : x = Allow(entry, autoHead)
      BY <2>2
    <3>2. PICK no \in BOOLEAN : no = FALSE
      OBVIOUS
    <3>3. PICK q : q = [status |-> 405, length |-> NoLength, coding |-> "absent",
                        close |-> no, allow |-> {}, body |-> EmptyBody]
      OBVIOUS
    <3>4. [q EXCEPT !.allow = x] =
            [status |-> 405, length |-> NoLength, coding |-> "absent",
             close |-> no, allow |-> x, body |-> EmptyBody]
      BY <3>3
    <3>5. EmptyBody \in Body
      BY DEF EmptyBody, Body
    <3>6. [q EXCEPT !.allow = x] \in Response
      BY <3>4, <3>5 DEF Response, Codings
    <3>7. Proper([q EXCEPT !.allow = x], m)
      BY <3>4 DEF EmptyBody, NoLength, Proper, Sound
    <3>8. q = Plain(405)
      BY <3>2, <3>3 DEF Plain
    <3> QED
      BY <3>1, <3>6, <3>7, <3>8
  <2>4. \A status \in {404, 501} : Plain(status) \in Response /\ Proper(Plain(status), m)
    BY PlainIsProper
  <2>5. r \in {Plain(404), Plain(501), [Plain(405) EXCEPT !.allow = Allow(entry, autoHead)]}
    BY <1>3 DEF Answer
  <2> QED
    BY <2>3, <2>4, <2>5
<1> QED
  BY <1>1, <1>2, <1>3

-----------------------------------------------------------------------------
\* What the server makes of the j-th request, and what the client makes of that.

AnswerTo(j) == Answer(table, autoHead, asked[j].path, asked[j].method)
Closes(j)   == asked[j].close \/ AnswerTo(j).close \/ asked[j].version # "1.1"
HeadTo(j)   == SentHead(AnswerTo(j), asked[j].method, Closes(j))
BodyTo(j)   == SentBody(AnswerTo(j), asked[j].method)
FrameOf(j)  == Framing(HeadTo(j), asked[j].method, asked[j].version)
SizeOf(j)   == BodyLength(BodyTo(j))
Fails(j)    == BodyTo(j).fails

Nothing == [by |-> "length", n |-> 0]

LEMMA Requests ==
    ASSUME SoundUse, TypeOK, RouteInv, NEW j \in DOMAIN asked
    PROVE  /\ asked[j].path \in Paths /\ asked[j].method \in Methods
           /\ asked[j].version = "1.1"
           /\ AnswerTo(j) \in Response /\ Proper(AnswerTo(j), asked[j].method)
<1>1. asked[j] \in Request
  <2>1. PICK S : S = Request
    OBVIOUS
  <2>2. asked \in Seq(S)
    BY <2>1 DEF TypeOK
  <2>3. asked[j] \in S
    BY <2>2
  <2> QED
    BY <2>1, <2>3
<1>2. asked[j].path \in Paths /\ asked[j].method \in Methods /\ asked[j].version = "1.1"
  BY <1>1 DEF SoundUse, Request
<1> QED
  BY <1>2, AnswerIsProper DEF AnswerTo

\* The client finds the end of a body where write_response has put it.
LEMMA Frames ==
    ASSUME SoundUse, TypeOK, RouteInv, NEW j \in DOMAIN asked
    PROVE  FrameOf(j) = Written(BodyTo(j))
<1>1. AnswerTo(j) \in Response /\ Sound(AnswerTo(j), asked[j].method)
      /\ asked[j].version = "1.1"
  BY Requests DEF Proper
<1>2. FramingAgrees(AnswerTo(j), asked[j].method)
  BY <1>1, FramingIsRight
<1>3. LET h == SentHead(AnswerTo(j), asked[j].method, FALSE)
      IN  h.status = HeadTo(j).status /\ h.coding = HeadTo(j).coding
          /\ h.length = HeadTo(j).length
  BY DEF SentHead, HeadTo
<1> QED
  BY <1>1, <1>2, <1>3 DEF FramingAgrees, FrameOf, BodyTo, Framing

LEMMA Bodies ==
    ASSUME SoundUse, TypeOK, RouteInv, NEW j \in DOMAIN asked
    PROVE  /\ BodyTo(j).pieces \in Seq(Nat)
           /\ \/ /\ BodyTo(j).kind = "empty" /\ BodyTo(j).pieces = <<>>
                 /\ FrameOf(j) = Nothing
              \/ /\ BodyTo(j).kind = "full" /\ Len(BodyTo(j).pieces) = 1
                 /\ FrameOf(j) = [by |-> "length", n |-> BodyTo(j).pieces[1]]
              \/ /\ BodyTo(j).kind = "stream"
                 /\ FrameOf(j) = [by |-> "chunks", n |-> 0]
           /\ Fails(j) \in BOOLEAN /\ (Fails(j) => BodyTo(j).kind = "stream")
<1> DEFINE r == AnswerTo(j)
<1>1. r \in Response /\ Proper(r, asked[j].method)
  BY Requests
<1> HIDE DEF r
<1>2. CASE BodyTo(j) = r.body
  <2>1. /\ r.body.pieces \in Seq(Nat) /\ r.body.kind \in {"empty", "full", "stream"}
        /\ r.body.fails \in BOOLEAN
    BY <1>1 DEF Response, Body
  <2>2. Fails(j) \in BOOLEAN /\ (Fails(j) => BodyTo(j).kind = "stream")
    BY <1>1, <1>2, <2>1 DEF Fails, Proper
  <2> QED
    BY <1>1, <1>2, <2>1, <2>2, Frames DEF Written, Nothing, Proper, Sound
<1>3. CASE BodyTo(j) = EmptyBody
  BY <1>3, Frames DEF Written, Nothing, EmptyBody, Fails
<1> QED
  BY <1>2, <1>3 DEF BodyTo, SentBody, r

\* What is known of the bytes of a body that is not a stream.
LEMMA Sizes ==
    ASSUME SoundUse, TypeOK, RouteInv, NEW j \in DOMAIN asked
    PROVE  /\ SizeOf(j) = Upto(BodyTo(j).pieces)[Len(BodyTo(j).pieces)]
           /\ FrameOf(j).by = "length" => SizeOf(j) = FrameOf(j).n /\ ~Fails(j)
<1> DEFINE b == BodyTo(j).pieces
<1>1. SizeOf(j) = Upto(b)[Len(b)]
  BY DEF SizeOf, BodyLength
<1>2. b \in Seq(Nat)
  BY Bodies
<1> HIDE DEF b
<1>3. ASSUME FrameOf(j).by = "length" PROVE SizeOf(j) = FrameOf(j).n /\ ~Fails(j)
  <2>1. /\ Fails(j) => BodyTo(j).kind = "stream"
        /\ \/ BodyTo(j).kind = "empty" /\ b = <<>> /\ FrameOf(j).n = 0
           \/ BodyTo(j).kind = "full" /\ Len(b) = 1 /\ FrameOf(j).n = b[1]
    BY <1>3, Bodies DEF b, Nothing
  <2>2. Len(b) \in {0, 1}
    <3>1. b = <<>> => Len(b) = 0
      OBVIOUS
    <3> QED
      BY <2>1, <3>1
  <2> QED
    BY <1>1, <1>2, <2>1, <2>2, SizeOfFew
<1> QED
  BY <1>1, <1>3 DEF b

LEMMA HeadIsHead ==
    ASSUME SoundUse, TypeOK, RouteInv, NEW j \in DOMAIN asked
    PROVE  HeadTo(j) \in Heads
<1> DEFINE r == AnswerTo(j)
           m == asked[j].method
<1>1. r \in Response /\ Proper(r, m)
  BY Requests
<1>2. Closes(j) \in BOOLEAN
  BY <1>1 DEF Closes, Response
<1>3. r.status \in 100 .. 599 /\ r.length \in Nat \cup {NoLength} /\ r.coding \in Codings
      /\ r.close \in BOOLEAN /\ r.allow \in SUBSET STRING
  BY <1>1 DEF Response
<1>4. r.body.kind = "full" => FullLength(r) \in Nat
  BY <1>1, FullIsCounted
<1> HIDE DEF r
<1>5. SentLength(r, m) \in Nat \cup {NoLength}
  BY <1>3, <1>4 DEF SentLength
<1>6. SentCoding(r, m) \in Codings
  BY <1>3 DEF SentCoding, EnsureChunked, Codings
<1>7. (Closes(j) \/ r.close) \in BOOLEAN
  OBVIOUS
<1> QED
  BY <1>3, <1>5, <1>6, <1>7 DEF HeadTo, SentHead, Heads, r

\* Where the answer comes from: the handler that is due, without its body where HEAD has
\* no handler of its own, or the router itself.
LEMMA AnswerIsDue ==
    ASSUME SoundUse, TypeOK, RouteInv, NEW j \in DOMAIN asked
    PROVE  LET q     == asked[j]
               entry == Entry(table, q.path)
           IN  \/ Exact(entry, q.method) /\ AnswerTo(j) = entry[q.method]
                  /\ Due(q) = entry[q.method] /\ Named(q.path, q.method) # {}
               \/ HeadFromGet(q) /\ Exact(entry, "GET") /\ ~Exact(entry, "HEAD")
                  /\ Due(q) = entry["GET"] /\ AnswerTo(j) = StripBodyForHead(entry["GET"])
               \/ /\ ~Exact(entry, q.method) /\ ~HeadFromGet(q)
                  /\ AnswerTo(j) = IF q.method \notin Standard THEN Plain(501)
                                   ELSE IF q.path \in DOMAIN table
                                   THEN [Plain(405) EXCEPT !.allow = Allow(entry, autoHead)]
                                   ELSE Plain(404)
                  /\ Due(q) = IF q.method \notin Standard THEN Plain(501)
                              ELSE IF q.path \in DOMAIN table THEN Plain(405)
                              ELSE Plain(404)
<1> DEFINE q     == asked[j]
           entry == Entry(table, q.path)
<1>1. q.path \in Paths /\ q.method \in Methods
  BY Requests
<1>2. \A m : /\ Exact(entry, m) <=> Named(q.path, m) # {}
             /\ Exact(entry, m) => entry[m] = LastNamed(q.path, m)
  BY <1>1, Handlers
<1>3. HeadFromGet(q) <=> Fallback(entry, autoHead, q.method)
  <2>1. SpellsHead(q.method) <=> q.method = "HEAD"
    BY <1>1 DEF SoundUse, SpellsHead
  <2>2. Exact(entry, "GET") <=> "GET" \in DOMAIN entry
    BY DEF Exact
  <2> HIDE DEF q, entry
  <2> QED
    BY <1>2, <2>1, <2>2 DEF HeadFromGet, Fallback
<1>4. CASE Exact(entry, q.method)
  <2> HIDE DEF entry
  <2> QED
    BY <1>2, <1>4 DEF AnswerTo, Answer, Due, entry
<1>5. CASE ~Exact(entry, q.method) /\ HeadFromGet(q)
  <2>1. Exact(entry, "GET") /\ ~Exact(entry, "HEAD") /\ q.method = "HEAD"
    BY <1>2, <1>5 DEF HeadFromGet
  <2>2. Due(q) = entry["GET"]
    <3> HIDE DEF entry
    <3> QED
      BY <1>2, <1>5, <2>1 DEF Due
  <2> QED
    BY <1>3, <1>5, <2>1, <2>2 DEF AnswerTo, Answer
<1>6. CASE ~Exact(entry, q.method) /\ ~HeadFromGet(q)
  <2>1. q.path \in DOMAIN table <=> \E i \in DOMAIN calls : calls[i].path = q.path
    BY <1>1 DEF RouteInv
  <2>2. Due(q) = IF q.method \notin Standard THEN Plain(501)
                 ELSE IF q.path \in DOMAIN table THEN Plain(405) ELSE Plain(404)
    <3> HIDE DEF q, entry
    <3> QED
      BY <1>2, <1>6, <2>1 DEF Due
  <2> QED
    BY <1>3, <1>6, <2>2 DEF AnswerTo, Answer
<1> QED
  BY <1>4, <1>5, <1>6

\* What arrives has the status that is due, and the body.
LEMMA DueIsSent ==
    ASSUME SoundUse, TypeOK, RouteInv, NEW j \in DOMAIN asked
    PROVE  /\ AnswerTo(j).status = Due(asked[j]).status
           /\ BodyTo(j) = SentBody(Due(asked[j]), asked[j].method)
<1> DEFINE q     == asked[j]
           m     == q.method
           entry == Entry(table, q.path)
           a     == AnswerTo(j)
           d     == Due(q)
<1>1. q.path \in Paths /\ q.method \in Methods
  BY Requests
<1>2. BodyTo(j) = SentBody(a, m)
  BY DEF BodyTo
<1>3. CASE a = d
  BY <1>2, <1>3
<1>4. CASE HeadFromGet(q) /\ Exact(entry, "GET") /\ d = entry["GET"] /\ a = StripBodyForHead(d)
  <2>1. d \in Response
    BY <1>1, <1>4, Handlers
  <2>2. a.status = d.status
    BY <1>4, <2>1, StrippedParts
  <2>3. m = "HEAD"
    BY <1>4 DEF HeadFromGet
  <2>4. \A r : SentBody(r, "HEAD") = EmptyBody
    BY DEF SentBody, BodyAllowed
  <2> QED
    BY <1>2, <2>2, <2>3, <2>4
<1>5. CASE d = Plain(405) /\ a = [Plain(405) EXCEPT !.allow = Allow(entry, autoHead)]
  <2>1. PICK x : x = Allow(entry, autoHead)
    OBVIOUS
  <2>2. [Plain(405) EXCEPT !.allow = x].status = Plain(405).status
        /\ [Plain(405) EXCEPT !.allow = x].body = Plain(405).body
    BY DEF Plain
  <2>3. a.status = d.status /\ a.body = d.body
    BY <1>5, <2>1, <2>2
  <2>4. SentBody(a, m) = SentBody(d, m)
    <3> HIDE DEF a, d, m
    <3> QED
      BY <2>3 DEF SentBody
  <2> QED
    BY <1>2, <2>3, <2>4
<1> QED
  BY <1>3, <1>4, <1>5, AnswerIsDue

-----------------------------------------------------------------------------
\* Where the client will be when it has read the bytes underway.

\* Why the end of a connection may come after so many replies.
EndIsDue(done) ==
    \/ done >= 1 /\ done <= served /\ HeadTo(done).close
    \/ done < Len(asked) /\ Conflicting(AnswerTo(done + 1))

\* A place: what the client takes the next byte for, how many replies it has, and how
\* many bytes of the body that comes next.
Place == [by : {"head", "length", "chunks", "ended"}, n : Nat, done : Nat, bytes : Nat]
Amid(by, n, done, bytes) == [by |-> by, n |-> n, done |-> done, bytes |-> bytes]
At(by, n, done)          == Amid(by, n, done, 0)
Onward(s)                == At("head", 0, s.done + 1)

\* Where a length is counted down, the bytes that are there and those to come make
\* the body.
Within(s) ==
    /\ s.done <= served
    /\ s.by \in {"length", "chunks"} => s.done < served
    /\ s.by = "length" => s.bytes + s.n = SizeOf(s.done + 1) /\ ~Fails(s.done + 1)

\* A client at place s can make out item x, and is then at place After(s, x).
Fits(s, x) ==
    \/ x.kind = "head"  /\ s.by = "head" /\ s.done < served /\ x.head = HeadTo(s.done + 1)
    \/ x.kind = "bytes" /\ s.by = "length" /\ x.n \in 1 .. s.n
    \/ x.kind = "chunk" /\ s.by = "chunks"
          /\ (x.n = 0 => s.bytes = SizeOf(s.done + 1) /\ ~Fails(s.done + 1))
    \/ x.kind = "fin"   /\ \/ s.by = "chunks" /\ Fails(s.done + 1)
                           \/ s.by = "head" /\ EndIsDue(s.done)

After(s, x) ==
    IF x.kind = "head" THEN IF FrameOf(s.done + 1) = Nothing THEN Onward(s)
                            ELSE At(FrameOf(s.done + 1).by, FrameOf(s.done + 1).n, s.done)
    ELSE IF x.kind = "bytes" THEN IF x.n = s.n THEN Onward(s)
                                  ELSE Amid(s.by, s.n - x.n, s.done, s.bytes + x.n)
    ELSE IF x.kind = "chunk" THEN IF x.n = 0 THEN Onward(s)
                                  ELSE Amid(s.by, s.n, s.done, s.bytes + x.n)
    ELSE At("ended", 0, IF s.by = "head" THEN s.done ELSE s.done + 1)

\* st leads through the items of l.
Path(st, l) ==
    /\ st \in [0 .. Len(l) -> Place]
    /\ \A i \in 1 .. Len(l) : Fits(st[i - 1], l[i]) /\ st[i] = After(st[i - 1], l[i])
    /\ \A i \in 0 .. Len(l) : Within(st[i])

Now == Amid(reading.by, reading.n, Len(got), part.bytes)

\* The bytes of the body that have been written.
Gone == LET p == BodyTo(served).pieces IN Upto(p)[Len(p) - Len(left)]

\* Where the server takes the client to be then.
Expected(s) ==
    /\ server = "ready" => s = At("head", 0, served)
    /\ server = "respond" => s = At("head", 0, served - 1)
    /\ server = "closed" => s.by = "ended"
    /\ server = "body" =>
          s = IF BodyTo(served).kind = "stream" THEN Amid("chunks", 0, served - 1, Gone)
              ELSE IF left = <<>> \/ left = <<0>> THEN At("head", 0, served)
              ELSE At("length", left[1], served - 1)

Underway == \E st : Path(st, line) /\ st[0] = Now /\ Expected(st[Len(line)])

LEMMA LongerPath ==
    ASSUME NEW l \in Seq(Item), NEW x \in Item, NEW st, Path(st, l),
           Fits(st[Len(l)], x), NEW next \in Place, next = After(st[Len(l)], x), Within(next)
    PROVE  \E st2 : /\ Path(st2, Append(l, x)) /\ st2[0] = st[0]
                    /\ st2[Len(Append(l, x))] = next
<1>1. PICK n \in Nat : n = Len(l)
  OBVIOUS
<1>2. PICK m : m = Append(l, x)
  OBVIOUS
<1>3. Len(m) = n + 1 /\ m[n + 1] = x /\ \A i \in 1 .. n : m[i] = l[i]
  BY <1>1, <1>2
<1>4. PICK st2 : st2 = [i \in 0 .. (n + 1) |-> IF i = n + 1 THEN next ELSE st[i]]
  OBVIOUS
<1>5. /\ st \in [0 .. n -> Place]
      /\ \A i \in 1 .. n : Fits(st[i - 1], l[i]) /\ st[i] = After(st[i - 1], l[i])
      /\ \A i \in 0 .. n : Within(st[i])
  BY <1>1 DEF Path
<1>6. st2[n + 1] = next /\ \A i \in 0 .. n : st2[i] = st[i]
  BY <1>4
<1>7. st2 \in [0 .. (n + 1) -> Place]
  BY <1>4, <1>5
<1>8. ASSUME NEW i \in 1 .. (n + 1)
      PROVE  Fits(st2[i - 1], m[i]) /\ st2[i] = After(st2[i - 1], m[i])
  <2>1. CASE i = n + 1
    <3>1. st2[i - 1] = st[n] /\ m[i] = x /\ st2[i] = next
      BY <1>3, <1>6, <2>1
    <3> QED
      BY <1>1, <3>1
  <2>2. CASE i \in 1 .. n
    <3>1. st2[i - 1] = st[i - 1] /\ m[i] = l[i] /\ st2[i] = st[i]
      BY <1>3, <1>6, <2>2
    <3> QED
      BY <1>5, <2>2, <3>1
  <2> QED
    BY <2>1, <2>2
<1>9. \A i \in 0 .. (n + 1) : Within(st2[i])
  <2> SUFFICES ASSUME NEW i \in 0 .. (n + 1) PROVE Within(st2[i])
    OBVIOUS
  <2>1. i = n + 1 \/ i \in 0 .. n
    OBVIOUS
  <2> QED
    BY <1>5, <1>6, <2>1
<1>10. Path(st2, m)
  BY <1>3, <1>7, <1>8, <1>9 DEF Path
<1> QED
  BY <1>2, <1>3, <1>6, <1>10

LEMMA ShorterPath ==
    ASSUME NEW l \in Seq(Item), l # <<>>, NEW st, Path(st, l)
    PROVE  /\ Fits(st[0], Head(l)) /\ After(st[0], Head(l)) \in Place
           /\ Within(After(st[0], Head(l)))
           /\ \E st2 : /\ Path(st2, Tail(l)) /\ st2[0] = After(st[0], Head(l))
                       /\ st2[Len(Tail(l))] = st[Len(l)]
<1>1. PICK n \in Nat : n + 1 = Len(l)
  <2>1. Len(l) \in Nat /\ Len(l) # 0
    OBVIOUS
  <2>2. Len(l) - 1 \in Nat /\ (Len(l) - 1) + 1 = Len(l)
    BY <2>1
  <2> QED
    BY <2>2
<1>2. PICK m : m = Tail(l)
  OBVIOUS
<1>3. Len(m) = n /\ Head(l) = l[1] /\ \A i \in 1 .. n : m[i] = l[i + 1]
  BY <1>1, <1>2
<1>4. PICK st2 : st2 = [i \in 0 .. n |-> st[i + 1]]
  OBVIOUS
<1>5. /\ st \in [0 .. (n + 1) -> Place]
      /\ \A i \in 1 .. (n + 1) : Fits(st[i - 1], l[i]) /\ st[i] = After(st[i - 1], l[i])
      /\ \A i \in 0 .. (n + 1) : Within(st[i])
  BY <1>1 DEF Path
<1>6. Fits(st[0], Head(l)) /\ st[1] = After(st[0], Head(l)) /\ st[1] \in Place /\ Within(st[1])
  <2>1. 1 \in 1 .. (n + 1) /\ 1 \in 0 .. (n + 1) /\ 1 - 1 = 0
    OBVIOUS
  <2> QED
    BY <1>3, <1>5, <2>1
<1>7. \A i \in 0 .. n : st2[i] = st[i + 1] /\ i + 1 \in 0 .. (n + 1)
  BY <1>4
<1>8. st2 \in [0 .. n -> Place]
  BY <1>4, <1>5, <1>7
<1>9. ASSUME NEW i \in 1 .. n
      PROVE  Fits(st2[i - 1], m[i]) /\ st2[i] = After(st2[i - 1], m[i])
  <2>1. i - 1 \in 0 .. n /\ i \in 0 .. n /\ (i - 1) + 1 = i
    OBVIOUS
  <2>2. st2[i - 1] = st[i] /\ m[i] = l[i + 1] /\ st2[i] = st[i + 1]
    BY <1>3, <1>7, <2>1
  <2>3. i + 1 \in 1 .. (n + 1) /\ (i + 1) - 1 = i
    OBVIOUS
  <2> QED
    BY <1>5, <2>2, <2>3
<1>10. \A i \in 0 .. n : Within(st2[i])
  BY <1>5, <1>7
<1>11. Path(st2, m)
  BY <1>3, <1>8, <1>9, <1>10 DEF Path
<1>12. st2[0] = st[1] /\ st2[n] = st[n + 1]
  BY <1>7
<1> QED
  BY <1>1, <1>2, <1>3, <1>6, <1>11, <1>12

\* More requests, and more of them handled, change nothing about the earlier ones.
Carried ==
    /\ UNCHANGED <<table, autoHead>>
    /\ served \in Nat /\ served' \in Nat /\ served <= served' /\ served <= Len(asked)
    /\ Len(asked) \in Nat /\ Len(asked') \in Nat /\ Len(asked) <= Len(asked')
    /\ \A j \in 1 .. Len(asked) : asked'[j] = asked[j]

LEMMA SameAnswers ==
    ASSUME Carried, NEW j \in 1 .. Len(asked)
    PROVE  /\ AnswerTo(j)' = AnswerTo(j) /\ HeadTo(j)' = HeadTo(j)
           /\ BodyTo(j)' = BodyTo(j) /\ FrameOf(j)' = FrameOf(j)
           /\ SizeOf(j)' = SizeOf(j) /\ Fails(j)' = Fails(j)
<1>1. asked'[j] = asked[j] /\ table' = table /\ autoHead' = autoHead
  BY DEF Carried
<1>2. AnswerTo(j)' = AnswerTo(j)
  BY <1>1 DEF AnswerTo
<1>3. HeadTo(j)' = HeadTo(j) /\ BodyTo(j)' = BodyTo(j)
  BY <1>1, <1>2 DEF HeadTo, Closes, BodyTo
<1>4. FrameOf(j)' = FrameOf(j)
  BY <1>1, <1>3 DEF FrameOf
<1>5. SizeOf(j)' = SizeOf(j) /\ Fails(j)' = Fails(j)
  BY <1>3 DEF SizeOf, Fails
<1> QED
  BY <1>2, <1>3, <1>4, <1>5

LEMMA StillDue ==
    ASSUME Carried, NEW done \in Nat, done <= served, EndIsDue(done)
    PROVE  EndIsDue(done)'
<1>1. CASE done >= 1 /\ done <= served /\ HeadTo(done).close
  <2>1. done \in 1 .. Len(asked) /\ done <= served'
    BY <1>1 DEF Carried
  <2>2. HeadTo(done)' = HeadTo(done)
    BY <2>1, SameAnswers
  <2> QED
    BY <1>1, <2>1, <2>2 DEF EndIsDue
<1>2. CASE done < Len(asked) /\ Conflicting(AnswerTo(done + 1))
  <2>1. done + 1 \in 1 .. Len(asked) /\ done < Len(asked')
    BY <1>2 DEF Carried
  <2>2. AnswerTo(done + 1)' = AnswerTo(done + 1)
    BY <2>1, SameAnswers
  <2> QED
    BY <1>2, <2>1, <2>2 DEF EndIsDue
<1> QED
  BY <1>1, <1>2 DEF EndIsDue

LEMMA SamePath ==
    ASSUME Carried, NEW l \in Seq(Item), NEW st, Path(st, l)
    PROVE  Path(st, l)'
<1>1. /\ st \in [0 .. Len(l) -> Place] /\ Len(l) \in Nat
      /\ \A i \in 1 .. Len(l) : Fits(st[i - 1], l[i]) /\ st[i] = After(st[i - 1], l[i])
      /\ \A i \in 0 .. Len(l) : Within(st[i])
  BY DEF Path
<1>2. ASSUME NEW i \in 0 .. Len(l)
      PROVE  Within(st[i])' /\ st[i].done \in Nat /\ st[i].done <= served
  <2>1. st[i] \in Place /\ Within(st[i])
    BY <1>1
  <2>2. st[i].done \in Nat
    BY <2>1 DEF Place
  <2>3. st[i].by = "length" => SizeOf(st[i].done + 1)' = SizeOf(st[i].done + 1)
                               /\ Fails(st[i].done + 1)' = Fails(st[i].done + 1)
    <3>1. st[i].by = "length" => st[i].done + 1 \in 1 .. Len(asked)
      BY <2>1, <2>2 DEF Within, Carried
    <3> QED
      BY <3>1, SameAnswers
  <2> QED
    BY <2>1, <2>2, <2>3 DEF Within, Carried
<1>3. ASSUME NEW i \in 1 .. Len(l)
      PROVE  Fits(st[i - 1], l[i])' /\ (st[i] = After(st[i - 1], l[i]))'
  <2>1. PICK s : s = st[i - 1]
    OBVIOUS
  <2>2. PICK x : x = l[i]
    OBVIOUS
  <2>3. Fits(s, x) /\ st[i] = After(s, x) /\ s.done \in Nat /\ s.done <= served
    <3>1. i - 1 \in 0 .. Len(l)
      BY <1>1
    <3> QED
      BY <1>1, <1>2, <2>1, <2>2, <3>1
  <2>4. CASE x.kind = "head"
    <3>1. s.by = "head" /\ s.done < served /\ x.head = HeadTo(s.done + 1)
      BY <2>3, <2>4 DEF Fits
    <3>2. s.done + 1 \in 1 .. Len(asked) /\ s.done < served'
      BY <2>3, <3>1 DEF Carried
    <3>3. HeadTo(s.done + 1)' = HeadTo(s.done + 1) /\ FrameOf(s.done + 1)' = FrameOf(s.done + 1)
      BY <3>2, SameAnswers
    <3>4. After(s, x)' = After(s, x)
      BY <2>4, <3>3 DEF After
    <3>5. Fits(s, x)'
      BY <2>4, <3>1, <3>2, <3>3 DEF Fits
    <3> QED
      BY <2>1, <2>2, <2>3, <3>4, <3>5
  <2>5. CASE x.kind # "head"
    <3>1. After(s, x)' = After(s, x)
      BY <2>5 DEF After
    <3>2. s.by = "chunks" => SizeOf(s.done + 1)' = SizeOf(s.done + 1)
                             /\ Fails(s.done + 1)' = Fails(s.done + 1)
      <4>1. s.by = "chunks" => s.done + 1 \in 1 .. Len(asked)
        <5>1. i - 1 \in 0 .. Len(l)
          BY <1>1
        <5>2. Within(s)
          BY <1>1, <2>1, <5>1
        <5> QED
          BY <2>3, <5>2 DEF Within, Carried
      <4> QED
        BY <4>1, SameAnswers
    <3>3. Fits(s, x)'
      BY <2>3, <2>5, <3>2, StillDue DEF Fits
    <3> QED
      BY <2>1, <2>2, <2>3, <3>1, <3>3
  <2> QED
    BY <2>4, <2>5
<1> QED
  BY <1>1, <1>2, <1>3 DEF Path

-----------------------------------------------------------------------------
\* The invariant.

\* Nobody asks before the router is built.
SetupInv == ~built => /\ asked = <<>> /\ server = "ready" /\ line = <<>>
                      /\ reading = AtHead /\ part = NoPart /\ got = <<>>

LoopInv ==
    /\ server \in {"respond", "body"} => served >= 1 /\ reply = AnswerTo(served)
    /\ server = "body" /\ BodyTo(served).kind # "stream" =>
          left = <<>> \/ left = BodyTo(served).pieces
    /\ server = "body" => IsRest(left, BodyTo(served).pieces)

\* Whole replies, the one that is being read, and the end of the connection.
GotInv ==
    \A j \in DOMAIN got :
        /\ got[j].head = HeadTo(j)
        /\ FrameOf(j) = Nothing => got[j].bytes = 0
        /\ IF got[j].whole THEN got[j].bytes = SizeOf(j) /\ ~Fails(j)
           ELSE Fails(j) /\ j = Len(got) /\ reading.by = "ended"
PartInv ==
    reading.by \in {"length", "chunks"} =>
        /\ Len(got) < served
        /\ part.head = HeadTo(Len(got) + 1)
        /\ FrameOf(Len(got) + 1) # Nothing
EndInv ==
    reading.by = "ended" =>
        EndIsDue(Len(got)) \/ (got # <<>> /\ ~got[Len(got)].whole)

ReadInv == GotInv /\ PartInv /\ EndInv

Inv == TypeOK /\ RouteInv /\ SetupInv /\ LoopInv /\ ReadInv /\ Underway

-----------------------------------------------------------------------------
\* What the invariant implies.

LEMMA StepsAreKept == Inv => InStep
<1> SUFFICES ASSUME Inv, line # <<>> PROVE ~Misread
  BY DEF InStep
<1>1. PICK st : Path(st, line) /\ st[0] = Now
  BY DEF Inv, Underway
<1>2. line \in Seq(Item) /\ served <= Len(asked) /\ served \in Nat /\ Len(asked) \in Nat
      /\ Len(got) \in Nat
  BY DEF Inv, TypeOK
<1>3. Fits(Now, Head(line)) /\ Now \in Place
  <2>1. 0 \in 0 .. Len(line)
    BY <1>2
  <2> QED
    BY <1>1, <1>2, <2>1, ShorterPath DEF Path
<1>4. /\ Now.by = reading.by /\ Now.n = reading.n /\ Now.done = Len(got)
      /\ reading.by \in {"head", "length", "chunks", "ended"} /\ reading.n \in Nat
  BY <1>3 DEF Now, Amid, Place
<1>5. NextItem = Head(line)
  BY DEF NextItem
<1> HIDE DEF NextItem
<1>6. CASE reading.by = "head"
  BY <1>2, <1>3, <1>4, <1>5, <1>6 DEF Fits, Misread
<1>7. CASE reading.by = "length"
  BY <1>2, <1>3, <1>4, <1>5, <1>7 DEF Fits, Misread
<1>8. CASE reading.by = "chunks"
  BY <1>2, <1>3, <1>4, <1>5, <1>8 DEF Fits, Misread
<1>9. CASE reading.by = "ended"
  BY <1>9 DEF Misread
<1> QED
  BY <1>4, <1>6, <1>7, <1>8, <1>9

LEMMA Replies ==
    ASSUME SoundUse, Inv, NEW j \in DOMAIN got
    PROVE  /\ j \in DOMAIN asked /\ got[j].head = HeadTo(j)
           /\ got[j].head.status = AnswerTo(j).status
           /\ got[j].head.allow = AnswerTo(j).allow
           /\ got[j].head.length = SentLength(AnswerTo(j), asked[j].method)
<1>1. j \in DOMAIN asked
  <2>1. got \in Seq(Reply) /\ Len(got) <= served /\ served <= Len(asked)
        /\ Len(asked) \in Nat /\ served \in Nat
    BY DEF Inv, TypeOK
  <2>2. asked \in Seq(Request)
    BY DEF Inv, TypeOK
  <2>3. DOMAIN asked = 1 .. Len(asked)
    BY <2>2
  <2> QED
    BY <2>1, <2>3
<1>2. got[j].head = HeadTo(j)
  BY DEF Inv, ReadInv, GotInv
<1> QED
  BY <1>1, <1>2 DEF HeadTo, SentHead

LEMMA RepliesAreKept == SoundUse /\ Inv => FaithfulReplies
<1> SUFFICES ASSUME SoundUse, Inv, NEW j \in DOMAIN got
             PROVE  LET r    == Due(asked[j])
                        body == SentBody(r, asked[j].method)
                    IN  /\ got[j].head.status = r.status
                        /\ got[j].whole <=> ~body.fails
                        /\ got[j].whole => got[j].bytes = BodyLength(body)
                        /\ ~got[j].whole => j = Len(got) /\ reading.by = "ended"
  BY DEF FaithfulReplies
<1>1. j \in DOMAIN asked /\ got[j].head.status = AnswerTo(j).status
  BY Replies
<1>2. /\ AnswerTo(j).status = Due(asked[j]).status
      /\ BodyTo(j) = SentBody(Due(asked[j]), asked[j].method)
  BY <1>1, DueIsSent DEF Inv
<1>3. IF got[j].whole THEN got[j].bytes = SizeOf(j) /\ ~Fails(j)
      ELSE Fails(j) /\ j = Len(got) /\ reading.by = "ended"
  BY DEF Inv, ReadInv, GotInv
<1>4. Fails(j) = BodyTo(j).fails /\ SizeOf(j) = BodyLength(BodyTo(j))
  BY DEF Fails, SizeOf
<1> QED
  BY <1>1, <1>2, <1>3, <1>4

LEMMA EndsAreKept == SoundUse /\ Inv => EndsExplained
<1> SUFFICES ASSUME SoundUse, Inv, reading.by = "ended" PROVE EndsExplained
  BY DEF EndsExplained
<1>1. TypeOK /\ RouteInv
  BY DEF Inv
<1>2. got \in Seq(Reply) /\ Len(got) \in Nat /\ DOMAIN got = 1 .. Len(got)
  <2>1. got \in Seq(Reply)
    BY DEF Inv, TypeOK
  <2> QED
    BY <2>1
<1>3. CASE got # <<>> /\ ~got[Len(got)].whole
  BY <1>3 DEF EndsExplained
<1>4. CASE Len(got) >= 1 /\ HeadTo(Len(got)).close
  <2>1. got # <<>> /\ Len(got) \in DOMAIN got
    BY <1>2, <1>4
  <2> QED
    BY <1>4, <2>1, Replies DEF EndsExplained
<1>5. CASE Len(got) < Len(asked) /\ Conflicting(AnswerTo(Len(got) + 1))
  <2> DEFINE j == Len(got) + 1
             q == asked[j]
             entry == Entry(table, q.path)
  <2>1. j \in DOMAIN asked
    <3>1. asked \in Seq(Request)
      BY <1>1 DEF TypeOK
    <3>2. DOMAIN asked = 1 .. Len(asked) /\ Len(asked) \in Nat
      BY <3>1
    <3> QED
      BY <1>2, <1>5, <3>2
  <2>2. q.path \in Paths
    BY <1>1, <2>1, Requests
  <2> HIDE DEF j
  <2>3. CASE Exact(entry, q.method) /\ AnswerTo(j) = entry[q.method] /\ Due(q) = entry[q.method]
    BY <1>5, <2>3 DEF j, EndsExplained
  <2>4. CASE HeadFromGet(q) /\ Exact(entry, "GET") /\ Due(q) = entry["GET"]
             /\ AnswerTo(j) = StripBodyForHead(entry["GET"])
    <3> DEFINE r == entry["GET"]
    <3>1. r \in Response
      BY <1>1, <2>2, <2>4, Handlers
    <3> HIDE DEF r
    <3>2. StripBodyForHead(r).coding = r.coding
          /\ StripBodyForHead(r).length = IF r.body.kind = "full" /\ r.length = NoLength
                                          THEN FullLength(r) ELSE r.length
      BY <3>1, StrippedParts
    <3>3. Conflicting(StripBodyForHead(r))
      BY <1>5, <2>4 DEF j, r
    <3>4. Conflicting(r) \/ (r.coding # "absent" /\ r.body.kind = "full")
      BY <3>2, <3>3 DEF Conflicting
    <3>5. Conflicting(Due(q)) \/ CodedForGet(q)
      BY <2>4, <3>4 DEF CodedForGet, r
    <3> QED
      BY <1>5, <3>5 DEF j, EndsExplained
  <2>5. CASE AnswerTo(j) = IF q.method \notin Standard THEN Plain(501)
                          ELSE IF q.path \in DOMAIN table
                          THEN [Plain(405) EXCEPT !.allow = Allow(entry, autoHead)]
                          ELSE Plain(404)
    <3>1. \A status : Plain(status).length = NoLength
      BY DEF Plain
    <3>2. \A x : [Plain(405) EXCEPT !.allow = x].length = NoLength
      BY DEF Plain
    <3>3. AnswerTo(j).length = NoLength
      BY <2>5, <3>1, <3>2
    <3> QED
      BY <1>5, <3>3 DEF j, Conflicting
  <2> QED
    BY <1>1, <2>1, <2>3, <2>4, <2>5, AnswerIsDue
<1> QED
  BY <1>2, <1>3, <1>4, <1>5 DEF Inv, ReadInv, GotInv, EndInv, EndIsDue

\* The length that GET shows is the one that is recorded for HEAD, if any is.
LEMMA LengthIsKept ==
    ASSUME NEW r \in Response, Proper(r, "GET"), SentLength(r, "GET") # NoLength
    PROVE  SentLength(StripBodyForHead(r), "HEAD")
             = IF Unsized(r) THEN NoLength ELSE SentLength(r, "GET")
<1> DEFINE s == StripBodyForHead(r)
<1>1. /\ s.status = r.status /\ s.body.kind = "empty"
      /\ s.length = IF r.body.kind = "full" /\ r.length = NoLength
                    THEN FullLength(r) ELSE r.length
  BY StrippedParts DEF EmptyBody
<1> HIDE DEF s
<1>2. ~Bodiless(r.status) /\ r.body.kind # "stream"
  BY DEF SentLength
<1>3. r.body.kind \in {"empty", "full", "stream"}
  BY DEF Response, Body
<1>4. CASE r.length # NoLength
  BY <1>1, <1>2, <1>4 DEF SentLength, Unsized, s
<1>5. CASE r.length = NoLength /\ r.body.kind = "full"
  <2>1. FullLength(r) # NoLength
    BY <1>5, FullIsCounted DEF NoLength
  <2> QED
    BY <1>1, <1>2, <1>5, <2>1 DEF SentLength, Unsized, s
<1>6. CASE r.length = NoLength /\ r.body.kind = "empty"
  BY <1>1, <1>2, <1>6 DEF SentLength, Unsized, s
<1> QED
  BY <1>2, <1>3, <1>4, <1>5, <1>6

LEMMA HeadIsKept == SoundUse /\ Inv => HeadMirrorsGet
<1> SUFFICES ASSUME SoundUse, Inv, NEW i \in DOMAIN got, NEW j \in DOMAIN got,
                    asked[i].path = asked[j].path, asked[i].method = "GET",
                    HeadFromGet(asked[j])
             PROVE  /\ got[j].head.status = got[i].head.status
                    /\ got[i].head.length # NoLength
                          => got[j].head.length = IF Unsized(Due(asked[i])) THEN NoLength
                                                  ELSE got[i].head.length
  BY DEF HeadMirrorsGet
<1> DEFINE p == asked[j].path
           r == Entry(table, p)["GET"]
<1>1. TypeOK /\ RouteInv
  BY DEF Inv
<1>2. i \in DOMAIN asked /\ j \in DOMAIN asked
  BY Replies
<1>3. p \in Paths /\ asked[j].method = "HEAD" /\ Named(p, "HEAD") = {} /\ Named(p, "GET") # {}
  BY <1>1, <1>2, Requests DEF HeadFromGet
<1>4. Exact(Entry(table, p), "GET") /\ ~Exact(Entry(table, p), "HEAD")
  BY <1>1, <1>3, Handlers
<1>5. r \in Response /\ Proper(r, "GET")
  BY <1>1, <1>3, <1>4, HandlerIsProper
<1>6. AnswerTo(i) = r
  BY <1>4 DEF AnswerTo, Answer
<1>7. AnswerTo(j) = StripBodyForHead(r)
  BY <1>1, <1>2, <1>3, <1>4, AnswerIsDue
<1>8. Due(asked[i]) = r
  BY <1>1, <1>2, <1>4, AnswerIsDue
<1> HIDE DEF r
<1>9. got[j].head.status = got[i].head.status
  BY <1>5, <1>6, <1>7, Replies, StrippedParts
<1>10. /\ got[i].head.length = SentLength(r, "GET")
       /\ got[j].head.length = SentLength(StripBodyForHead(r), "HEAD")
  BY <1>3, <1>6, <1>7, Replies
<1> QED
  BY <1>5, <1>8, <1>9, <1>10, LengthIsKept

LEMMA HandlersServe ==
    ASSUME NoRefusals, TypeOK, RouteInv, NEW p \in Paths, NEW m, Exact(Entry(table, p), m)
    PROVE  Entry(table, p)[m].status \notin {405, 501}
<1>1. PICK i \in Named(p, m) : Entry(table, p)[m] = calls[i].handler
  BY Handlers
<1>2. i \in DOMAIN calls
  BY DEF Named
<1> QED
  BY <1>1, <1>2, Calls DEF Offered, NoRefusals

LEMMA RefusalParts ==
    ASSUME NEW allow
    PROVE  /\ [Plain(405) EXCEPT !.allow = allow].status = 405
           /\ [Plain(405) EXCEPT !.allow = allow].allow = allow
BY DEF Plain

LEMMA AllowIsKept == SoundUse /\ NoRefusals /\ Inv => AllowIsExact
<1> SUFFICES ASSUME SoundUse, NoRefusals, Inv, NEW i \in DOMAIN got, NEW j \in DOMAIN got,
                    asked[i].path = asked[j].path, got[i].head.status = 405
             PROVE  asked[j].method \in got[i].head.allow
                      <=> got[j].head.status \notin {405, 501}
  BY DEF AllowIsExact
<1> DEFINE p     == asked[j].path
           m     == asked[j].method
           entry == Entry(table, p)
<1>1. TypeOK /\ RouteInv
  BY DEF Inv
<1>2. i \in DOMAIN asked /\ j \in DOMAIN asked
  BY Replies
<1>3. p \in Paths
  BY <1>1, <1>2, Requests
<1>4. \A n : Exact(entry, n) => entry[n].status \notin {405, 501} /\ entry[n] \in Response
                               /\ StripBodyForHead(entry[n]).status = entry[n].status
  BY <1>1, <1>3, HandlersServe, Handlers, StrippedParts
<1>5. \A status : Plain(status).status = status
  BY DEF Plain
<1>6. AnswerTo(i).status = 405
  BY Replies
<1>7. p \in DOMAIN table /\ AnswerTo(i) = [Plain(405) EXCEPT !.allow = Allow(entry, autoHead)]
  <2> HIDE DEF entry
  <2> QED
    BY <1>1, <1>2, <1>4, <1>5, <1>6, AnswerIsDue DEF entry
<1>8. got[i].head.allow = Allow(entry, autoHead)
  <2>1. got[i].head.allow = AnswerTo(i).allow
    BY Replies
  <2>2. [Plain(405) EXCEPT !.allow = Allow(entry, autoHead)].allow = Allow(entry, autoHead)
    BY RefusalParts
  <2> QED
    BY <1>7, <2>1, <2>2
<1>9. got[j].head.status = AnswerTo(j).status
  BY Replies
<1>10. CASE Exact(entry, m) /\ AnswerTo(j) = entry[m]
  BY <1>4, <1>8, <1>9, <1>10 DEF Exact, Allow
<1>11. CASE /\ HeadFromGet(asked[j]) /\ Exact(entry, "GET")
            /\ AnswerTo(j) = StripBodyForHead(entry["GET"])
  <2>1. autoHead /\ m = "HEAD"
    BY <1>11 DEF HeadFromGet
  <2>2. m \in Allow(entry, autoHead)
    BY <1>11, <2>1 DEF Exact, Allow
  <2> QED
    BY <1>4, <1>8, <1>9, <1>11, <2>2
<1>12. CASE /\ ~Exact(entry, m) /\ ~HeadFromGet(asked[j])
            /\ AnswerTo(j) = IF m \notin Standard THEN Plain(501)
                             ELSE IF p \in DOMAIN table
                             THEN [Plain(405) EXCEPT !.allow = Allow(entry, autoHead)]
                             ELSE Plain(404)
  <2>1. AnswerTo(j).status \in {405, 501}
    BY <1>5, <1>7, <1>12, RefusalParts
  <2>2. ~(autoHead /\ m = "HEAD" /\ Exact(entry, "GET"))
    BY <1>1, <1>3, <1>12, Handlers DEF HeadFromGet
  <2>3. m \notin Allow(entry, autoHead)
    BY <1>12, <2>2 DEF Exact, Allow
  <2> QED
    BY <1>8, <1>9, <2>1, <2>3
<1> QED
  BY <1>1, <1>2, <1>10, <1>11, <1>12, AnswerIsDue

-----------------------------------------------------------------------------
\* The initial state, and the calls of the builder.

LEMMA HeadOfNone == NoHead \in Heads
<1>1. /\ SentLength(Plain(200), "GET") = 0 /\ SentCoding(Plain(200), "GET") = "absent"
      /\ Plain(200).status = 200 /\ Plain(200).close = FALSE /\ Plain(200).allow = {}
  BY DEF SentLength, SentCoding, Plain, EmptyBody, Bodiless, BodyAllowed, NoLength
<1>2. NoHead = [status |-> 200, length |-> 0, coding |-> "absent",
                close |-> FALSE \/ FALSE, allow |-> {}]
  BY <1>1 DEF NoHead, SentHead
<1> QED
  BY <1>2 DEF Heads, Codings

LEMMA InitInv == Init => Inv
<1> SUFFICES ASSUME Init PROVE Inv
  OBVIOUS
<1>1. TypeOK
  <2>1. Plain(200) \in Response
    BY PlainIsProper
  <2>2. AtHead \in Reading
    BY DEF AtHead, Reading
  <2>3. NoPart \in Reply
    BY HeadOfNone DEF NoPart, Reply
  <2>4. DOMAIN table = {} /\ calls = <<>> /\ asked = <<>> /\ served = 0 /\ Len(got) = 0
    BY DEF Init, NoRoutes
  <2>5. \A S : <<>> \in Seq(S)
    OBVIOUS
  <2>6. /\ calls \in Seq(Routes) /\ left \in Seq(Nat) /\ line \in Seq(Item)
        /\ asked \in Seq(Request)
        /\ got \in Seq(Reply)
    BY <2>5, Zenon DEF Init
  <2>7. served \in 0 .. Len(asked) /\ Len(got) <= served
    BY <2>4
  <2> QED
    BY <2>1, <2>2, <2>3, <2>4, <2>6, <2>7 DEF Init, TypeOK
<1>2. RouteInv
  BY DEF Init, RouteInv, NoRoutes
<1>3. SetupInv /\ LoopInv
  BY DEF Init, SetupInv, LoopInv
<1>4. ReadInv
  BY DEF Init, ReadInv, GotInv, PartInv, EndInv, AtHead
<1>5. Underway
  <2>1. At("head", 0, 0) \in Place /\ Within(At("head", 0, 0))
    BY DEF At, Amid, Place, Within, Init
  <2>2. PICK st : st = [i \in 0 .. 0 |-> At("head", 0, 0)]
    OBVIOUS
  <2>3. st[0] = At("head", 0, 0) /\ st \in [0 .. 0 -> Place]
    BY <2>1, <2>2
  <2>4. line = <<>> /\ Len(line) = 0
    BY DEF Init
  <2>5. Path(st, line)
    BY <2>1, <2>3, <2>4 DEF Path
  <2>6. Now = At("head", 0, 0)
    BY DEF Now, At, Init, AtHead, NoPart
  <2>7. Expected(At("head", 0, 0))
    BY DEF Expected, Init
  <2> QED
    BY <2>3, <2>4, <2>5, <2>6, <2>7 DEF Underway
<1> QED
  BY <1>1, <1>2, <1>3, <1>4, <1>5 DEF Inv

\* While the router is built, there is nothing underway.
LEMMA Unused ==
    ASSUME Inv, ~built, UNCHANGED <<asked, loop, line, reader>>
    PROVE  /\ SetupInv' /\ LoopInv' /\ ReadInv' /\ Underway'
           /\ UNCHANGED <<asked, served, server, reply, left, line, reading, part, got>>
<1>1. /\ asked' = <<>> /\ server' = "ready" /\ line' = <<>> /\ reading' = AtHead
      /\ part' = NoPart /\ got' = <<>> /\ served' = 0
      /\ UNCHANGED <<asked, served, server, reply, left, line, reading, part, got>>
  BY DEF Inv, SetupInv, TypeOK, loop, reader
<1>2. SetupInv' /\ LoopInv'
  BY <1>1 DEF SetupInv, LoopInv
<1>3. ReadInv'
  BY <1>1 DEF ReadInv, GotInv, PartInv, EndInv, AtHead
<1>4. Underway'
  <2>1. At("head", 0, 0) \in Place /\ Within(At("head", 0, 0))'
    BY <1>1 DEF At, Amid, Place, Within
  <2>2. PICK st : st = [i \in 0 .. 0 |-> At("head", 0, 0)]
    OBVIOUS
  <2>3. st[0] = At("head", 0, 0) /\ st \in [0 .. 0 -> Place]
    BY <2>1, <2>2
  <2>4. Len(line') = 0
    BY <1>1
  <2>5. Path(st, line)'
    BY <2>1, <2>3, <2>4 DEF Path
  <2>6. Now' = At("head", 0, 0)
    BY <1>1 DEF Now, At, AtHead, NoPart
  <2>7. Expected(At("head", 0, 0))'
    BY <1>1 DEF Expected
  <2> QED
    BY <2>3, <2>4, <2>5, <2>6, <2>7 DEF Underway
<1> QED
  BY <1>1, <1>2, <1>3, <1>4

LEMMA SetAutoHeadKeeps == Inv /\ SetAutoHead => Inv'
<1> SUFFICES ASSUME Inv, SetAutoHead PROVE Inv'
  OBVIOUS
<1>1. /\ ~built /\ autoHead' \in BOOLEAN
      /\ UNCHANGED <<table, calls, built, asked, loop, line, reader>>
  BY DEF SetAutoHead
<1>2. /\ SetupInv' /\ LoopInv' /\ ReadInv' /\ Underway'
      /\ UNCHANGED <<asked, served, server, reply, left, line, reading, part, got>>
  BY <1>1, Unused
<1>3. TypeOK'
  BY <1>1, <1>2 DEF Inv, TypeOK
<1>4. RouteInv'
  BY <1>1 DEF Inv, RouteInv, Latest, Named
<1> QED
  BY <1>2, <1>3, <1>4 DEF Inv

LEMMA BuildKeeps == Inv /\ Build => Inv'
<1> SUFFICES ASSUME Inv, Build PROVE Inv'
  OBVIOUS
<1>1. /\ ~built /\ built' = TRUE
      /\ UNCHANGED <<table, autoHead, calls, asked, loop, line, reader>>
  BY DEF Build
<1>2. /\ SetupInv' /\ LoopInv' /\ ReadInv' /\ Underway'
      /\ UNCHANGED <<asked, served, server, reply, left, line, reading, part, got>>
  BY <1>1, Unused
<1>3. TypeOK'
  BY <1>1, <1>2 DEF Inv, TypeOK
<1>4. RouteInv'
  BY <1>1 DEF Inv, RouteInv, Latest, Named
<1> QED
  BY <1>2, <1>3, <1>4 DEF Inv

\* There is a call to come after those of a strict prefix.
LEMMA NextCall ==
    ASSUME NEW S, NEW s \in Seq(S), NEW t \in Seq(S), IsStrictPrefix(s, t)
    PROVE  Len(s) + 1 \in DOMAIN t
<1>1. Len(s) <= Len(t) /\ SubSeq(s, 1, Len(s)) = SubSeq(t, 1, Len(s)) /\ s # t
  BY DEF IsStrictPrefix, IsPrefix
<1>2. /\ Len(s) \in Nat /\ Len(t) \in Nat
      /\ DOMAIN s = 1 .. Len(s) /\ DOMAIN t = 1 .. Len(t)
  OBVIOUS
<1>3. ASSUME Len(s) = Len(t)
      PROVE  FALSE
  <2>1. ASSUME NEW i \in 1 .. Len(s)
        PROVE  s[i] = t[i]
    <3>1. SubSeq(s, 1, Len(s))[i] = s[i] /\ SubSeq(t, 1, Len(s))[i] = t[i]
      BY <1>2, <1>3
    <3> QED
      BY <1>1, <3>1
  <2>2. s = t
    BY <1>2, <1>3, <2>1, SeqEqual
  <2> QED
    BY <1>1, <2>2
<1>4. PICK m \in Nat : m = Len(s)
  BY <1>2
<1>5. PICK n \in Nat : n = Len(t)
  BY <1>2
<1>6. m <= n /\ m # n /\ DOMAIN t = 1 .. n
  BY <1>1, <1>2, <1>3, <1>4, <1>5
<1>7. m + 1 \in 1 .. n
  BY <1>6
<1> QED
  BY <1>4, <1>6, <1>7

LEMMA RegisterKeeps == Inv /\ Register => Inv'
<1> SUFFICES ASSUME Inv, Register PROVE Inv'
  OBVIOUS
<1>1. /\ ~built
      /\ UNCHANGED <<autoHead, built, asked, loop, line, reader>>
  BY DEF Register
<1>2. /\ SetupInv' /\ LoopInv' /\ ReadInv' /\ Underway'
      /\ UNCHANGED <<asked, served, server, reply, left, line, reading, part, got>>
  BY <1>1, Unused
<1>3. PICK program \in Programs :
        /\ IsStrictPrefix(calls, program)
        /\ table' = InsertRoute(table, program[Len(calls) + 1].path,
                                program[Len(calls) + 1].method, program[Len(calls) + 1].handler)
        /\ calls' = Append(calls, program[Len(calls) + 1])
  BY DEF Register
<1>4. calls \in Seq(Routes) /\ program \in Seq(Routes)
  BY ProgramsAssumption DEF Inv, TypeOK
<1>5. PICK k \in Nat : k = Len(calls) + 1
  BY <1>4
<1>6. k \in DOMAIN program
  BY <1>3, <1>4, <1>5, NextCall
<1>7. PICK c \in Routes : c = program[k]
  BY <1>4, <1>6
<1>8. c.path \in Paths /\ c.method \in Methods /\ c.handler \in Response /\ Offered(c)
  BY <1>6, <1>7 DEF Routes, Offered
<1>9. /\ calls' \in Seq(Routes) /\ DOMAIN calls' = DOMAIN calls \cup {k} /\ calls'[k] = c
      /\ \A i \in DOMAIN calls : i \in Nat /\ i < k /\ calls'[i] = calls[i]
  <2>1. calls' = Append(calls, c)
    BY <1>3, <1>5, <1>7
  <2>2. calls' \in Seq(Routes)
    BY <1>4, <2>1
  <2>3. DOMAIN calls = 1 .. Len(calls) /\ Len(calls) \in Nat
    BY <1>4
  <2>4. DOMAIN calls' = 1 .. (Len(calls) + 1) /\ calls'[Len(calls) + 1] = c
        /\ \A i \in 1 .. Len(calls) : calls'[i] = calls[i]
    BY <1>4, <2>1
  <2> QED
    BY <1>5, <2>2, <2>3, <2>4
\* insert_route changes the entry of one path, and in it the handler of one method.
<1>10. /\ DOMAIN table' = DOMAIN table \cup {c.path}
       /\ \A q \in DOMAIN table : q # c.path => table'[q] = table[q]
       /\ table'[c.path] \in [DOMAIN table'[c.path] -> Response]
       /\ DOMAIN table'[c.path] = DOMAIN Entry(table, c.path) \cup {c.method}
       /\ \A n \in DOMAIN table'[c.path] :
             table'[c.path][n] = IF n = c.method THEN c.handler ELSE Entry(table, c.path)[n]
  <2>1. table' = InsertRoute(table, c.path, c.method, c.handler)
    BY <1>3, <1>5, <1>7
  <2>2. \A m \in DOMAIN Entry(table, c.path) : Entry(table, c.path)[m] \in Response
    BY <1>8, Handlers DEF Inv, Exact
  <2>3. PICK old : old = Entry(table, c.path)
    OBVIOUS
  <2>4. PICK new : new = [n \in DOMAIN old \cup {c.method} |->
                            IF n = c.method THEN c.handler ELSE old[n]]
    OBVIOUS
  <2>5. table' = [q \in DOMAIN table \cup {c.path} |-> IF q = c.path THEN new ELSE table[q]]
    BY <2>1, <2>3, <2>4 DEF InsertRoute, With
  <2>6. /\ DOMAIN new = DOMAIN old \cup {c.method} /\ new \in [DOMAIN new -> Response]
        /\ \A n \in DOMAIN new : new[n] = IF n = c.method THEN c.handler ELSE old[n]
    BY <1>8, <2>2, <2>3, <2>4
  <2> QED
    BY <2>3, <2>5, <2>6
<1>11. \A p, m : Named(p, m)' = IF p = c.path /\ m = c.method THEN Named(p, m) \cup {k}
                                                           ELSE Named(p, m)
  <2> SUFFICES ASSUME NEW p, NEW m
               PROVE  Named(p, m)' = IF p = c.path /\ m = c.method THEN Named(p, m) \cup {k}
                                                                ELSE Named(p, m)
    OBVIOUS
  <2>1. Named(p, m) = { i \in DOMAIN calls : calls[i].path = p /\ calls[i].method = m }
    BY DEF Named
  <2>2. Named(p, m)' = { i \in DOMAIN calls' : calls'[i].path = p /\ calls'[i].method = m }
    BY DEF Named
  <2> QED
    BY <1>9, <2>1, <2>2
<1>12. \A p, m : \A i \in Named(p, m) : i \in DOMAIN calls
  BY DEF Named
<1>13. /\ \A m \in DOMAIN Entry(table, c.path) :
             Entry(table, c.path)[m] \in Response /\ m \in Methods
       /\ \A m \in Methods : m \in DOMAIN Entry(table, c.path) <=> Named(c.path, m) # {}
  <2> USE DEF Exact
  <2> QED
    BY <1>8, Handlers DEF Inv
<1>14. TypeOK'
  <2>1. DOMAIN table' \subseteq Paths
    BY <1>8, <1>10 DEF Inv, TypeOK
  <2>2. ASSUME NEW p \in DOMAIN table'
        PROVE  table'[p] \in [DOMAIN table'[p] -> Response]
    <3>1. CASE p = c.path
      BY <1>8, <1>10, <1>13, <3>1
    <3>2. CASE p # c.path
      BY <1>10, <3>2 DEF Inv, TypeOK
    <3> QED
      BY <3>1, <3>2
  <2> QED
    BY <1>1, <1>2, <1>9, <2>1, <2>2 DEF Inv, TypeOK
<1>15. RouteInv'
  <2>1. \A i \in DOMAIN calls' : Offered(calls'[i])
    BY <1>8, <1>9 DEF Inv, RouteInv
  <2>2. ASSUME NEW p \in Paths
        PROVE  p \in DOMAIN table' <=> \E i \in DOMAIN calls' : calls'[i].path = p
    <3>1. p \in DOMAIN table <=> \E i \in DOMAIN calls : calls[i].path = p
      BY DEF Inv, RouteInv
    <3> QED
      BY <1>9, <1>10, <3>1
  <2>3. ASSUME NEW p \in DOMAIN table'
        PROVE  /\ \A m \in DOMAIN table'[p] : m \in Methods
               /\ \A m \in Methods : m \in DOMAIN table'[p] <=> Named(p, m)' # {}
               /\ \A m \in DOMAIN table'[p] :
                     \E i : Latest(i, p, m)' /\ table'[p][m] = calls'[i].handler
    <3>1. CASE p # c.path
      <4>1. p \in DOMAIN table /\ table'[p] = table[p] /\ \A m : Named(p, m)' = Named(p, m)
        BY <1>10, <1>11, <3>1
      <4>2. ASSUME NEW m \in DOMAIN table'[p]
            PROVE  \E i : Latest(i, p, m)' /\ table'[p][m] = calls'[i].handler
        <5>1. PICK i : Latest(i, p, m) /\ table[p][m] = calls[i].handler
          BY <4>1, <4>2 DEF Inv, RouteInv
        <5>2. i \in DOMAIN calls
          BY <1>12, <5>1 DEF Latest
        <5> QED
          BY <1>9, <4>1, <5>1, <5>2 DEF Latest
      <4> QED
        BY <4>1, <4>2 DEF Inv, RouteInv
    <3>2. CASE p = c.path
      <4>1. DOMAIN table'[p] = DOMAIN Entry(table, p) \cup {c.method}
        BY <1>10, <3>2
      <4>2. ASSUME NEW m \in DOMAIN table'[p]
            PROVE  \E i : Latest(i, p, m)' /\ table'[p][m] = calls'[i].handler
        <5>1. CASE m = c.method
          <6>1. table'[p][m] = calls'[k].handler
            BY <1>9, <1>10, <3>2, <5>1
          <6>2. Latest(k, p, m)'
            <7>1. Named(p, m)' = Named(p, m) \cup {k}
              BY <1>11, <3>2, <5>1
            <7>2. \A i \in Named(p, m) : i <= k
              BY <1>9, <1>12
            <7> QED
              BY <7>1, <7>2 DEF Latest
          <6> QED
            BY <6>1, <6>2
        <5>2. CASE m # c.method
          <6>1. m \in DOMAIN Entry(table, p) /\ table'[p][m] = Entry(table, p)[m]
                /\ Named(p, m)' = Named(p, m)
            BY <1>10, <1>11, <3>2, <4>2, <5>2
          <6>2. p \in DOMAIN table /\ Entry(table, p) = table[p]
            BY <6>1 DEF Entry, NoEntry
          <6>3. PICK i : Latest(i, p, m) /\ table[p][m] = calls[i].handler
            BY <6>1, <6>2 DEF Inv, RouteInv
          <6>4. i \in DOMAIN calls
            BY <1>12, <6>3 DEF Latest
          <6> QED
            BY <1>9, <6>1, <6>2, <6>3, <6>4 DEF Latest
        <5> QED
          BY <5>1, <5>2
      <4>3. \A m \in Methods : m \in DOMAIN table'[p] <=> Named(p, m)' # {}
        BY <1>11, <1>13, <3>2, <4>1
      <4> QED
        BY <1>8, <1>13, <3>2, <4>1, <4>2, <4>3
    <3> QED
      BY <3>1, <3>2
  <2> QED
    BY <2>1, <2>2, <2>3 DEF RouteInv
<1> QED
  BY <1>2, <1>14, <1>15 DEF Inv

-----------------------------------------------------------------------------
\* The requests.

LEMMA Counts ==
    ASSUME TypeOK
    PROVE  /\ served \in Nat /\ Len(asked) \in Nat /\ served <= Len(asked)
           /\ DOMAIN asked = 1 .. Len(asked)
           /\ Len(got) \in Nat /\ DOMAIN got = 1 .. Len(got) /\ Len(got) <= served
           /\ line \in Seq(Item) /\ Len(line) \in Nat
<1>1. /\ asked \in Seq(Request)
      /\ got \in Seq(Reply) /\ line \in Seq(Item)
      /\ served \in 0 .. Len(asked) /\ Len(got) <= served
  BY DEF TypeOK
<1>2. Len(asked) \in Nat /\ DOMAIN asked = 1 .. Len(asked)
  BY <1>1
<1>3. Len(got) \in Nat /\ DOMAIN got = 1 .. Len(got) /\ Len(line) \in Nat
  BY <1>1
<1> QED
  BY <1>1, <1>2, <1>3

LEMMA NothingNew ==
    ASSUME TypeOK, UNCHANGED <<table, autoHead, asked, served>>
    PROVE  Carried
BY Counts DEF Carried

\* Nor do they change anything about the replies that were read.
LEMMA SameReplies ==
    ASSUME TypeOK, Carried, NEW j \in DOMAIN got
    PROVE  /\ HeadTo(j)' = HeadTo(j) /\ FrameOf(j)' = FrameOf(j)
           /\ SizeOf(j)' = SizeOf(j) /\ Fails(j)' = Fails(j)
<1>1. j \in 1 .. Len(asked)
  BY Counts
<1> QED
  BY <1>1, SameAnswers

LEMMA ReadKept ==
    ASSUME TypeOK, ReadInv, Carried, UNCHANGED <<reading, part, got>>
    PROVE  ReadInv'
<1>1. reading' = reading /\ part' = part /\ got' = got
  OBVIOUS
<1>2. GotInv'
  <2>1. \A j \in DOMAIN got : /\ HeadTo(j)' = HeadTo(j) /\ FrameOf(j)' = FrameOf(j)
                              /\ SizeOf(j)' = SizeOf(j) /\ Fails(j)' = Fails(j)
    BY SameReplies
  <2> QED
    BY <1>1, <2>1 DEF ReadInv, GotInv
<1>3. PartInv'
  <2> SUFFICES ASSUME reading.by \in {"length", "chunks"} PROVE PartInv'
    BY <1>1 DEF PartInv
  <2>1. PICK j : j = Len(got) + 1
    OBVIOUS
  <2>2. /\ Len(got) < served /\ part.head = HeadTo(j) /\ FrameOf(j) # Nothing
    BY <2>1 DEF ReadInv, PartInv
  <2>3. j \in 1 .. Len(asked) /\ Len(got) < served'
    BY <2>1, <2>2, Counts DEF Carried
  <2>4. HeadTo(j)' = HeadTo(j) /\ FrameOf(j)' = FrameOf(j)
    BY <2>3, SameAnswers
  <2> QED
    BY <1>1, <2>1, <2>2, <2>3, <2>4 DEF PartInv
<1>4. EndInv'
  <2> SUFFICES ASSUME reading.by = "ended" PROVE EndInv'
    BY <1>1 DEF EndInv
  <2>1. PICK n \in Nat : n = Len(got)
    BY Counts
  <2>2. EndIsDue(n) => EndIsDue(n)'
    BY <2>1, Counts, StillDue
  <2> QED
    BY <1>1, <2>1, <2>2 DEF ReadInv, EndInv
<1> QED
  BY <1>2, <1>3, <1>4 DEF ReadInv

\* The bytes underway after a step of the server or a request of the client.
LEMMA Arrives ==
    ASSUME Carried, UNCHANGED <<reading, part, got>>, NEW l \in Seq(Item), line' = l,
           NEW st, Path(st, l), st[0] = Now, Expected(st[Len(l)])'
    PROVE  Underway'
<1>1. Path(st, l)'
  BY SamePath
<1>2. Path(st, line)'
  BY <1>1 DEF Path
<1>3. st[0] = Now'
  BY DEF Now, Amid
<1>4. Expected(st[Len(line)])'
  BY DEF Expected
<1> QED
  BY <1>2, <1>3, <1>4 DEF Underway

LEMMA AskKeeps == Inv /\ Ask => Inv'
<1> SUFFICES ASSUME Inv, Ask PROVE Inv'
  OBVIOUS
<1>1. PICK new \in Request : asked' = Append(asked, new)
  BY DEF Ask
<1>2. /\ built /\ UNCHANGED <<table, autoHead, calls, built, served, server, reply, left, line,
                               reading, part, got>>
  BY DEF Ask, setup, loop, reader
<1>3. PICK S : S = Request
  OBVIOUS
<1>4. new \in S
  BY <1>3
<1>5. asked \in Seq(S)
  BY <1>3 DEF Inv, TypeOK
<1>6. /\ asked' \in Seq(S) /\ Len(asked') = Len(asked) + 1
      /\ \A j \in 1 .. Len(asked) : asked'[j] = asked[j]
  BY <1>1, <1>4, <1>5
<1>7. Carried
  BY <1>2, <1>6, Counts DEF Carried, Inv
<1>8. TypeOK'
  <2>1. served \in 0 .. Len(asked')
    BY <1>6, Counts DEF Inv
  <2> QED
    BY <1>2, <1>3, <1>6, <2>1 DEF Inv, TypeOK
<1>9. RouteInv'
  BY <1>2 DEF Inv, RouteInv, Latest, Named
<1>10. SetupInv'
  BY <1>2 DEF SetupInv
<1>11. server \in {"respond", "body"} => served \in 1 .. Len(asked)
  BY Counts DEF Inv, LoopInv
<1>12. LoopInv'
  <2> SUFFICES ASSUME server \in {"respond", "body"} PROVE LoopInv'
    BY <1>2 DEF LoopInv
  <2>1. PICK n : n = served
    OBVIOUS
  <2>2. AnswerTo(n)' = AnswerTo(n) /\ BodyTo(n)' = BodyTo(n)
    BY <1>7, <1>11, <2>1, SameAnswers
  <2>3. AnswerTo(served)' = AnswerTo(served) /\ BodyTo(served)' = BodyTo(served)
    BY <1>2, <2>1, <2>2 DEF AnswerTo, BodyTo
  <2> QED
    BY <1>2, <2>3 DEF Inv, LoopInv
<1>13. ReadInv'
  BY <1>2, <1>7, ReadKept DEF Inv
<1>14. Underway'
  <2>1. PICK st : Path(st, line) /\ st[0] = Now /\ Expected(st[Len(line)])
    BY DEF Inv, Underway
  <2>2. PICK l : l = line
    OBVIOUS
  <2>3. PICK n : n = served
    OBVIOUS
  <2>4. server = "body" => BodyTo(n)' = BodyTo(n)
    BY <1>7, <1>11, <2>3, SameAnswers
  <2>5. server = "body" => BodyTo(served)' = BodyTo(served) /\ Gone' = Gone
    <3>1. server = "body" => BodyTo(served)' = BodyTo(served)
      BY <1>2, <2>3, <2>4 DEF BodyTo
    <3> QED
      BY <1>2, <3>1 DEF Gone
  <2>6. Expected(st[Len(l)])'
    BY <1>2, <2>1, <2>2, <2>5 DEF Expected
  <2>7. l \in Seq(Item)
    BY <2>2, Counts DEF Inv
  <2> QED
    BY <1>2, <1>7, <2>1, <2>2, <2>6, <2>7, Arrives
<1> QED
  BY <1>8, <1>9, <1>10, <1>12, <1>13, <1>14 DEF Inv

LEMMA HandleKeeps == SoundUse /\ Inv /\ Handle => Inv'
<1> SUFFICES ASSUME SoundUse, Inv, Handle PROVE Inv'
  OBVIOUS
<1>1. /\ server = "ready" /\ served < Len(asked) /\ served' = served + 1 /\ server' = "respond"
      /\ reply' = Answer(table, autoHead, asked[served + 1].path, asked[served + 1].method)
      /\ UNCHANGED <<table, autoHead, calls, built, asked, left, line, reading, part, got>>
  BY DEF Handle, setup, reader
<1>2. Carried
  BY <1>1, Counts DEF Carried, Inv
<1>3. PICK n : n = served + 1
  OBVIOUS
<1>4. n \in DOMAIN asked /\ n >= 1 /\ n = served'
  BY <1>1, <1>3, Counts DEF Inv
<1>5. reply' = AnswerTo(n) /\ AnswerTo(n) \in Response
  BY <1>1, <1>3, <1>4, Requests DEF AnswerTo, Inv
<1>6. TypeOK'
  <2>1. served' \in 0 .. Len(asked) /\ Len(got) <= served'
    BY <1>1, Counts DEF Inv
  <2>2. reply' \in Response
    BY <1>5
  <2> QED
    BY <1>1, <2>1, <2>2 DEF Inv, TypeOK
<1>7. RouteInv'
  BY <1>1 DEF Inv, RouteInv, Latest, Named
<1>8. SetupInv'
  <2>1. built
    BY <1>4 DEF Inv, SetupInv
  <2> QED
    BY <1>1, <2>1 DEF SetupInv
<1>9. LoopInv'
  <2>1. AnswerTo(n)' = AnswerTo(n)
    BY <1>1 DEF AnswerTo
  <2> QED
    BY <1>1, <1>4, <1>5, <2>1 DEF LoopInv, AnswerTo
<1>10. ReadInv'
  BY <1>1, <1>2, ReadKept DEF Inv
<1>11. Underway'
  <2>1. PICK st : Path(st, line) /\ st[0] = Now /\ Expected(st[Len(line)])
    BY DEF Inv, Underway
  <2>2. PICK l : l = line
    OBVIOUS
  <2>3. st[Len(l)] = At("head", 0, served)
    BY <1>1, <2>1, <2>2 DEF Expected
  <2>4. At("head", 0, served) = At("head", 0, served' - 1)
    BY <1>1, Counts DEF Inv
  <2>5. Expected(st[Len(l)])'
    BY <1>1, <2>3, <2>4 DEF Expected
  <2>6. l \in Seq(Item)
    BY <2>2, Counts DEF Inv
  <2> QED
    BY <1>1, <1>2, <2>1, <2>2, <2>5, <2>6, Arrives
<1> QED
  BY <1>6, <1>7, <1>8, <1>9, <1>10, <1>11 DEF Inv

-----------------------------------------------------------------------------
\* The writes of the server.

\* The request whose response is written.
LEMMA Writes ==
    ASSUME SoundUse, Inv, server \in {"respond", "body"}
    PROVE  /\ served \in DOMAIN asked /\ served \in Nat /\ served >= 1 /\ served <= Len(asked)
           /\ built /\ reply = AnswerTo(served) /\ Current = asked[served]
           /\ SentHead(reply, Current.method, Directive) = HeadTo(served)
           /\ SentBody(reply, Current.method) = BodyTo(served)
           /\ HeadTo(served) \in Heads /\ (Directive => HeadTo(served).close)
<1>1. served \in DOMAIN asked /\ served \in Nat /\ served >= 1 /\ served <= Len(asked)
  BY Counts DEF Inv, LoopInv
<1>2. reply = AnswerTo(served) /\ Current = asked[served] /\ built
  BY DEF Inv, LoopInv, Current, SetupInv
<1>3. SentHead(reply, Current.method, Directive) = HeadTo(served)
  BY <1>2 DEF HeadTo, Closes, Directive
<1>4. SentBody(reply, Current.method) = BodyTo(served)
  BY <1>2 DEF BodyTo
<1>5. HeadTo(served) \in Heads
  BY <1>1, HeadIsHead DEF Inv
<1>6. Directive => HeadTo(served).close
  BY <1>2 DEF HeadTo, SentHead, Closes, Directive
<1> QED
  BY <1>1, <1>2, <1>3, <1>4, <1>5, <1>6

LEMMA WriteKeeps ==
    ASSUME SoundUse, Inv, server \in {"respond", "body"},
           UNCHANGED <<setup, asked, served, reply, reader>>,
           server' \in {"ready", "respond", "body", "closed"},
           left' \in Seq(Nat), line' \in Seq(Item), LoopInv', Underway'
    PROVE  Inv'
<1>1. UNCHANGED <<table, autoHead, calls, built, asked, served, reply, reading, part, got>>
  BY DEF setup, reader
<1>2. TypeOK'
  BY <1>1 DEF Inv, TypeOK
<1>3. RouteInv'
  BY <1>1 DEF Inv, RouteInv, Latest, Named
<1>4. SetupInv'
  BY <1>1, Writes DEF SetupInv
<1>5. ReadInv'
  BY <1>1, NothingNew, ReadKept DEF Inv
<1> QED
  BY <1>2, <1>3, <1>4, <1>5 DEF Inv

\* One more item underway.
LEMMA Appended ==
    ASSUME Inv, UNCHANGED <<table, autoHead, asked, served, reading, part, got>>,
           NEW x \in Item, line' = Append(line, x), NEW next \in Place, Within(next),
           \A s : Expected(s) => Fits(s, x) /\ next = After(s, x),
           Expected(next)'
    PROVE  Underway' /\ line' \in Seq(Item)
<1>1. PICK st : Path(st, line) /\ st[0] = Now /\ Expected(st[Len(line)])
  BY DEF Inv, Underway
<1>2. line \in Seq(Item)
  BY Counts DEF Inv
<1>3. PICK l : l = Append(line, x)
  OBVIOUS
<1>4. PICK st2 : Path(st2, l) /\ st2[0] = st[0] /\ st2[Len(l)] = next
  BY <1>1, <1>2, <1>3, LongerPath
<1>5. l \in Seq(Item)
  BY <1>2, <1>3
<1>6. Carried
  BY NothingNew DEF Inv
<1>7. Expected(st2[Len(l)])'
  BY <1>4 DEF Expected
<1> QED
  BY <1>1, <1>3, <1>4, <1>5, <1>6, <1>7, Arrives

LEMMA FinIsItem ==
    /\ [kind |-> "fin", n |-> 0, head |-> NoHead] \in Item
    /\ \A n \in Nat : \A kind \in {"bytes", "chunk"} :
          [kind |-> kind, n |-> n, head |-> NoHead] \in Item
BY HeadOfNone DEF Item

LEMMA WriteConflictKeeps == SoundUse /\ Inv /\ WriteConflict => Inv'
<1> SUFFICES ASSUME SoundUse, Inv, WriteConflict PROVE Inv'
  OBVIOUS
<1>1. /\ server = "respond" /\ Conflicting(reply) /\ server' = "closed"
      /\ UNCHANGED <<setup, asked, served, reply, left, reader>>
      /\ UNCHANGED <<table, autoHead, reading, part, got>>
  BY DEF WriteConflict, setup, reader
<1>2. PICK x \in Item : x = [kind |-> "fin", n |-> 0, head |-> NoHead]
  BY FinIsItem
<1>3. line' = Append(line, x)
  BY <1>2 DEF WriteConflict, Put
<1>4. PICK n : n = served - 1
  OBVIOUS
<1>5. n \in Nat /\ n + 1 = served /\ n <= served /\ n < Len(asked)
  BY <1>1, <1>4, Writes
<1>6. PICK next : next = At("ended", 0, n)
  OBVIOUS
<1>7. next \in Place /\ Within(next)
  BY <1>5, <1>6 DEF At, Amid, Place, Within
<1>8. EndIsDue(n)
  BY <1>1, <1>5, Writes DEF EndIsDue
<1>9. ASSUME NEW s, Expected(s)
      PROVE  Fits(s, x) /\ next = After(s, x)
  <2>1. s = At("head", 0, n)
    BY <1>1, <1>4, <1>9 DEF Expected
  <2>2. s.by = "head" /\ s.done = n /\ x.kind = "fin"
    BY <1>2, <2>1 DEF At, Amid
  <2> QED
    BY <1>6, <1>8, <2>2 DEF Fits, After
<1>10. Expected(next)'
  BY <1>1, <1>6 DEF Expected, At, Amid
<1>11. Underway' /\ line' \in Seq(Item)
  BY <1>1, <1>3, <1>7, <1>9, <1>10, Appended
<1>12. LoopInv'
  BY <1>1 DEF LoopInv
<1> QED
  BY <1>1, <1>11, <1>12, WriteKeeps DEF Inv, TypeOK

LEMMA SameBody ==
    ASSUME UNCHANGED <<table, autoHead, asked, served>>
    PROVE  /\ BodyTo(served)' = BodyTo(served) /\ AnswerTo(served)' = AnswerTo(served)
           /\ left' = left => Gone' = Gone
<1>1. BodyTo(served)' = BodyTo(served) /\ AnswerTo(served)' = AnswerTo(served)
  BY DEF BodyTo, AnswerTo
<1> QED
  BY <1>1 DEF Gone

LEMMA OnePiece ==
    ASSUME NEW s \in Seq(Nat), Len(s) = 1
    PROVE  s = <<s[1]>> /\ s[1] \in Nat /\ Head(s) = s[1] /\ Tail(s) = <<>> /\ s # <<>>
<1>1. PICK x \in Nat : x = s[1]
  OBVIOUS
<1>2. <<x>> \in Seq(Nat) /\ Len(<<x>>) = 1 /\ <<x>>[1] = x
  OBVIOUS
<1>3. s = <<x>>
  BY <1>1, <1>2, SeqEqual
<1>4. <<x>> # <<>> /\ Head(<<x>>) = x
  BY <1>2
<1>5. Tail(<<x>>) = <<>>
  OBVIOUS
<1> QED
  BY <1>1, <1>3, <1>4, <1>5

LEMMA WriteHeadKeeps == SoundUse /\ Inv /\ WriteHead => Inv'
<1> SUFFICES ASSUME SoundUse, Inv, WriteHead PROVE Inv'
  OBVIOUS
<1>1. /\ server = "respond" /\ server' = "body" /\ left' = BodyTo(served).pieces
      /\ UNCHANGED <<setup, asked, served, reply, reader>>
      /\ UNCHANGED <<table, autoHead, reading, part, got>>
  <2>1. server = "respond"
    BY DEF WriteHead
  <2>2. SentBody(reply, Current.method) = BodyTo(served)
    BY <2>1, Writes
  <2> QED
    BY <2>1, <2>2 DEF WriteHead, setup, reader
<1>2. served \in Nat /\ served >= 1 /\ served \in DOMAIN asked /\ HeadTo(served) \in Heads
  BY <1>1, Writes
<1>3. PICK x \in Item : x = [kind |-> "head", n |-> 0, head |-> HeadTo(served)]
  BY <1>2 DEF Item
<1>4. line' = Append(line, x)
  BY <1>1, <1>3, Writes DEF WriteHead, Put
<1>5. PICK n \in Nat : n + 1 = served
  <2>1. served - 1 \in Nat /\ (served - 1) + 1 = served
    BY <1>2
  <2> QED
    BY <2>1
<1>6. PICK f : f = FrameOf(served)
  OBVIOUS
<1>7. PICK b : b = BodyTo(served).pieces
  OBVIOUS
<1>8. /\ b \in Seq(Nat)
      /\ \/ BodyTo(served).kind = "empty" /\ b = <<>> /\ f = Nothing
         \/ BodyTo(served).kind = "full" /\ Len(b) = 1 /\ f = [by |-> "length", n |-> b[1]]
         \/ BodyTo(served).kind = "stream" /\ f = [by |-> "chunks", n |-> 0]
  BY <1>2, <1>6, <1>7, Bodies DEF Inv
<1>9. PICK next : next = IF f = Nothing THEN At("head", 0, served) ELSE At(f.by, f.n, n)
  OBVIOUS
<1>10. next = IF BodyTo(served).kind = "stream" THEN At("chunks", 0, n)
              ELSE IF b = <<>> \/ b = <<0>> THEN At("head", 0, served)
              ELSE At("length", b[1], n)
  <2>1. CASE BodyTo(served).kind = "empty"
    BY <1>8, <1>9, <2>1
  <2>2. CASE BodyTo(served).kind = "full"
    <3>1. b = <<b[1]>> /\ b[1] \in Nat /\ b # <<>>
      BY <1>8, <2>2, OnePiece
    <3>2. f = [by |-> "length", n |-> b[1]]
      BY <1>8, <2>2
    <3>3. f = Nothing <=> b[1] = 0
      BY <3>2 DEF Nothing
    <3>4. b = <<0>> <=> b[1] = 0
      BY <3>1
    <3> QED
      BY <1>9, <2>2, <3>1, <3>2, <3>3, <3>4
  <2>3. CASE BodyTo(served).kind = "stream"
    <3>1. f.by = "chunks" /\ f.n = 0 /\ f # Nothing
      BY <1>8, <2>3 DEF Nothing
    <3> QED
      BY <1>9, <2>3, <3>1
  <2> QED
    BY <1>8, <2>1, <2>2, <2>3
<1>11. next \in Place /\ Within(next)
  <2>1. b # <<>> => b[1] \in Nat
    BY <1>8
  <2>2. f.by = "length" => SizeOf(served) = f.n /\ ~Fails(served)
    BY <1>2, <1>6, Sizes DEF Inv
  <2>3. next.by = "length" => f.by = "length" /\ next.n = f.n /\ next.done = n /\ next.bytes = 0
                              /\ f.n \in Nat
    BY <1>8, <1>9, <2>1 DEF At, Amid
  <2>4. next \in Place /\ next.done <= served
        /\ (next.by \in {"length", "chunks"} => next.done < served)
    BY <1>2, <1>5, <1>10, <2>1 DEF At, Amid, Place
  <2> QED
    BY <1>5, <2>2, <2>3, <2>4 DEF Within
<1>12. ASSUME NEW s, Expected(s)
       PROVE  Fits(s, x) /\ next = After(s, x)
  <2>1. s = At("head", 0, n)
    <3>1. served - 1 = n
      BY <1>5
    <3> QED
      BY <1>1, <1>12, <3>1 DEF Expected
  <2>2. s.by = "head" /\ s.done = n /\ s.done + 1 = served /\ s.done < served
    BY <1>5, <2>1 DEF At, Amid
  <2>3. Fits(s, x)
    BY <1>3, <2>2 DEF Fits
  <2> QED
    BY <1>3, <1>6, <1>9, <2>2, <2>3 DEF After, Onward
<1>13. BodyTo(served)' = BodyTo(served) /\ AnswerTo(served)' = AnswerTo(served)
  BY <1>1, SameBody
<1>14. Expected(next)'
  <2>1. served' - 1 = n /\ left' = b /\ served' = served
    BY <1>1, <1>5, <1>7
  <2>2. Gone' = 0
    BY <1>7, <1>8, <1>13, <2>1, AtFirst DEF Gone
  <2> QED
    BY <1>1, <1>10, <1>13, <2>1, <2>2 DEF Expected, At
<1>15. Underway' /\ line' \in Seq(Item)
  BY <1>1, <1>4, <1>11, <1>12, <1>14, Appended
<1>16. LoopInv'
  <2>1. IsRest(b, b)
    BY <1>8, AtFirst
  <2> QED
    BY <1>1, <1>2, <1>7, <1>13, <2>1, Writes DEF LoopInv
<1> QED
  BY <1>1, <1>7, <1>8, <1>15, <1>16, WriteKeeps

LEMMA BreakOffKeeps == SoundUse /\ Inv /\ BreakOff => Inv'
<1> SUFFICES ASSUME SoundUse, Inv, BreakOff PROVE Inv'
  OBVIOUS
<1>1. /\ server = "body" /\ server' = "closed" /\ BodyTo(served).kind = "stream"
      /\ Fails(served)
      /\ UNCHANGED <<setup, asked, served, reply, left, reader>>
      /\ UNCHANGED <<table, autoHead, reading, part, got>>
  BY Writes DEF BreakOff, StreamFails, Streams, Fails, setup, reader
<1>2. PICK x \in Item : x = [kind |-> "fin", n |-> 0, head |-> NoHead]
  BY FinIsItem
<1>3. line' = Append(line, x)
  BY <1>2 DEF BreakOff, Put
<1>4. PICK next : next = At("ended", 0, served)
  OBVIOUS
<1>5. served \in Nat /\ served >= 1
  BY <1>1, Writes
<1>6. next \in Place /\ Within(next)
  BY <1>4, <1>5 DEF At, Amid, Place, Within
<1>7. ASSUME NEW s, Expected(s)
      PROVE  Fits(s, x) /\ next = After(s, x)
  <2>1. s = Amid("chunks", 0, served - 1, Gone)
    BY <1>1, <1>7 DEF Expected
  <2>2. s.by = "chunks" /\ s.done + 1 = served
    BY <1>5, <2>1 DEF Amid
  <2> QED
    BY <1>1, <1>2, <1>4, <2>2 DEF Fits, After
<1>8. Expected(next)'
  BY <1>1, <1>4 DEF Expected, At, Amid
<1>9. Underway' /\ line' \in Seq(Item)
  BY <1>1, <1>3, <1>6, <1>7, <1>8, Appended
<1>10. LoopInv'
  BY <1>1 DEF LoopInv
<1> QED
  BY <1>1, <1>9, <1>10, WriteKeeps DEF Inv, TypeOK

\* What is left of a body that is not a stream.
LEMMA LeftOfFull ==
    ASSUME SoundUse, Inv, server = "body", left # <<>>, BodyTo(served).kind # "stream"
    PROVE  left = <<left[1]>> /\ left[1] \in Nat /\ Head(left) = left[1] /\ Tail(left) = <<>>
<1>1. left = BodyTo(served).pieces
  BY DEF Inv, LoopInv
<1>2. served \in DOMAIN asked
  BY Writes
<1>3. left \in Seq(Nat) /\ Len(left) = 1
  BY <1>1, <1>2, Bodies DEF Inv
<1> QED
  BY <1>3, OnePiece

LEMMA WritePieceKeeps == SoundUse /\ Inv /\ WritePiece => Inv'
<1> SUFFICES ASSUME SoundUse, Inv, WritePiece PROVE Inv'
  OBVIOUS
<1>1. /\ server = "body" /\ left # <<>> /\ left' = Tail(left) /\ server' = "body"
      /\ UNCHANGED <<setup, asked, served, reply, reader>>
      /\ UNCHANGED <<table, autoHead, reading, part, got>>
  BY DEF WritePiece, setup, reader
<1>2. left \in Seq(Nat) /\ Head(left) \in Nat /\ left' \in Seq(Nat)
  <2>1. left \in Seq(Nat)
    BY DEF Inv, TypeOK
  <2> QED
    BY <1>1, <2>1, HeadTailProperties
<1>3. served \in Nat /\ served >= 1 /\ reply = AnswerTo(served)
  BY <1>1, Writes
<1>4. PICK n \in Nat : n + 1 = served
  <2>1. served - 1 \in Nat /\ (served - 1) + 1 = served
    BY <1>3
  <2> QED
    BY <2>1
<1>5. served - 1 = n /\ served' - 1 = n /\ served' = served
  BY <1>1, <1>4
<1>6. BodyTo(served)' = BodyTo(served) /\ AnswerTo(served)' = AnswerTo(served)
  BY <1>1, SameBody
<1>7. BodyTo(served).kind # "stream" =>
        left = <<left[1]>> /\ Head(left) = left[1] /\ left' = <<>>
  BY <1>1, LeftOfFull
<1>8. /\ Gone \in Nat /\ Gone' = Gone + Head(left)
      /\ IsRest(left', BodyTo(served).pieces)
  <2>1. PICK b : b = BodyTo(served).pieces
    OBVIOUS
  <2>2. b \in Seq(Nat)
    BY <1>1, <2>1, Writes, Bodies DEF Inv
  <2>3. IsRest(left, b)
    BY <1>1, <2>1 DEF Inv, LoopInv
  <2>4. /\ IsRest(Tail(left), b) /\ Upto(b)[Len(b) - Len(left)] \in Nat
        /\ Upto(b)[Len(b) - Len(Tail(left))] = Upto(b)[Len(b) - Len(left)] + Head(left)
    BY <1>1, <1>2, <2>2, <2>3, OnePieceOn
  <2>5. Gone = Upto(b)[Len(b) - Len(left)] /\ Gone' = Upto(b)[Len(b) - Len(Tail(left))]
    BY <1>1, <1>6, <2>1 DEF Gone
  <2> QED
    BY <1>1, <2>1, <2>4, <2>5
<1>9. LoopInv'
  BY <1>1, <1>3, <1>5, <1>6, <1>7, <1>8 DEF LoopInv
<1>10. \A s : Expected(s) => s = IF BodyTo(served).kind = "stream" THEN Amid("chunks", 0, n, Gone)
                               ELSE IF Head(left) = 0 THEN At("head", 0, served)
                               ELSE At("length", Head(left), n)
  <2> SUFFICES ASSUME NEW s, Expected(s)
               PROVE  s = IF BodyTo(served).kind = "stream" THEN Amid("chunks", 0, n, Gone)
                          ELSE IF Head(left) = 0 THEN At("head", 0, served)
                          ELSE At("length", Head(left), n)
    OBVIOUS
  <2>1. s = IF BodyTo(served).kind = "stream" THEN Amid("chunks", 0, n, Gone)
            ELSE IF left = <<>> \/ left = <<0>> THEN At("head", 0, served)
            ELSE At("length", left[1], n)
    BY <1>1, <1>5 DEF Expected
  <2>2. CASE BodyTo(served).kind = "stream"
    BY <2>1, <2>2
  <2>3. CASE BodyTo(served).kind # "stream"
    <3>1. left = <<0>> <=> Head(left) = 0
      BY <1>7, <2>3
    <3> QED
      BY <1>1, <1>7, <2>1, <2>3, <3>1
  <2> QED
    BY <2>2, <2>3
<1>11. PICK next : next = IF BodyTo(served).kind = "stream"
                         THEN Amid("chunks", 0, n, Gone')
                         ELSE At("head", 0, served)
  OBVIOUS
<1>12. Expected(next)'
  BY <1>1, <1>5, <1>6, <1>7, <1>11 DEF Expected
<1>13. CASE Head(left) = 0
  <2>1. line' = line
    BY <1>13 DEF WritePiece
  <2>2. PICK l : l = line
    OBVIOUS
  <2>3. PICK st : Path(st, l) /\ st[0] = Now /\ Expected(st[Len(l)])
    BY <2>2 DEF Inv, Underway
  <2>4. st[Len(l)] = next
    <3>1. Gone' = Gone
      BY <1>8, <1>13
    <3> QED
      BY <1>10, <1>11, <1>13, <2>3, <3>1
  <2>5. Expected(st[Len(l)])'
    BY <1>12, <2>4 DEF Expected
  <2>6. l \in Seq(Item)
    BY <2>2, Counts DEF Inv
  <2>7. Carried
    BY <1>1, NothingNew DEF Inv
  <2>8. Underway'
    BY <1>1, <2>1, <2>2, <2>3, <2>5, <2>6, <2>7, Arrives
  <2> QED
    BY <1>1, <1>2, <1>9, <2>1, <2>2, <2>6, <2>8, WriteKeeps
<1>14. CASE Head(left) # 0
  <2>1. PICK k \in {"bytes", "chunk"} :
          k = IF BodyTo(served).kind = "stream" THEN "chunk" ELSE "bytes"
    OBVIOUS
  <2>2. PICK x \in Item : x = [kind |-> k, n |-> Head(left), head |-> NoHead]
    BY <1>2, FinIsItem
  <2>3. line' = Append(line, x)
    BY <1>1, <1>14, <2>1, <2>2, Writes DEF WritePiece, Put, Streams
  <2>4. next \in Place /\ Within(next)
    <3>1. Gone' \in Nat
      BY <1>2, <1>8
    <3> QED
      BY <1>3, <1>4, <1>11, <3>1 DEF At, Amid, Place, Within
  <2>5. ASSUME NEW s, Expected(s)
        PROVE  Fits(s, x) /\ next = After(s, x)
    <3>1. CASE BodyTo(served).kind = "stream"
      <4>1. s = Amid("chunks", 0, n, Gone) /\ next = Amid("chunks", 0, n, Gone + Head(left))
        BY <1>8, <1>10, <1>11, <2>5, <3>1
      <4>2. x.kind = "chunk" /\ x.n # 0 /\ x.n = Head(left)
        BY <1>14, <2>1, <2>2, <3>1
      <4>3. s.by = "chunks" /\ s.n = 0 /\ s.done = n /\ s.bytes = Gone
        BY <4>1 DEF Amid
      <4> QED
        BY <4>1, <4>2, <4>3 DEF Fits, After
    <3>2. CASE BodyTo(served).kind # "stream"
      <4>1. s = At("length", Head(left), n) /\ next = At("head", 0, served)
        BY <1>10, <1>11, <1>14, <2>5, <3>2
      <4>2. s.by = "length" /\ s.n = Head(left) /\ s.done + 1 = served
        BY <1>4, <4>1 DEF At, Amid
      <4>3. x.kind = "bytes" /\ x.n = s.n /\ x.n \in 1 .. s.n
        BY <1>2, <1>14, <2>1, <2>2, <3>2, <4>2
      <4> QED
        BY <4>1, <4>2, <4>3 DEF Fits, After, Onward
    <3> QED
      BY <3>1, <3>2
  <2>6. Underway' /\ line' \in Seq(Item)
    BY <1>1, <1>12, <2>3, <2>4, <2>5, Appended
  <2> QED
    BY <1>1, <1>2, <1>9, <2>6, WriteKeeps
<1> QED
  BY <1>13, <1>14

LEMMA FinishKeeps == SoundUse /\ Inv /\ Finish => Inv'
<1> SUFFICES ASSUME SoundUse, Inv, Finish PROVE Inv'
  OBVIOUS
<1>1. PICK fin \in Item : fin = [kind |-> "fin", n |-> 0, head |-> NoHead]
  BY FinIsItem
<1>2. PICK end \in Item : end = [kind |-> "chunk", n |-> 0, head |-> NoHead]
  BY FinIsItem
<1>3. PICK l : l = IF BodyTo(served).kind = "stream" THEN Append(line, end) ELSE line
  OBVIOUS
<1>4. /\ server = "body" /\ left = <<>>
      /\ UNCHANGED <<setup, asked, served, reply, left, reader>>
      /\ UNCHANGED <<table, autoHead, reading, part, got>>
  BY DEF Finish, setup, reader
<1>5. \/ Directive /\ line' = Append(l, fin) /\ server' = "closed"
      \/ line' = l /\ server' = "ready"
  <2>1. Streams <=> BodyTo(served).kind = "stream"
    BY <1>4, Writes DEF Streams
  <2> QED
    BY <1>1, <1>2, <1>3, <2>1 DEF Finish, Put
<1>6. served \in Nat /\ served >= 1
  BY <1>4, Writes
<1>7. line \in Seq(Item) /\ l \in Seq(Item)
  BY <1>3, Counts DEF Inv
<1>8. Carried
  BY <1>4, NothingNew DEF Inv
<1>9. PICK st : Path(st, line) /\ st[0] = Now /\ Expected(st[Len(line)])
  BY DEF Inv, Underway
<1>10. PICK next : next = At("head", 0, served)
  OBVIOUS
<1>11. next \in Place /\ Within(next) /\ next.by = "head" /\ next.done = served
  BY <1>6, <1>10 DEF At, Amid, Place, Within
<1>12. PICK st2 : Path(st2, l) /\ st2[0] = Now /\ st2[Len(l)] = next
  <2>1. CASE BodyTo(served).kind = "stream"
    <3>1. PICK s : s = st[Len(line)]
      OBVIOUS
    <3>2. s = Amid("chunks", 0, served - 1, Gone)
      BY <1>4, <1>9, <2>1, <3>1 DEF Expected
    <3>3. s.by = "chunks" /\ s.done + 1 = served /\ s.bytes = Gone
      BY <1>6, <3>2 DEF Amid
    <3>4. Gone = SizeOf(served)
      <4>1. BodyTo(served).pieces \in Seq(Nat) /\ SizeOf(served) =
              Upto(BodyTo(served).pieces)[Len(BodyTo(served).pieces)]
        BY <1>4, Writes, Bodies, Sizes DEF Inv
      <4>2. Len(BodyTo(served).pieces) - Len(left) = Len(BodyTo(served).pieces)
        BY <1>4, <4>1
      <4> QED
        BY <4>1, <4>2 DEF Gone
    <3>5. ~Fails(served)
      BY <1>4, <2>1, Writes DEF Finish, StreamFails, Streams, Fails
    <3>6. Fits(s, end) /\ next = After(s, end)
      BY <1>2, <1>10, <3>3, <3>4, <3>5 DEF Fits, After, Onward
    <3> QED
      BY <1>3, <1>7, <1>9, <1>11, <2>1, <3>1, <3>6, LongerPath
  <2>2. CASE BodyTo(served).kind # "stream"
    <3>1. st[Len(line)] = next
      BY <1>4, <1>9, <1>10, <2>2 DEF Expected
    <3> QED
      BY <1>3, <1>9, <2>2, <3>1
  <2> QED
    BY <2>1, <2>2
<1>13. CASE Directive /\ line' = Append(l, fin) /\ server' = "closed"
  <2>1. EndIsDue(served)
    BY <1>4, <1>6, <1>13, Writes DEF EndIsDue
  <2>2. PICK last : last = At("ended", 0, served)
    OBVIOUS
  <2>3. last \in Place /\ Within(last)
    BY <1>6, <2>2 DEF At, Amid, Place, Within
  <2>4. Fits(next, fin) /\ last = After(next, fin)
    BY <1>1, <1>11, <2>1, <2>2 DEF Fits, After
  <2>5. PICK l2 : l2 = Append(l, fin)
    OBVIOUS
  <2>6. PICK st3 : Path(st3, l2) /\ st3[0] = Now /\ st3[Len(l2)] = last
    BY <1>7, <1>12, <2>3, <2>4, <2>5, LongerPath
  <2>7. Expected(st3[Len(l2)])'
    BY <1>13, <2>2, <2>6 DEF Expected, At, Amid
  <2>8. l2 \in Seq(Item)
    BY <1>7, <2>5
  <2>9. Underway'
    BY <1>4, <1>8, <1>13, <2>5, <2>6, <2>7, <2>8, Arrives
  <2>10. LoopInv'
    BY <1>13 DEF LoopInv
  <2> QED
    BY <1>4, <1>13, <2>5, <2>8, <2>9, <2>10, WriteKeeps DEF Inv, TypeOK
<1>14. CASE line' = l /\ server' = "ready"
  <2>1. Expected(st2[Len(l)])'
    BY <1>4, <1>10, <1>12, <1>14 DEF Expected
  <2>2. Underway'
    BY <1>4, <1>7, <1>8, <1>12, <1>14, <2>1, Arrives
  <2>3. LoopInv'
    BY <1>14 DEF LoopInv
  <2> QED
    BY <1>4, <1>7, <1>14, <2>2, <2>3, WriteKeeps DEF Inv, TypeOK
<1> QED
  BY <1>5, <1>13, <1>14

-----------------------------------------------------------------------------
\* The client.

LEMMA FirstItem ==
    ASSUME Inv, line # <<>>
    PROVE  /\ Fits(Now, Head(line)) /\ Head(line) \in Item /\ Tail(line) \in Seq(Item)
           /\ Now \in Place /\ Now.by = reading.by /\ Now.n = reading.n /\ Now.done = Len(got)
           /\ Within(Now) /\ Now.bytes = part.bytes
           /\ reading.by \in {"head", "length", "chunks", "ended"} /\ reading.n \in Nat
           /\ reading = [by |-> reading.by, n |-> reading.n]
<1>1. PICK st : Path(st, line) /\ st[0] = Now
  BY DEF Inv, Underway
<1>2. line \in Seq(Item) /\ Len(line) \in Nat
  BY Counts DEF Inv
<1>3. Fits(Now, Head(line)) /\ Now \in Place /\ Within(Now)
  <2>1. 0 \in 0 .. Len(line)
    BY <1>2
  <2> QED
    BY <1>1, <1>2, <2>1, ShorterPath DEF Path
<1>4. /\ Now.by = reading.by /\ Now.n = reading.n /\ Now.done = Len(got)
      /\ Now.bytes = part.bytes
      /\ reading.by \in {"head", "length", "chunks", "ended"} /\ reading.n \in Nat
  BY <1>3 DEF Now, Amid, Place
<1>5. Head(line) \in Item /\ Tail(line) \in Seq(Item)
  BY <1>2, HeadTailProperties
<1>6. reading = [by |-> reading.by, n |-> reading.n]
  BY DEF Inv, TypeOK, Reading
<1> QED
  BY <1>3, <1>4, <1>5, <1>6

\* A step of the client that takes it where the first item leads.
LEMMA ReadsOn ==
    ASSUME Inv, line # <<>>, line' = Tail(line), UNCHANGED <<setup, asked, loop>>,
           Now' = After(Now, Head(line)), reading' \in Reading, part' \in Reply,
           got' \in Seq(Reply), Len(got') <= served, ReadInv'
    PROVE  Inv'
<1>1. UNCHANGED <<table, autoHead, calls, built, asked, served, server, reply, left>>
  BY DEF setup, loop
<1>2. line \in Seq(Item) /\ Tail(line) \in Seq(Item)
  BY FirstItem, Counts DEF Inv
<1>3. TypeOK'
  BY <1>1, <1>2 DEF Inv, TypeOK
<1>4. RouteInv'
  BY <1>1 DEF Inv, RouteInv, Latest, Named
<1>5. SetupInv'
  <2>1. built
    BY DEF Inv, SetupInv
  <2> QED
    BY <1>1, <2>1 DEF SetupInv
<1>6. BodyTo(served)' = BodyTo(served) /\ AnswerTo(served)' = AnswerTo(served) /\ Gone' = Gone
  BY <1>1, SameBody
<1>7. LoopInv'
  BY <1>1, <1>6 DEF Inv, LoopInv
<1>8. Underway'
  <2>1. PICK st : Path(st, line) /\ st[0] = Now /\ Expected(st[Len(line)])
    BY DEF Inv, Underway
  <2>2. PICK l : l = Tail(line)
    OBVIOUS
  <2>3. PICK st2 : /\ Path(st2, l) /\ st2[0] = After(Now, Head(line))
                   /\ st2[Len(l)] = st[Len(line)]
    BY <1>2, <2>1, <2>2, ShorterPath
  <2>4. l \in Seq(Item) /\ Carried
    BY <1>1, <1>2, <2>2, NothingNew DEF Inv
  <2>5. Path(st2, l)'
    BY <2>3, <2>4, SamePath
  <2>6. Path(st2, line)'
    BY <2>2, <2>5 DEF Path
  <2>7. Expected(st2[Len(l)])'
    BY <1>1, <1>6, <2>1, <2>3 DEF Expected
  <2>8. Expected(st2[Len(line)])'
    BY <2>2, <2>7 DEF Expected
  <2> QED
    BY <2>3, <2>6, <2>8 DEF Underway
<1> QED
  BY <1>3, <1>4, <1>5, <1>7, <1>8 DEF Inv

\* One more reply.
LEMMA Delivered ==
    ASSUME Inv, UNCHANGED <<setup, asked, loop>>, NEW r \in Reply, got' = Append(got, r),
           Len(got) < served, NEW k, k = Len(got) + 1, r.head = HeadTo(k),
           FrameOf(k) = Nothing => r.bytes = 0, reading.by # "ended",
           IF r.whole THEN r.bytes = SizeOf(k) /\ ~Fails(k)
                      ELSE Fails(k) /\ reading'.by = "ended"
    PROVE  /\ GotInv' /\ got' \in Seq(Reply) /\ Len(got') = Len(got) + 1
           /\ Len(got') <= served /\ got' # <<>> /\ got'[Len(got')] = r
<1>1. got \in Seq(Reply)
  BY DEF Inv, TypeOK
<1>2. k \in Nat /\ served \in Nat /\ DOMAIN got = 1 .. Len(got)
  BY Counts DEF Inv
<1>3. /\ got' \in Seq(Reply) /\ Len(got') = k /\ DOMAIN got' = 1 .. k /\ got'[k] = r
      /\ \A j \in 1 .. Len(got) : got'[j] = got[j]
  BY <1>1
<1>4. Carried
  BY NothingNew DEF Inv, setup, loop
<1>5. ASSUME NEW j \in 1 .. k
      PROVE  /\ got'[j].head = HeadTo(j)' /\ (FrameOf(j)' = Nothing => got'[j].bytes = 0)
             /\ IF got'[j].whole THEN got'[j].bytes = SizeOf(j)' /\ ~Fails(j)'
                ELSE Fails(j)' /\ j = k /\ reading'.by = "ended"
  <2>1. j \in 1 .. Len(asked)
    BY <1>2, Counts DEF Inv
  <2>2. /\ HeadTo(j)' = HeadTo(j) /\ FrameOf(j)' = FrameOf(j)
        /\ SizeOf(j)' = SizeOf(j) /\ Fails(j)' = Fails(j)
    BY <1>4, <2>1, SameAnswers
  <2>3. CASE j = k
    BY <1>3, <2>2, <2>3
  <2>4. CASE j # k
    <3>1. j \in DOMAIN got /\ got'[j] = got[j]
      BY <1>2, <1>3, <2>4
    <3> QED
      BY <2>2, <3>1 DEF Inv, ReadInv, GotInv
  <2> QED
    BY <2>3, <2>4
<1>6. GotInv'
  BY <1>3, <1>5 DEF GotInv
<1>7. Len(got') <= served /\ got' # <<>>
  BY <1>2, <1>3
<1> QED
  BY <1>3, <1>6, <1>7

\* The reply that is being read goes on.
LEMMA GoesOn ==
    ASSUME Inv, UNCHANGED <<setup, asked, loop>>, got' = got,
           reading.by # "ended", reading'.by \in {"length", "chunks"}, Len(got) < served,
           NEW k, k = Len(got) + 1, part'.head = HeadTo(k), FrameOf(k) # Nothing
    PROVE  ReadInv'
<1>1. UNCHANGED <<table, autoHead, asked, served>>
  BY DEF setup, loop
<1>2. Carried
  BY <1>1, NothingNew DEF Inv
<1>3. GotInv'
  <2>1. \A j \in DOMAIN got : /\ HeadTo(j)' = HeadTo(j) /\ FrameOf(j)' = FrameOf(j)
                              /\ SizeOf(j)' = SizeOf(j) /\ Fails(j)' = Fails(j)
    BY <1>2, SameReplies DEF Inv
  <2> QED
    BY <2>1 DEF Inv, ReadInv, GotInv
<1>4. PartInv'
  <2>1. k \in 1 .. Len(asked)
    BY Counts DEF Inv
  <2>2. HeadTo(k)' = HeadTo(k) /\ FrameOf(k)' = FrameOf(k)
    BY <1>2, <2>1, SameAnswers
  <2> QED
    BY <1>1, <2>2 DEF PartInv
<1>5. EndInv'
  BY DEF EndInv
<1> QED
  BY <1>3, <1>4, <1>5 DEF ReadInv

LEMMA WholeParts ==
    ASSUME NEW r \in Reply, NEW whole \in BOOLEAN
    PROVE  /\ [r EXCEPT !.whole = whole] \in Reply
           /\ [r EXCEPT !.whole = whole].head = r.head
           /\ [r EXCEPT !.whole = whole].bytes = r.bytes
           /\ [r EXCEPT !.whole = whole].whole = whole
BY DEF Reply

\* The client has r of the current reply, and the first item leads where f says.
LEMMA ProceedKeeps ==
    ASSUME Inv, line # <<>>, line' = Tail(line), UNCHANGED <<setup, asked, loop>>,
           NEW r \in Reply, NEW f \in [by : {"length", "chunks"}, n : Nat], Proceed(r, f),
           Len(got) < served, NEW k, k = Len(got) + 1, r.head = HeadTo(k),
           FrameOf(k) = Nothing => r.bytes = 0 /\ f = Nothing,
           f = Nothing => r.bytes = SizeOf(k) /\ ~Fails(k), reading.by # "ended",
           After(Now, Head(line)) = IF f = Nothing THEN Onward(Now)
                                    ELSE Amid(f.by, f.n, Len(got), r.bytes)
    PROVE  Inv'
<1>1. Len(got) \in Nat /\ Now.done = Len(got)
  BY Counts DEF Inv, Now, Amid
<1>2. CASE f = Nothing
  <2>1. PICK w \in BOOLEAN : w = TRUE
    OBVIOUS
  <2>2. PICK whole \in Reply : /\ whole = [r EXCEPT !.whole = w]
                               /\ whole.head = r.head /\ whole.bytes = r.bytes
                               /\ whole.whole = w
    BY WholeParts
  <2>3. got' = Append(got, whole) /\ reading' = AtHead /\ part' = NoPart
    BY <1>2, <2>1, <2>2 DEF Proceed, Deliver, Nothing
  <2>4. GotInv' /\ got' \in Seq(Reply) /\ Len(got') = Len(got) + 1 /\ Len(got') <= served
    BY <1>2, <2>1, <2>2, <2>3, Delivered
  <2>5. reading' \in Reading /\ reading'.by = "head" /\ reading'.n = 0
    BY <2>3 DEF AtHead, Reading
  <2>6. part' \in Reply
    BY <2>3, HeadOfNone DEF NoPart, Reply
  <2>7. ReadInv'
    BY <2>4, <2>5 DEF ReadInv, PartInv, EndInv
  <2>8. Now' = After(Now, Head(line))
    <3>1. part'.bytes = 0
      BY <2>3 DEF NoPart
    <3> QED
      BY <1>1, <1>2, <2>4, <2>5, <3>1 DEF Now, Onward, At
  <2> QED
    BY <2>4, <2>5, <2>6, <2>7, <2>8, ReadsOn
<1>3. CASE f # Nothing
  <2>1. got' = got /\ reading' = f /\ part' = r
    BY <1>3 DEF Proceed, Nothing
  <2>2. reading' \in Reading /\ got' \in Seq(Reply) /\ Len(got') <= served
    BY <1>1, <2>1 DEF Reading, Inv, TypeOK
  <2>3. ReadInv'
    BY <1>3, <2>1, GoesOn
  <2>4. Now' = After(Now, Head(line))
    BY <1>3, <2>1 DEF Now
  <2> QED
    BY <2>1, <2>2, <2>3, <2>4, ReadsOn
<1> QED
  BY <1>2, <1>3

LEMMA TakeHeadKeeps == SoundUse /\ Inv /\ TakeHead => Inv'
<1> SUFFICES ASSUME SoundUse, Inv, TakeHead PROVE Inv'
  OBVIOUS
<1>1. /\ reading.by = "head" /\ line # <<>> /\ NextItem.kind = "head" /\ line' = Tail(line)
      /\ UNCHANGED <<setup, asked, loop>>
      /\ Proceed([head |-> NextItem.head, bytes |-> 0, whole |-> FALSE],
                 Framing(NextItem.head, asked[Len(got) + 1].method, asked[Len(got) + 1].version))
  BY DEF TakeHead, Take
<1>2. PICK x \in Item : x = Head(line) /\ NextItem = x
  BY <1>1, FirstItem DEF NextItem
<1>3. PICK k : k = Len(got) + 1
  OBVIOUS
<1>4. Fits(Now, x) /\ Now.by = "head" /\ Now.done = Len(got)
  BY <1>1, <1>2, FirstItem
<1>5. Len(got) < served /\ x.head = HeadTo(k) /\ x.kind = "head"
  BY <1>1, <1>2, <1>3, <1>4 DEF Fits
<1>6. k \in DOMAIN asked
  BY <1>3, <1>5, Counts DEF Inv
<1>7. PICK f : f = FrameOf(k)
  OBVIOUS
<1>8. f \in [by : {"length", "chunks"}, n : Nat]
  <2>1. /\ BodyTo(k).pieces \in Seq(Nat)
        /\ \/ f = [by |-> "length", n |-> 0]
           \/ Len(BodyTo(k).pieces) = 1 /\ f = [by |-> "length", n |-> BodyTo(k).pieces[1]]
           \/ f = [by |-> "chunks", n |-> 0]
    BY <1>6, <1>7, Bodies DEF Inv, Nothing
  <2>2. Len(BodyTo(k).pieces) = 1 => BodyTo(k).pieces[1] \in Nat
    BY <2>1
  <2> QED
    BY <2>1, <2>2
<1>9. PICK r : r = [head |-> HeadTo(k), bytes |-> 0, whole |-> FALSE]
  OBVIOUS
<1>10. r \in Reply /\ r.head = HeadTo(k) /\ r.bytes = 0
  BY <1>6, <1>9, HeadIsHead DEF Inv, Reply
<1>11. Proceed(r, f)
  BY <1>1, <1>2, <1>3, <1>5, <1>7, <1>9 DEF FrameOf
<1>12. After(Now, x) = IF f = Nothing THEN Onward(Now) ELSE Amid(f.by, f.n, Len(got), r.bytes)
  BY <1>3, <1>4, <1>5, <1>7, <1>10 DEF After, At
<1>13. f = Nothing => r.bytes = SizeOf(k) /\ ~Fails(k)
  <2>1. f.by = "length" => SizeOf(k) = f.n /\ ~Fails(k)
    BY <1>6, <1>7, Sizes DEF Inv
  <2> QED
    BY <1>10, <2>1 DEF Nothing
<1> QED
  BY <1>1, <1>2, <1>3, <1>5, <1>7, <1>8, <1>10, <1>11, <1>12, <1>13, ProceedKeeps

LEMMA CountedParts ==
    ASSUME NEW r \in Reply, NEW n \in Nat
    PROVE  /\ [r EXCEPT !.bytes = @ + n] \in Reply /\ r.bytes \in Nat
           /\ [r EXCEPT !.bytes = @ + n].head = r.head
           /\ [r EXCEPT !.bytes = @ + n].bytes = r.bytes + n
BY DEF Reply

LEMMA TakeBytesKeeps == Inv /\ TakeBytes => Inv'
<1> SUFFICES ASSUME Inv, TakeBytes PROVE Inv'
  OBVIOUS
<1>1. /\ reading.by = "length" /\ line # <<>> /\ NextItem.kind = "bytes" /\ line' = Tail(line)
      /\ UNCHANGED <<setup, asked, loop>>
      /\ Proceed([part EXCEPT !.bytes = @ + NextItem.n],
                 [reading EXCEPT !.n = @ - NextItem.n])
  BY DEF TakeBytes, Take
<1>2. PICK x \in Item : x = Head(line) /\ NextItem = x
  BY <1>1, FirstItem DEF NextItem
<1>3. PICK k : k = Len(got) + 1
  OBVIOUS
<1>4. /\ Fits(Now, x) /\ Now.by = "length" /\ Now.n = reading.n /\ Now.done = Len(got)
      /\ reading.n \in Nat /\ reading = [by |-> "length", n |-> reading.n]
      /\ Now.bytes = part.bytes /\ Within(Now)
  BY <1>1, <1>2, FirstItem
<1>5. x.kind = "bytes" /\ x.n \in 1 .. reading.n
  BY <1>1, <1>2, <1>4 DEF Fits
<1>6. PICK f : f = [by |-> "length", n |-> reading.n - x.n]
  OBVIOUS
<1>7. f \in [by : {"length", "chunks"}, n : Nat] /\ f = [reading EXCEPT !.n = @ - x.n]
  <2>1. reading.n - x.n \in Nat
    BY <1>4, <1>5
  <2>2. [reading EXCEPT !.n = @ - x.n] = [by |-> "length", n |-> reading.n - x.n]
    BY <1>4
  <2> QED
    BY <1>6, <2>1, <2>2
<1>8. PICK r \in Reply : /\ r = [part EXCEPT !.bytes = @ + x.n] /\ r.head = part.head
                         /\ r.bytes = part.bytes + x.n /\ part.bytes \in Nat
  <2>1. part \in Reply /\ x.n \in Nat
    BY <1>5 DEF Inv, TypeOK
  <2> QED
    BY <2>1, CountedParts
<1>9. Len(got) < served /\ r.head = HeadTo(k) /\ FrameOf(k) # Nothing
  BY <1>1, <1>3, <1>8 DEF Inv, ReadInv, PartInv
<1>10. Proceed(r, f)
  BY <1>1, <1>2, <1>7, <1>8
<1>11. f = Nothing <=> x.n = reading.n
  BY <1>4, <1>5, <1>6 DEF Nothing
<1>12. After(Now, x) = IF f = Nothing THEN Onward(Now) ELSE Amid(f.by, f.n, Len(got), r.bytes)
  BY <1>4, <1>5, <1>6, <1>8, <1>11 DEF After
<1>13. f = Nothing => r.bytes = SizeOf(k) /\ ~Fails(k)
  <2>1. part.bytes + reading.n = SizeOf(k) /\ ~Fails(k)
    BY <1>3, <1>4 DEF Within
  <2> QED
    BY <1>8, <1>11, <2>1
<1> QED
  BY <1>1, <1>2, <1>3, <1>7, <1>9, <1>10, <1>12, <1>13, ProceedKeeps

LEMMA TakeChunkKeeps == Inv /\ TakeChunk => Inv'
<1> SUFFICES ASSUME Inv, TakeChunk PROVE Inv'
  OBVIOUS
<1>1. /\ reading.by = "chunks" /\ line # <<>> /\ NextItem.kind = "chunk" /\ line' = Tail(line)
      /\ UNCHANGED <<setup, asked, loop>>
      /\ Proceed([part EXCEPT !.bytes = @ + NextItem.n],
                 IF NextItem.n = 0 THEN [by |-> "length", n |-> 0] ELSE reading)
  BY DEF TakeChunk, Take
<1>2. PICK x \in Item : x = Head(line) /\ NextItem = x
  BY <1>1, FirstItem DEF NextItem
<1>3. PICK k : k = Len(got) + 1
  OBVIOUS
<1>4. /\ Fits(Now, x) /\ Now.bytes = part.bytes
      /\ Now \in Place /\ Now.by = "chunks" /\ Now.n = reading.n /\ Now.done = Len(got)
      /\ reading.n \in Nat /\ reading = [by |-> "chunks", n |-> reading.n]
  BY <1>1, <1>2, FirstItem
<1>5. PICK f : f = IF x.n = 0 THEN Nothing ELSE reading
  OBVIOUS
<1>6. /\ f \in [by : {"length", "chunks"}, n : Nat]
      /\ f = Nothing <=> x.n = 0
      /\ x.n # 0 => f.by = "chunks" /\ f.n = reading.n
  BY <1>4, <1>5 DEF Nothing
<1>7. PICK r \in Reply : /\ r = [part EXCEPT !.bytes = @ + x.n] /\ r.head = part.head
                         /\ r.bytes = part.bytes + x.n /\ part.bytes \in Nat
  <2>1. part \in Reply /\ x.n \in Nat
    BY DEF Inv, TypeOK, Item
  <2> QED
    BY <2>1, CountedParts
<1>8. Len(got) < served /\ r.head = HeadTo(k) /\ FrameOf(k) # Nothing
  BY <1>1, <1>3, <1>7 DEF Inv, ReadInv, PartInv
<1>9. Proceed(r, f)
  BY <1>1, <1>2, <1>5, <1>7 DEF Nothing
<1>10. After(Now, x) = IF f = Nothing THEN Onward(Now) ELSE Amid(f.by, f.n, Len(got), r.bytes)
  BY <1>1, <1>2, <1>4, <1>6, <1>7 DEF After
<1>11. f = Nothing => r.bytes = SizeOf(k) /\ ~Fails(k)
  <2>1. x.n = 0 => part.bytes = SizeOf(k) /\ ~Fails(k)
    BY <1>1, <1>2, <1>3, <1>4 DEF Fits
  <2> QED
    BY <1>6, <1>7, <2>1
<1> QED
  BY <1>1, <1>2, <1>3, <1>6, <1>8, <1>9, <1>10, <1>11, ProceedKeeps

LEMMA TakeFinKeeps == Inv /\ TakeFin => Inv'
<1> SUFFICES ASSUME Inv, TakeFin PROVE Inv'
  OBVIOUS
<1>1. /\ line # <<>> /\ NextItem.kind = "fin" /\ line' = Tail(line)
      /\ UNCHANGED <<setup, asked, loop>>
      /\ reading' = [by |-> "ended", n |-> 0] /\ part' = NoPart
      /\ IF reading.by = "head" THEN got' = got ELSE Deliver(reading.by = "close", part)
  BY DEF TakeFin, Take
<1>2. PICK x \in Item : x = Head(line) /\ NextItem = x
  BY <1>1, FirstItem DEF NextItem
<1>3. /\ Fits(Now, x) /\ Now.by = reading.by /\ Now.done = Len(got) /\ x.kind = "fin"
  BY <1>1, <1>2, FirstItem
<1>4. reading' \in Reading /\ reading'.by = "ended" /\ reading'.n = 0 /\ part' \in Reply
      /\ part'.bytes = 0
  BY <1>1, HeadOfNone DEF Reading, NoPart, Reply
<1>5. Carried
  BY <1>1, NothingNew DEF Inv, setup, loop
<1>6. CASE reading.by = "head"
  <2>1. got' = got /\ EndIsDue(Len(got))
    BY <1>1, <1>3, <1>6 DEF Fits
  <2>2. got' \in Seq(Reply) /\ Len(got') <= served
    BY <2>1 DEF Inv, TypeOK
  <2>3. GotInv'
    <3>1. \A j \in DOMAIN got : /\ HeadTo(j)' = HeadTo(j) /\ FrameOf(j)' = FrameOf(j)
                                /\ SizeOf(j)' = SizeOf(j) /\ Fails(j)' = Fails(j)
      BY <1>5, SameReplies DEF Inv
    <3> QED
      BY <1>4, <2>1, <3>1 DEF Inv, ReadInv, GotInv
  <2>4. EndInv'
    <3>1. PICK n \in Nat : n = Len(got) /\ n <= served
      BY Counts DEF Inv
    <3>2. EndIsDue(n)'
      BY <1>5, <2>1, <3>1, StillDue
    <3> QED
      BY <2>1, <3>1, <3>2 DEF EndInv
  <2>5. ReadInv'
    BY <1>4, <2>3, <2>4 DEF ReadInv, PartInv
  <2>6. Now' = After(Now, x)
    BY <1>3, <1>4, <1>6, <2>1 DEF Now, After, At
  <2> QED
    BY <1>1, <1>2, <1>4, <2>2, <2>5, <2>6, ReadsOn
<1>7. CASE reading.by # "head"
  <2>1. reading.by = "chunks"
    BY <1>3, <1>7 DEF Fits
  <2>2. PICK cut \in BOOLEAN : cut = FALSE
    OBVIOUS
  <2>3. part \in Reply
    BY DEF Inv, TypeOK
  <2>4. PICK r \in Reply : r = [part EXCEPT !.whole = cut] /\ r.head = part.head /\ ~r.whole
    BY <2>2, <2>3, WholeParts
  <2>5. got' = Append(got, r)
    BY <1>1, <1>7, <2>1, <2>2, <2>4 DEF Deliver
  <2>6. PICK k : k = Len(got) + 1
    OBVIOUS
  <2>7. Len(got) < served /\ r.head = HeadTo(k) /\ FrameOf(k) # Nothing /\ Fails(k)
    <3>1. Fails(k)
      BY <1>3, <2>1, <2>6 DEF Fits
    <3> QED
      BY <2>1, <2>4, <2>6, <3>1 DEF Inv, ReadInv, PartInv
  <2>8. /\ GotInv' /\ got' \in Seq(Reply) /\ Len(got') = Len(got) + 1
        /\ Len(got') <= served /\ got' # <<>> /\ got'[Len(got')] = r
    <3>1. IF r.whole THEN r.bytes = SizeOf(k) /\ ~Fails(k)
                     ELSE Fails(k) /\ reading'.by = "ended"
      BY <1>4, <2>4, <2>7
    <3>2. reading.by # "ended"
      BY <2>1
    <3> QED
      BY <1>1, <2>5, <2>6, <2>7, <3>1, <3>2, Delivered
  <2>9. ReadInv'
    BY <1>4, <2>4, <2>8 DEF ReadInv, PartInv, EndInv
  <2>10. Now' = After(Now, x)
    BY <1>3, <1>4, <1>7, <2>8 DEF Now, After, At
  <2> QED
    BY <1>1, <1>2, <1>4, <2>8, <2>9, <2>10, ReadsOn
<1> QED
  BY <1>6, <1>7

-----------------------------------------------------------------------------
\* The invariant holds, and what it implies.

LEMMA StutterKeeps == Inv /\ UNCHANGED vars => Inv'
<1> SUFFICES ASSUME Inv, UNCHANGED vars PROVE Inv'
  OBVIOUS
<1>1. UNCHANGED <<table, autoHead, calls, built, asked, served, server, reply, left, line,
                  reading, part, got>>
  BY DEF vars, setup, loop, reader
<1>2. TypeOK'
  BY <1>1 DEF Inv, TypeOK
<1>3. RouteInv'
  BY <1>1 DEF Inv, RouteInv, Latest, Named
<1>4. SetupInv'
  BY <1>1 DEF Inv, SetupInv
<1>5. Carried
  BY <1>1, NothingNew DEF Inv
<1>6. BodyTo(served)' = BodyTo(served) /\ AnswerTo(served)' = AnswerTo(served) /\ Gone' = Gone
  BY <1>1, SameBody
<1>7. LoopInv'
  BY <1>1, <1>6 DEF Inv, LoopInv
<1>8. ReadInv'
  BY <1>1, <1>5, ReadKept DEF Inv
<1>9. Underway'
  <2>1. PICK l : l = line
    OBVIOUS
  <2>2. PICK st : Path(st, l) /\ st[0] = Now /\ Expected(st[Len(l)])
    BY <2>1 DEF Inv, Underway
  <2>3. Expected(st[Len(l)])'
    BY <1>1, <1>6, <2>2 DEF Expected
  <2>4. l \in Seq(Item)
    BY <2>1, Counts DEF Inv
  <2> QED
    BY <1>1, <1>5, <2>1, <2>2, <2>3, <2>4, Arrives
<1> QED
  BY <1>2, <1>3, <1>4, <1>7, <1>8, <1>9 DEF Inv

LEMMA StepKeeps == SoundUse /\ Inv /\ [Next]_vars => Inv'
<1> SUFFICES ASSUME SoundUse, Inv, [Next]_vars PROVE Inv'
  OBVIOUS
<1>1. CASE Setup
  BY <1>1, RegisterKeeps, SetAutoHeadKeeps, BuildKeeps DEF Setup
<1>2. CASE Ask
  BY <1>2, AskKeeps
<1>3. CASE Server
  BY <1>3, HandleKeeps, WriteConflictKeeps, WriteHeadKeeps, WritePieceKeeps, BreakOffKeeps,
     FinishKeeps DEF Server
<1>4. CASE Client
  BY <1>4, TakeHeadKeeps, TakeBytesKeeps, TakeChunkKeeps, TakeFinKeeps DEF Client
<1>5. CASE UNCHANGED vars
  BY <1>5, StutterKeeps
<1> QED
  BY <1>1, <1>2, <1>3, <1>4, <1>5 DEF Next

LEMMA Invariant == SoundUse => (Spec => []Inv)
<1>1. SUFFICES ASSUME SoundUse PROVE Spec => []Inv
  OBVIOUS
<1>2. Inv /\ [Next]_vars => Inv'
  BY <1>1, StepKeeps
<1> QED
  BY <1>2, InitInv, PTL DEF Spec

-----------------------------------------------------------------------------
\* What a server and its client can rely on, whatever is registered and asked for.

\* TypeOK: the routes, the answers underway and the reading of the client keep
\* their shapes.
THEOREM ExchangeTypes == SoundUse => (Spec => []TypeOK)
<1>1. SUFFICES ASSUME SoundUse PROVE Spec => []TypeOK
  OBVIOUS
<1>2. Inv => TypeOK
  BY <1>1 DEF Inv
<1>3. Spec => []Inv
  BY <1>1, Invariant
<1> QED
  BY <1>2, <1>3, PTL

\* InStep: a client that follows the framing of write_response never takes bytes of
\* one reply for those of another, nor framing for payload.
THEOREM ClientStaysInStep == SoundUse => (Spec => []InStep)
<1>1. SUFFICES ASSUME SoundUse PROVE Spec => []InStep
  OBVIOUS
<1>2. Inv => InStep
  BY <1>1, StepsAreKept
<1>3. Spec => []Inv
  BY <1>1, Invariant
<1> QED
  BY <1>2, <1>3, PTL

\* FaithfulReplies: every reply has the status and, unless the stream of its handler
\* fails, every byte of the body that the calls of the builder make due; a stream that
\* fails is seen to be cut short, and is the end of the connection.
THEOREM RepliesAreFaithful == SoundUse => (Spec => []FaithfulReplies)
<1>1. SUFFICES ASSUME SoundUse PROVE Spec => []FaithfulReplies
  OBVIOUS
<1>2. Inv => FaithfulReplies
  BY <1>1, RepliesAreKept
<1>3. Spec => []Inv
  BY <1>1, Invariant
<1> QED
  BY <1>2, <1>3, PTL

\* EndsExplained: the connection ends only after a reply that announced it or was cut
\* short, or at a response whose length and coding conflict.
THEOREM EndsAreAnnounced == SoundUse => (Spec => []EndsExplained)
<1>1. SUFFICES ASSUME SoundUse PROVE Spec => []EndsExplained
  OBVIOUS
<1>2. Inv => EndsExplained
  BY <1>1, EndsAreKept
<1>3. Spec => []Inv
  BY <1>1, Invariant
<1> QED
  BY <1>2, <1>3, PTL

\* HeadMirrorsGet: where the router answers HEAD with the handler of GET, the reply
\* has the status that GET has, and the length that GET shows, except that a body
\* left empty without a length shows 0 to GET and nothing to HEAD.
THEOREM HeadIsLikeGet == SoundUse => (Spec => []HeadMirrorsGet)
<1>1. SUFFICES ASSUME SoundUse PROVE Spec => []HeadMirrorsGet
  OBVIOUS
<1>2. Inv => HeadMirrorsGet
  BY <1>1, HeadIsKept
<1>3. Spec => []Inv
  BY <1>1, Invariant
<1> QED
  BY <1>2, <1>3, PTL

\* AllowIsExact: a method that a 405 lists is served, and one that it leaves out is
\* not.
THEOREM AllowedIsServed == SoundUse /\ NoRefusals => (Spec => []AllowIsExact)
<1>1. SUFFICES ASSUME SoundUse, NoRefusals PROVE Spec => []AllowIsExact
  OBVIOUS
<1>2. Inv => AllowIsExact
  BY <1>1, AllowIsKept
<1>3. Spec => []Inv
  BY <1>1, Invariant
<1> QED
  BY <1>2, <1>3, PTL
=============================================================================
