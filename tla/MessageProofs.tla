---------------------------- MODULE MessageProofs ----------------------------
(***************************************************************************)
(* What is proved of single messages: of the framing of a response, for    *)
(* every response and every method, that it leads a recipient that follows *)
(* RFC 9112 to the place where the body ends; and of byte ranges, for      *)
(* every range specification and representations of any length.  Before    *)
(* that, induction, for the recursive functions of the other modules.      *)
(***************************************************************************)
EXTENDS ResponseWriter, Ranges, FiniteSetTheorems, WellFoundedInduction, TLAPS

-----------------------------------------------------------------------------
\* Induction, as a fact about sets of numbers.

\* A set of numbers that has any has a smallest one.
LEMMA Smallest ==
    ASSUME NEW S, S \subseteq Nat, S # {}
    PROVE  \E n \in S : \A m \in S : n <= m
<1>1. PICK n \in S : \A m \in S : ~ (<<m, n>> \in OpToRel(<, Nat))
  BY NatLessThanWellFounded, WFMin
<1>2. ASSUME NEW m \in S, m < n PROVE FALSE
  <2>1. <<m, n>> \in Nat \X Nat /\ <<m, n>>[1] < <<m, n>>[2]
    BY <1>2
  <2>2. <<m, n>> \in OpToRel(<, Nat)
    BY <2>1 DEF OpToRel
  <2> QED
    BY <1>1, <2>2
<1> QED
  BY <1>2

\* A set that has 0, and with each number the next, has them all.
LEMMA Induction ==
    ASSUME NEW S, 0 \in S, \A n \in Nat : n \in S => n + 1 \in S
    PROVE  Nat \subseteq S
<1> DEFINE Out == { n \in Nat : n \notin S }
<1> SUFFICES ASSUME Out # {} PROVE FALSE
  OBVIOUS
<1>1. PICK n \in Out : \A m \in Out : n <= m
  BY Smallest
<1>2. n \in Nat /\ n \notin S /\ n # 0
  OBVIOUS
<1>3. n - 1 \in Nat /\ (n - 1) + 1 = n
  BY <1>2
<1>4. n - 1 \notin Out
  BY <1>1, <1>3
<1> QED
  BY <1>2, <1>3, <1>4

-----------------------------------------------------------------------------
\* Responses.

\* A status that forbids a body, or a request for HEAD, leaves nothing to read and
\* nothing to write.
LEMMA NothingFollows ==
    ASSUME NEW r \in Response, NEW method, ~BodyAllowed(r.status, method)
    PROVE  FramingAgrees(r, method)
<1>1. SentHead(r, method, FALSE).status = r.status
  BY DEF SentHead
<1>2. Framing(SentHead(r, method, FALSE), method, "1.1") = [by |-> "length", n |-> 0]
  BY <1>1 DEF Framing, BodyAllowed
<1>3. Written(SentBody(r, method)) = [by |-> "length", n |-> 0]
  BY DEF Written, SentBody, EmptyBody
<1>4. QED  BY <1>2, <1>3 DEF FramingAgrees

\* A stream goes out in chunks, whatever length or coding the handler has set short of
\* going on after "chunked".
LEMMA StreamIsChunked ==
    ASSUME NEW r \in Response, NEW method, Sound(r, method),
           BodyAllowed(r.status, method), r.body.kind = "stream"
    PROVE  FramingAgrees(r, method)
<1> DEFINE h == SentHead(r, method, FALSE)
<1>1. r.coding \in Codings /\ r.coding # "chunked-inside"
  BY DEF Sound, Response
<1>2. SentCoding(r, method) = "chunked"
  BY <1>1 DEF SentCoding, EnsureChunked, Codings
<1>3. h.status = r.status /\ h.coding = "chunked"
  BY <1>2 DEF SentHead
<1>4. Framing(h, method, "1.1") = [by |-> "chunks", n |-> 0]
  BY <1>3 DEF Framing, BodyAllowed
<1>5. Written(SentBody(r, method)) = [by |-> "chunks", n |-> 0]
  BY DEF Written, SentBody
<1>6. QED  BY <1>4, <1>5 DEF FramingAgrees

\* Any other body goes out with a Content-Length that counts its bytes.
LEMMA LengthIsExact ==
    ASSUME NEW r \in Response, NEW method, Sound(r, method),
           BodyAllowed(r.status, method), r.body.kind \in {"empty", "full"}
    PROVE  FramingAgrees(r, method)
<1> DEFINE h == SentHead(r, method, FALSE)
           n == IF r.body.kind = "full" THEN FullLength(r) ELSE 0
<1>1. ~Bodiless(r.status) /\ method # "HEAD"
  BY DEF BodyAllowed
<1>2. r.body \in Body /\ r.length \in Nat \cup {NoLength}
  BY DEF Response
<1>3. n \in Nat
  <2>1. CASE r.body.kind = "full"
    <3>1. r.body.pieces \in Seq(Nat) /\ Len(r.body.pieces) = 1
      BY <1>2, <2>1 DEF Body, Sound
    <3>2. QED  BY <2>1, <3>1 DEF FullLength
  <2>2. CASE r.body.kind = "empty"
    BY <2>2
  <2>3. QED  BY <2>1, <2>2
<1>4. r.length # NoLength => r.length = n
  BY <1>1 DEF Sound
<1>5. SentLength(r, method) = n
  BY <1>1, <1>4 DEF SentLength
<1>6. SentCoding(r, method) = "absent"
  BY DEF SentCoding
<1>7. h.status = r.status /\ h.coding = "absent" /\ h.length = n
  BY <1>5, <1>6 DEF SentHead
<1>8. n # NoLength
  BY <1>3 DEF NoLength
<1>9. Framing(h, method, "1.1") = [by |-> "length", n |-> n]
  BY <1>1, <1>7, <1>8 DEF Framing
<1>10. SentBody(r, method) = r.body
  BY DEF SentBody
<1>11. Written(r.body) = [by |-> "length", n |-> n]
  BY DEF Written, FullLength
<1>12. QED  BY <1>9, <1>10, <1>11 DEF FramingAgrees

\* Whatever a sound handler returns, and whatever the method, an HTTP/1.1 recipient
\* finds the end of the body where write_response puts it: the bytes of one response
\* cannot be taken for another's.
THEOREM FramingIsRight ==
    ASSUME NEW r \in Response, NEW method, Sound(r, method)
    PROVE  FramingAgrees(r, method)
<1>1. r.body.kind \in {"empty", "full", "stream"}
  BY DEF Response, Body
<1>2. QED
  BY <1>1, NothingFollows, StreamIsChunked, LengthIsExact

-----------------------------------------------------------------------------
\* Byte ranges.

\* RangeIsExact of Ranges, for each range specification that parse_range_header
\* lets through: one that is kept becomes exactly the bytes that it asks for, and one
\* that is dropped asks for no byte that there is.
THEOREM RangesAreExact ==
    ASSUME NEW total \in Nat, NEW spec \in RangeSpec, ~Malformed(spec)
    PROVE  RangeIsExact(spec, total)
<1>1. spec.a \in Nat /\ spec.b \in Nat /\ spec.kind \in {"from-to", "from", "suffix"}
  BY DEF RangeSpec
<1>2. CASE spec.kind = "from-to"
  <2>1. spec.a <= spec.b
    BY <1>1, <1>2 DEF Malformed
  <2>2. Wanted(spec, total) = { x \in 0 .. (total - 1) : spec.a <= x /\ x <= spec.b }
    BY <1>2 DEF Wanted
  <2>3. Satisfiable(spec, total) <=> spec.a < total
    BY <1>1, <1>2 DEF Satisfiable
  <2>4. spec.a < total => spec.a \in Wanted(spec, total)
    BY <1>1, <2>1, <2>2
  <2>5. \A x \in Wanted(spec, total) : spec.a < total
    BY <1>1, <2>2
  <2>6. ASSUME spec.a < total
        PROVE  Resolve(spec, total).start .. Resolve(spec, total).end = Wanted(spec, total)
    <3>1. /\ Resolve(spec, total).start = spec.a
          /\ Resolve(spec, total).end = IF spec.b < total - 1 THEN spec.b ELSE total - 1
      BY <1>1, <1>2, <2>1, <2>6 DEF Resolve, Greatest, Least
    <3> QED
      BY <1>1, <2>1, <2>2, <2>6, <3>1
  <2> QED
    BY <2>3, <2>4, <2>5, <2>6 DEF RangeIsExact
<1>3. CASE spec.kind = "from"
  <2>1. Wanted(spec, total) = { x \in 0 .. (total - 1) : spec.a <= x }
    BY <1>3 DEF Wanted
  <2>2. Satisfiable(spec, total) <=> spec.a < total
    BY <1>1, <1>3 DEF Satisfiable
  <2>3. spec.a < total => spec.a \in Wanted(spec, total)
    BY <1>1, <2>1
  <2>4. \A x \in Wanted(spec, total) : spec.a < total
    BY <1>1, <2>1
  <2>5. Resolve(spec, total).start = spec.a /\ Resolve(spec, total).end = total - 1
    BY <1>3 DEF Resolve
  <2>6. spec.a .. (total - 1) = Wanted(spec, total)
    BY <1>1, <2>1
  <2> QED
    BY <2>2, <2>3, <2>4, <2>5, <2>6 DEF RangeIsExact
<1>4. CASE spec.kind = "suffix"
  <2>1. Wanted(spec, total) = { x \in 0 .. (total - 1) : total - spec.a <= x }
    BY <1>4 DEF Wanted
  <2>2. Satisfiable(spec, total) <=> total # 0 /\ spec.a # 0
    BY <1>1, <1>4 DEF Satisfiable, Least
  <2>3. total # 0 /\ spec.a # 0 => total - 1 \in Wanted(spec, total)
    BY <1>1, <2>1
  <2>4. \A x \in Wanted(spec, total) : total # 0 /\ spec.a # 0
    BY <1>1, <2>1
  <2>5. /\ Resolve(spec, total).start = IF spec.a < total THEN total - spec.a ELSE 0
        /\ Resolve(spec, total).end = total - 1
    BY <1>1, <1>4 DEF Resolve, Least
  <2>6. Resolve(spec, total).start .. (total - 1) = Wanted(spec, total)
    BY <1>1, <2>1, <2>5
  <2> QED
    BY <2>2, <2>3, <2>4, <2>5, <2>6 DEF RangeIsExact
<1> QED
  BY <1>1, <1>2, <1>3, <1>4
-----------------------------------------------------------------------------
\* The first of some positions.

\* A set of naturals with a member has a least one, for what is not above that member
\* is finite, and strict inclusion of finite sets is well-founded.
LEMMA LeastMember ==
    ASSUME NEW T, T \subseteq Nat, T # {}
    PROVE  \E x \in T : \A y \in T : x <= y
<1>1. PICK m \in T : TRUE
  OBVIOUS
<1> DEFINE Below(x) == { y \in T : y <= x }
           Start    == 0 .. m
           Sets     == { Below(x) : x \in Below(m) }
<1>2. IsFiniteSet(Start) /\ m \in Below(m)
  BY <1>1, FS_Interval
<1>3. \A x \in Below(m) : Below(x) \in FiniteSubsetsOf(Start)
  <2>1. ASSUME NEW x \in Below(m)
        PROVE  Below(x) \in SUBSET Start
    <3>1. x \in Nat /\ m \in Nat /\ x <= m
      BY <1>1
    <3>2. ASSUME NEW y \in Below(x)
          PROVE  y \in Start
      <4>1. y \in Nat /\ y <= x
        OBVIOUS
      <4> QED
        BY <3>1, <4>1
    <3> QED
      BY <3>2
  <2>2. \A S \in SUBSET Start : IsFiniteSet(S)
    BY <1>2, FS_Subset
  <2> QED
    BY <2>1, <2>2 DEF FiniteSubsetsOf
<1>4. Sets \subseteq FiniteSubsetsOf(Start) /\ Sets # {}
  BY <1>2, <1>3
<1>5. PICK S \in Sets : \A U \in Sets : <<U, S>> \notin StrictSubsetOrdering(Start)
  <2>1. IsWellFoundedOn(StrictSubsetOrdering(Start), FiniteSubsetsOf(Start))
    BY FS_StrictSubsetOrderingWellFounded
  <2> HIDE DEF Sets
  <2> QED
    BY <1>4, <2>1, WFMin, Zenon
<1>6. PICK x \in Below(m) : S = Below(x)
  OBVIOUS
<1>7. ASSUME NEW y \in T
      PROVE  x <= y
  <2>1. SUFFICES ASSUME y < x
                 PROVE  FALSE
    BY <1>6
  <2>2. y \in Below(m) /\ Below(y) \in Sets
    BY <1>6, <2>1
  <2>3. Below(y) \subseteq Start /\ S \subseteq Start
    BY <1>3, <1>6, <2>2 DEF FiniteSubsetsOf
  <2>4. Below(y) \subseteq S /\ Below(y) # S
    <3>1. x \in Nat /\ y \in Nat /\ x \in T
      OBVIOUS
    <3>2. x \in S /\ x \notin Below(y)
      BY <1>6, <2>1, <3>1
    <3>3. ASSUME NEW z \in Below(y)
          PROVE  z \in S
      <4>1. z \in T /\ z \in Nat /\ z <= y
        OBVIOUS
      <4> QED
        BY <1>6, <2>1, <3>1, <4>1
    <3> QED
      BY <3>2, <3>3
  <2> QED
    BY <1>5, <2>2, <2>3, <2>4 DEF StrictSubsetOrdering
<1> QED
  BY <1>6, <1>7

\* What a field that parses lets through is a range specification in order.
LEMMA PartsAreSpecs ==
    ASSUME NEW field \in RangeField, Parses(field), NEW i \in Specs(field)
    PROVE  field.parts[i] \in RangeSpec /\ ~Malformed(field.parts[i])
<1>1. i \in DOMAIN field.parts /\ field.parts \in Seq(RangeSpec \cup {Blank, Garbled})
  BY DEF Specs, RangeField
<1>2. field.parts[i] \in RangeSpec \cup {Blank, Garbled} /\ ~Malformed(field.parts[i])
  BY <1>1 DEF Parses
<1>3. field.parts[i] # Blank /\ field.parts[i] # Garbled
  BY <1>2 DEF Specs, Malformed, Garbled
<1> QED
  BY <1>2, <1>3

\* What serve_range_demo may answer to a field: everything, or nothing where nothing that
\* was asked for exists, or all of the bytes that one of the specifications asks for.
IsExact(answer, field, total) ==
    \/ answer = [status |-> 200, start |-> 0, end |-> total - 1]
    \/ /\ answer = [status |-> 416, start |-> 0, end |-> -1]
       /\ \A i \in Specs(field) : Wanted(field.parts[i], total) = {}
    \/ /\ answer.status = 206
       /\ answer.start \in Nat /\ answer.end \in Nat
       /\ answer.start <= answer.end
       /\ \E i \in Specs(field) :
             answer.start .. answer.end = Wanted(field.parts[i], total)

LEMMA AnswerIsExact ==
    ASSUME NEW field \in RangeField, NEW total \in Nat
    PROVE  IsExact(RangeDemo(field, total), field, total)
<1>1. CASE ~Parses(field)
  BY <1>1 DEF RangeDemo, IsExact
<1>2. CASE Parses(field) /\ Kept(field, total) = {}
  <2>1. ASSUME NEW i \in Specs(field)
        PROVE  Wanted(field.parts[i], total) = {}
    <3>1. ~Satisfiable(field.parts[i], total)
      BY <1>2 DEF Kept
    <3> QED
      BY <1>2, <3>1, PartsAreSpecs, RangesAreExact DEF RangeIsExact
  <2> QED
    BY <1>2, <2>1 DEF RangeDemo, IsExact
<1>3. CASE Parses(field) /\ Kept(field, total) # {}
  <2> DEFINE i     == First(Kept(field, total))
             range == Resolve(field.parts[i], total)
  <2>1. i \in Kept(field, total)
    <3>1. Kept(field, total) \subseteq Nat
      BY DEF Kept, Specs, RangeField
    <3>2. \E x \in Kept(field, total) : \A y \in Kept(field, total) : x <= y
      BY <1>3, <3>1, LeastMember
    <3> QED
      BY <3>2 DEF First
  <2>2. /\ i \in Specs(field) /\ Satisfiable(field.parts[i], total)
        /\ field.parts[i] \in RangeSpec /\ ~Malformed(field.parts[i])
    BY <1>3, <2>1, PartsAreSpecs DEF Kept
  <2>3. range.start .. range.end = Wanted(field.parts[i], total)
        /\ Wanted(field.parts[i], total) # {}
    BY <2>2, RangesAreExact DEF RangeIsExact
  <2>4. range.start \in Nat /\ range.end \in Int
    <3>1. field.parts[i].a \in Nat /\ field.parts[i].b \in Nat
          /\ field.parts[i].kind \in {"from-to", "from", "suffix"}
      BY <2>2 DEF RangeSpec
    <3> HIDE DEF i
    <3> QED
      BY <3>1 DEF Resolve, Least, Greatest
  <2>5. range.start <= range.end
    <3> HIDE DEF range
    <3> QED
      BY <2>3, <2>4
  <2>6. RangeDemo(field, total) = [status |-> 206, start |-> range.start, end |-> range.end]
    BY <1>3 DEF RangeDemo
  <2> HIDE DEF range, i
  <2> QED
    BY <2>2, <2>3, <2>4, <2>5, <2>6 DEF IsExact
<1> QED
  BY <1>1, <1>2, <1>3
=============================================================================
