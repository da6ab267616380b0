-------------------------- MODULE ConnectionProofs --------------------------
(***************************************************************************)
(* Connection keeps the wire synchronised and implements RequestServer,    *)
(* for all well-formed streams, every segmentation of them, every head     *)
(* limit and every behaviour of client, timers and handler.                *)
(***************************************************************************)
EXTENDS Connection, TLAPS

\* A stream is well formed, in the parts the proofs use.
LEMMA StreamFacts ==
    ASSUME NEW w \in Streams
    PROVE  /\ w.count \in Nat /\ w.count >= 1
           /\ w.to \in [0 .. w.count -> Nat]
           /\ w.el \in [Elements(w) -> Element]
           /\ w.msg \in [Elements(w) -> Nat \ {0}]
           /\ w.crlf \subseteq Nat
           /\ w.to[0] = 0
           /\ \A j, k \in 0 .. w.count : j < k => w.to[j] < w.to[k]
           /\ w.el[1].kind = "head"
           /\ \A k \in Elements(w) : Shaped(w, k)
           /\ \A k \in 1 .. (w.count - 1) : w.el[k].ok => Follows(w, k)
           /\ Numbered(w)
BY StreamsAssumption DEF WellFormed

\* The ends of an element are offsets, in order.
LEMMA Offsets ==
    ASSUME NEW w \in Streams, NEW k \in Elements(w)
    PROVE  /\ k \in Nat /\ k >= 1 /\ k <= w.count
           /\ k \in 0 .. w.count /\ k - 1 \in 0 .. w.count
           /\ From(w, k) \in Nat /\ w.to[k] \in Nat /\ From(w, k) < w.to[k]
           /\ w.msg[k] \in Nat /\ w.msg[k] >= 1
           /\ w.el[k] \in Element
<1>1. k \in Nat /\ k \in 0 .. w.count /\ k - 1 \in 0 .. w.count /\ k - 1 < k /\ k >= 1
  BY StreamFacts DEF Elements
<1>2. w.to[k - 1] < w.to[k] /\ w.to[k] \in Nat /\ w.to[k - 1] \in Nat
  BY <1>1, StreamFacts
<1>3. w.msg[k] \in Nat \ {0} /\ w.el[k] \in Element
  BY StreamFacts
<1>4. k <= w.count
  BY StreamFacts DEF Elements
<1> QED
  BY <1>1, <1>2, <1>3, <1>4 DEF From

LEMMA TotalIsNat ==
    ASSUME NEW w \in Streams
    PROVE  Total(w) \in Nat
BY StreamFacts DEF Total

\* Elements do not overlap.
LEMMA Disjoint ==
    ASSUME NEW w \in Streams, NEW i \in Elements(w), NEW j \in Elements(w), i < j
    PROVE  w.to[i] <= From(w, j)
<1>1. i <= j - 1 /\ i \in 0 .. w.count /\ j - 1 \in 0 .. w.count
  BY Offsets
<1>2. CASE i = j - 1
  BY <1>2, <1>1, Offsets DEF From
<1>3. CASE i < j - 1
  <2>1. w.to[i] < w.to[j - 1] /\ w.to[i] \in Nat /\ w.to[j - 1] \in Nat
    BY <1>1, <1>3, StreamFacts
  <2> QED
    BY <2>1 DEF From
<1> QED
  BY <1>1, <1>2, <1>3

\* Only one element starts at an offset, and it follows the one that ends there.
LEMMA OneElement ==
    ASSUME NEW w \in Streams, NEW k \in 0 .. w.count, NEW j \in Elements(w),
           From(w, j) = w.to[k]
    PROVE  j = k + 1
<1>1. j - 1 \in 0 .. w.count
  BY StreamFacts DEF Elements
<1>2. ~(j - 1 < k) /\ ~(k < j - 1)
  BY <1>1, StreamFacts DEF From
<1> QED
  BY <1>1, <1>2, StreamFacts DEF Elements

\* Past the end of an element there are bytes only if there is another element.
LEMMA BytesBeyond ==
    ASSUME NEW w \in Streams, NEW k \in 0 .. w.count, NEW q \in Nat,
           w.to[k] < q, q <= Total(w)
    PROVE  k + 1 \in Elements(w)
<1>1. k # w.count
  BY StreamFacts DEF Total
<1> QED
  BY <1>1, StreamFacts DEF Elements

\* From the start of a head, the first terminator in view is the head's own.
LEMMA HeadTerminator ==
    ASSUME NEW w \in Streams, NEW k \in Elements(w), NEW q \in Nat, NEW c \in HeadEnds(w),
           w.el[k].kind = "head", HeadIn(w, From(w, k), q, c)
    PROVE  c = w.to[k]
<1>1. Shaped(w, k) /\ w.crlf \subseteq Nat
  BY StreamFacts
<1>2. HeadIn(w, From(w, k), w.to[k], w.to[k])
  BY <1>1 DEF Shaped
<1>3. w.to[k] \in HeadEnds(w) /\ HeadEnds(w) \subseteq Nat
  BY <1>1, <1>2 DEF HeadIn, FirstIn, HeadEnds
<1> QED
  BY <1>2, <1>3 DEF HeadIn, FirstIn

\* From the start of a size or trailer line, the first CRLF in view ends the line;
\* from the blank line it is the blank line.
LEMMA LineTerminator ==
    ASSUME NEW w \in Streams, NEW k \in Elements(w), NEW q \in Nat, NEW c \in w.crlf,
           w.el[k].kind \in {"size", "trailer", "blank"}, LineIn(w, From(w, k), q, c)
    PROVE  c = w.to[k] /\ (c = From(w, k) + 2 <=> w.el[k].kind = "blank")
<1>1. Shaped(w, k) /\ w.crlf \subseteq Nat
  BY StreamFacts
<1>2. w.to[k] \in Nat /\ From(w, k) \in Nat
  BY StreamFacts DEF Elements, From
<1>3. CASE w.el[k].kind = "blank"
  <2>1. w.to[k] \in w.crlf /\ w.to[k] = From(w, k) + 2
    BY <1>1, <1>2, <1>3 DEF Shaped, Size, From
  <2> QED
    BY <2>1, <1>1, <1>2, <1>3 DEF LineIn, FirstIn
<1>4. CASE w.el[k].kind \in {"size", "trailer"}
  <2>1. LineIn(w, From(w, k), w.to[k], w.to[k]) /\ w.to[k] - From(w, k) > 2
    BY <1>1, <1>4 DEF Shaped, Size, From
  <2> QED
    BY <2>1, <1>1, <1>2, <1>4 DEF LineIn, FirstIn
<1> QED
  BY <1>3, <1>4

\* The element after an acceptable one.
LEMMA NextElement ==
    ASSUME NEW w \in Streams, NEW k \in Elements(w), k + 1 \in Elements(w), w.el[k].ok
    PROVE  /\ Follows(w, k) /\ Shaped(w, k + 1)
           /\ w.msg[k + 1] = IF w.el[k + 1].kind = "head" THEN w.msg[k] + 1 ELSE w.msg[k]
           /\ From(w, k + 1) = w.to[k]
<1>1. k \in 1 .. (w.count - 1)
  BY StreamFacts DEF Elements
<1>2. k + 1 - 1 = k
  BY <1>1
<1> QED
  BY <1>1, <1>2, StreamFacts DEF Numbered, From

-----------------------------------------------------------------------------
\* Where the payload of a request lies.

PayloadElement(w, k) == w.el[k].kind \in {"body", "data"}

LEMMA InPayload ==
    ASSUME NEW w \in Streams, NEW m, NEW x
    PROVE  x \in Payload(w, m) <=>
             \E k \in Elements(w) : /\ w.msg[k] = m /\ PayloadElement(w, k)
                                    /\ x \in From(w, k) .. (w.to[k] - 1)
BY DEF Payload, PayloadElement

\* Moving over an element that is not payload, nothing has to be gathered.
LEMMA SkipElement ==
    ASSUME NEW w \in Streams, NEW m, NEW k \in Elements(w), ~PayloadElement(w, k)
    PROVE  PayloadBefore(w, m, From(w, k)) = PayloadBefore(w, m, w.to[k])
<1>1. ASSUME NEW x \in Payload(w, m)
      PROVE  x < From(w, k) <=> x < w.to[k]
  <2>1. PICK i \in Elements(w) : /\ PayloadElement(w, i)
                                 /\ x \in From(w, i) .. (w.to[i] - 1)
    BY InPayload
  <2>2. i # k
    BY <2>1
  <2>3. /\ From(w, i) \in Nat /\ w.to[i] \in Nat /\ i \in Nat
        /\ From(w, k) \in Nat /\ w.to[k] \in Nat /\ k \in Nat /\ From(w, k) < w.to[k]
    BY Offsets
  <2>4. CASE i < k
    <3>1. w.to[i] <= From(w, k)
      BY <2>4, Disjoint
    <3> QED
      BY <2>1, <2>3, <3>1
  <2>5. CASE k < i
    <3>1. w.to[k] <= From(w, i)
      BY <2>5, Disjoint
    <3> QED
      BY <2>1, <2>3, <3>1
  <2> QED
    BY <2>2, <2>3, <2>4, <2>5
<1> QED
  BY <1>1 DEF PayloadBefore

\* The bytes b gathered so far, and the n bytes from offset p.
Gather(b, p, n) == b \cup (p .. (p + n - 1))

\* Inside a payload element every byte counts.
LEMMA GatherBytes ==
    ASSUME NEW w \in Streams, NEW k \in Elements(w), PayloadElement(w, k),
           NEW p \in Nat, NEW n \in Nat, From(w, k) <= p, p + n <= w.to[k]
    PROVE  Gather(PayloadBefore(w, w.msg[k], p), p, n) = PayloadBefore(w, w.msg[k], p + n)
<1>1. From(w, k) \in Nat /\ w.to[k] \in Nat
  BY Offsets
<1>2. \A x \in p .. (p + n - 1) : x \in Payload(w, w.msg[k]) /\ x < p + n
  <2>1. TAKE x \in p .. (p + n - 1)
  <2>2. x \in From(w, k) .. (w.to[k] - 1)
    BY <1>1
  <2> QED
    BY <2>2, InPayload
<1>3. \A x \in Payload(w, w.msg[k]) : x \in Nat
  <2>1. TAKE x \in Payload(w, w.msg[k])
  <2>2. PICK i \in Elements(w) : x \in From(w, i) .. (w.to[i] - 1)
    BY InPayload
  <2>3. From(w, i) \in Nat /\ w.to[i] \in Nat
    BY Offsets
  <2> QED
    BY <2>2, <2>3
<1>4. \A x \in Payload(w, w.msg[k]) : x < p + n <=> x < p \/ x \in p .. (p + n - 1)
  BY <1>3
<1> QED
  BY <1>2, <1>4 DEF PayloadBefore, Gather

\* Before the end of the head of a request there is none of its payload.
LEMMA NothingBeforeHead ==
    ASSUME NEW w \in Streams, NEW k \in Elements(w), w.el[k].kind = "head"
    PROVE  PayloadBefore(w, w.msg[k], w.to[k]) = {}
<1> SUFFICES ASSUME NEW x \in Payload(w, w.msg[k]), x < w.to[k]
             PROVE  FALSE
  BY DEF PayloadBefore
<1>1. PICK i \in Elements(w) : /\ w.msg[i] = w.msg[k] /\ PayloadElement(w, i)
                               /\ x \in From(w, i) .. (w.to[i] - 1)
  BY InPayload
<1>2. i # k
  BY <1>1 DEF PayloadElement
<1>3. ~(i < k)
  <2>1. i < k => w.msg[i] < w.msg[k]
    BY StreamFacts DEF Numbered
  <2> QED
    BY <1>1, <2>1, Offsets
<1>4. k < i /\ From(w, i) \in Nat /\ w.to[i] \in Nat /\ w.to[k] \in Nat
  BY <1>2, <1>3, Offsets
<1>5. w.to[k] <= From(w, i)
  BY <1>4, Disjoint
<1> QED
  BY <1>1, <1>4, <1>5

\* When a request is complete, all of its payload lies behind.
LEMMA AllBehind ==
    ASSUME NEW w \in Streams, NEW k \in Elements(w), w.el[k].ok, Completes(w.el[k])
    PROVE  PayloadBefore(w, w.msg[k], w.to[k]) = Payload(w, w.msg[k])
<1> SUFFICES ASSUME NEW x \in Payload(w, w.msg[k])
             PROVE  x < w.to[k]
  BY DEF PayloadBefore
<1>1. PICK i \in Elements(w) : /\ w.msg[i] = w.msg[k]
                               /\ x \in From(w, i) .. (w.to[i] - 1)
  BY InPayload
<1>2. /\ From(w, i) \in Nat /\ w.to[i] \in Nat /\ i \in Nat /\ i <= w.count
      /\ From(w, k) \in Nat /\ w.to[k] \in Nat /\ k \in Nat /\ k >= 1
      /\ w.count \in Nat
  BY Offsets, StreamFacts
<1>3. ~(k < i)
  <2> SUFFICES ASSUME k < i PROVE FALSE
    OBVIOUS
  <2>1. k + 1 \in Elements(w) /\ k + 1 <= i
    BY <1>2 DEF Elements
  <2>2. w.el[k + 1].kind = "head" /\ w.msg[k + 1] = w.msg[k] + 1
    BY <2>1, NextElement DEF Follows
  <2>3. w.msg[k + 1] <= w.msg[i]
    BY <2>1, StreamFacts DEF Numbered
  <2>4. w.msg[k] \in Nat
    BY Offsets
  <2> QED
    BY <1>1, <2>2, <2>3, <2>4
<1>4. CASE i = k
  BY <1>1, <1>2, <1>4
<1>5. CASE i < k
  <2>1. w.to[i] <= From(w, k) /\ From(w, k) < w.to[k]
    BY <1>5, Disjoint, Offsets
  <2> QED
    BY <1>1, <1>2, <2>1
<1> QED
  BY <1>2, <1>3, <1>4, <1>5

-----------------------------------------------------------------------------
\* The invariant, step by step.

LEMMA InitFraming == Init => FramingInv
<1> SUFFICES ASSUME Init PROVE FramingInv
  OBVIOUS
<1>1. TypeOK
  <2>1. wire.count \in Nat /\ Total(wire) \in Nat
    BY StreamFacts, TotalIsNat DEF Init
  <2>2. handled \in Seq(Call) /\ replies \in Seq(Reply) /\ response \in Response
    BY DEF Init, Response, NoResponse
  <2>3. eof \in BOOLEAN /\ reset \in BOOLEAN
    BY DEF Init
  <2> QED
    BY <2>1, <2>2, <2>3 DEF Init, TypeOK, Phases, Stages, Results
<1>2. SoFar /\ WireSync /\ InRequest /\ Gathered
  BY DEF Init, SoFar, WireSync, Boundary, InRequest, Gathered, Serving
<1>3. ExactBodies /\ OrderedReplies
  BY DEF Init, ExactBodies, OrderedReplies
<1> QED
  BY <1>1, <1>2, <1>3 DEF FramingInv

\* Steps that only bring bytes closer: the client's, and reads into the buffer.
LEMMA QuietStep ==
    ASSUME FramingInv, TypeOK',
           UNCHANGED <<wire, pos, phase, reader, cur, output, result>>
    PROVE  FramingInv'
<1>1. SoFar' /\ WireSync' /\ ExactBodies' /\ OrderedReplies'
  BY DEF FramingInv, SoFar, WireSync, ExactBodies, OrderedReplies, output
<1>2. InRequest' /\ Gathered'
  BY DEF FramingInv, InRequest, Place, Gathered, Request, output, reader
<1> QED
  BY <1>1, <1>2 DEF FramingInv

\* At the end only what was said and done is left to speak of.
LEMMA EndStep ==
    ASSUME phase' = "done", TypeOK', ExactBodies', OrderedReplies'
    PROVE  FramingInv'
BY DEF FramingInv, SoFar, WireSync, InRequest, Gathered, Serving

\* A request is refused, while no response is on its way.
LEMMA RejectStep ==
    ASSUME FramingInv, phase \notin {"done", "respond", "reject"},
           NEW r \in Results, Reject(r),
           pos' = pos, read' \in Nat, pos <= read', read' <= sent
    PROVE  FramingInv'
<1>1. /\ TypeOK /\ SoFar /\ ExactBodies /\ OrderedReplies
      /\ phase' = "reject" /\ result' = r
      /\ UNCHANGED <<client, reader, cur, output>>
  BY DEF FramingInv, Reject
<1>2. TypeOK'
  BY <1>1 DEF TypeOK, client, reader, output, Phases
<1>3. SoFar' /\ ExactBodies' /\ OrderedReplies'
  BY <1>1 DEF SoFar, ExactBodies, OrderedReplies, client, output
<1>4. WireSync' /\ InRequest' /\ Gathered'
  BY <1>1 DEF WireSync, InRequest, Gathered, Serving
<1> QED
  BY <1>2, <1>3, <1>4 DEF FramingInv

\* The error response is written, or fails to be.
LEMMA ErrorStep ==
    ASSUME FramingInv, WriteError
    PROVE  FramingInv'
<1>1. /\ phase = "reject" /\ TypeOK /\ Len(handled) = Len(replies) /\ Len(replies) \in Nat
      /\ \A j \in DOMAIN replies : replies[j].kind = "response" /\ ~replies[j].close
      /\ ExactBodies /\ OrderedReplies
  BY DEF FramingInv, SoFar, TypeOK, WriteError
<1>2. /\ phase' = "done" /\ result' \in {result, "Encode"}
      /\ UNCHANGED <<client, read, pos, reader, cur, handled, continued, response>>
  BY DEF WriteError, Return
<1>3. result' \in Results
  BY <1>1, <1>2 DEF TypeOK, Results
<1>4. ExactBodies'
  BY <1>1, <1>2 DEF ExactBodies, client
<1>5. CASE replies' = replies
  <2>1. TypeOK'
    BY <1>1, <1>2, <1>3, <1>5 DEF TypeOK, client, reader, Phases
  <2>2. OrderedReplies'
    BY <1>1, <1>2, <1>5 DEF OrderedReplies
  <2> QED
    BY <1>2, <1>4, <2>1, <2>2, EndStep
<1>6. CASE Answer("error", ErrorStatus, Len(replies) + 1, TRUE)
  <2> DEFINE new == [kind |-> "error", status |-> ErrorStatus,
                     msg |-> Len(replies) + 1, close |-> TRUE]
  <2>1. replies \in Seq(Reply) /\ new \in Reply
    BY <1>1 DEF TypeOK, Reply, ErrorStatus
  <2>2. replies' = Append(replies, new)
    BY <1>6 DEF Answer
  <2>3. /\ replies' \in Seq(Reply) /\ Len(replies') = Len(replies) + 1
        /\ \A j \in 1 .. Len(replies) : replies'[j] = replies[j]
        /\ replies'[Len(replies) + 1] = new
    BY <2>1, <2>2
  <2>4. TypeOK'
    BY <1>1, <1>2, <1>3, <2>3 DEF TypeOK, client, reader, Phases
  <2>5. OrderedReplies'
    BY <1>1, <1>2, <2>1, <2>3 DEF OrderedReplies
  <2> QED
    BY <1>2, <1>4, <2>4, <2>5, EndStep
<1> QED
  BY <1>5, <1>6 DEF WriteError

\* Returning without a word.
LEMMA FailStep ==
    ASSUME FramingInv, NEW r \in Results, Fail(r)
    PROVE  FramingInv'
<1>1. TypeOK'
  BY DEF FramingInv, TypeOK, Fail, Return, client, reader, output, Phases
<1>2. ExactBodies' /\ OrderedReplies'
  BY DEF FramingInv, ExactBodies, OrderedReplies, Fail, client, output
<1> QED
  BY <1>1, <1>2, EndStep DEF Fail, Return

LEMMA ClientStep ==
    ASSUME FramingInv, Client
    PROVE  FramingInv'
<1>1. TypeOK'
  <2>1. /\ TypeOK /\ Total(wire) \in Nat /\ sent \in Nat
        /\ UNCHANGED <<wire, read, pos, phase, reader, cur, output, result>>
    BY TotalIsNat DEF FramingInv, TypeOK, Client, ClientSends, ClientShutsDown, ClientResets
  <2>2. sent' \in Nat /\ sent <= sent' /\ sent' <= Total(wire)
    BY <2>1 DEF TypeOK, Client, ClientSends, ClientShutsDown, ClientResets
  <2>3. eof' \in BOOLEAN /\ reset' \in BOOLEAN
    BY <2>1 DEF TypeOK, Client, ClientSends, ClientShutsDown, ClientResets
  <2> QED
    BY <2>1, <2>2, <2>3 DEF TypeOK, reader, output
<1>2. UNCHANGED <<wire, pos, phase, reader, cur, output, result>>
  BY DEF Client, ClientSends, ClientShutsDown, ClientResets
<1> QED
  BY <1>1, <1>2, QuietStep

LEMMA AwaitHeadStep ==
    ASSUME FramingInv,
           ReadHead \/ RejectLongHead \/ HeadEof \/ HeadIoError \/ HeadTimeout
    PROVE  FramingInv'
<1>1. /\ phase = "idle" /\ TypeOK
      /\ pos \in Nat /\ read \in Nat /\ sent \in Nat /\ pos <= read /\ read <= sent
  BY DEF FramingInv, TypeOK, ReadHead, RejectLongHead, HeadEof, HeadIoError, HeadTimeout
<1>2. ASSUME ReadHead PROVE FramingInv'
  <2>1. PICK n \in 1 .. (sent - read) :
           /\ read' = read + n
           /\ IF HeadExceedsLimit(read + n)
              THEN Reject("HeaderTooLarge")
              ELSE UNCHANGED <<client, phase, reader, cur, output, result>>
    BY <1>2 DEF ReadHead
  <2>2. pos' = pos /\ read' \in Nat /\ pos <= read' /\ read' <= sent
    BY <1>1, <1>2, <2>1 DEF ReadHead
  <2>3. CASE HeadExceedsLimit(read + n)
    BY <1>1, <2>1, <2>2, <2>3, RejectStep DEF Results
  <2>4. CASE ~HeadExceedsLimit(read + n)
    <3>1. UNCHANGED <<client, phase, reader, cur, output, result>>
      BY <2>1, <2>4
    <3>2. TypeOK'
      BY <1>1, <2>2, <3>1 DEF TypeOK, client, reader, output
    <3> QED
      BY <2>2, <3>1, <3>2, QuietStep DEF client
  <2> QED
    BY <2>3, <2>4
<1>3. ASSUME RejectLongHead PROVE FramingInv'
  BY <1>1, <1>3, RejectStep DEF RejectLongHead, Results
<1>4. ASSUME HeadEof PROVE FramingInv'
  BY <1>1, <1>4, RejectStep, FailStep DEF HeadEof, Results
<1>5. ASSUME HeadIoError PROVE FramingInv'
  BY <1>5, FailStep DEF HeadIoError, Results
<1>6. ASSUME HeadTimeout PROVE FramingInv'
  BY <1>1, <1>6, RejectStep DEF HeadTimeout, Results
<1> QED
  BY <1>2, <1>3, <1>4, <1>5, <1>6

\* The next head begins a request: it stands where the last one ended.
LEMMA HeadStarts ==
    ASSUME NEW w \in Streams, NEW p \in Nat, NEW m \in Nat, Boundary(w, p, m),
           NEW k \in Elements(w), From(w, k) = p
    PROVE  w.el[k].kind = "head" /\ w.msg[k] = m + 1
<1>1. CASE p = 0 /\ m = 0
  <2>1. w.to[0] = 0 /\ 0 \in 0 .. w.count
    BY StreamFacts
  <2>2. k = 1
    BY <1>1, <2>1, OneElement
  <2> QED
    BY <1>1, <2>2, StreamFacts DEF Numbered
<1>2. ASSUME NEW j \in Elements(w),
             p = w.to[j], m = w.msg[j], w.el[j].ok, Completes(w.el[j])
      PROVE  w.el[k].kind = "head" /\ w.msg[k] = m + 1
  <2>1. k = j + 1
    BY <1>2, Offsets, OneElement
  <2> QED
    BY <1>2, <2>1, NextElement DEF Follows
<1> QED
  BY <1>1, <1>2 DEF Boundary

LEMMA ParseHeadStep ==
    ASSUME FramingInv, ParseHead
    PROVE  FramingInv'
<1>1. /\ TypeOK /\ wire \in Streams /\ pos \in Nat /\ read \in Nat /\ phase = "idle"
      /\ Boundary(wire, pos, Len(replies)) /\ Len(replies) \in Nat
  BY DEF FramingInv, TypeOK, WireSync, ParseHead
<1>2. PICK c \in HeadEnds(wire), k \in Elements(wire) :
          /\ HeadIn(wire, pos, read, c)
          /\ HeadAt(k, c)
          /\ pos' = c
          /\ cur' = k
          /\ phase' = AfterExpect(wire.el[k])
          /\ stage' = FirstStage(wire.el[k])
          /\ remaining' = IF wire.el[k].mode = "fixed" THEN wire.el[k].n ELSE 0
  BY DEF ParseHead, HeadEnd
<1>3. body' = {} /\ UNCHANGED <<client, read, output, result>>
  BY DEF ParseHead
<1>4. /\ From(wire, k) = pos /\ wire.to[k] = c /\ wire.el[k].ok /\ c - pos <= HeaderLimit
      /\ wire.el[k].kind = "head" /\ wire.msg[k] = Len(replies) + 1
  BY <1>1, <1>2, HeadStarts DEF HeadAt
<1>5. /\ wire.el[k].mode \in {"none", "fixed", "chunked"} /\ wire.el[k].n \in Nat
      /\ k \in 0 .. wire.count /\ c \in Nat /\ c <= read
  BY <1>2, <1>4, <1>1, Offsets DEF Element, HeadIn, FirstIn
<1>6. stage' \in {"none", "fixed", "size", "done"} /\ phase' \in {"continue", "body", "handle"}
  BY <1>2, <1>5 DEF FirstStage, AfterExpect, AfterHead
<1>7. TypeOK'
  BY <1>1, <1>2, <1>3, <1>5, <1>6 DEF TypeOK, client, output, Phases, Stages
<1>8. SoFar' /\ WireSync' /\ ExactBodies' /\ OrderedReplies'
  BY <1>1, <1>3, <1>6 DEF FramingInv, SoFar, WireSync, ExactBodies, OrderedReplies,
                          client, output
<1>9. Place(k)'
  <2>1. CASE wire.el[k].mode = "none"
    BY <1>1, <1>2, <1>3, <1>4, <1>5, <2>1 DEF Place, FirstStage, Completes, client, output
  <2>2. CASE wire.el[k].mode = "chunked"
    BY <1>1, <1>2, <1>3, <1>4, <1>5, <2>2 DEF Place, FirstStage, client, output
  <2>3. CASE wire.el[k].mode = "fixed" /\ wire.el[k].n = 0
    BY <1>1, <1>2, <1>3, <1>4, <1>5, <2>3 DEF Place, FirstStage, Completes, client, output
  <2>4. CASE wire.el[k].mode = "fixed" /\ wire.el[k].n > 0
    BY <1>1, <1>2, <1>3, <1>4, <1>5, <2>4 DEF Place, FirstStage, client, output
  <2> QED
    BY <1>5, <2>1, <2>2, <2>3, <2>4
<1>10. InRequest'
  <2>1. stage' = "none" <=> wire.el[k].mode = "none"
    BY <1>2, <1>5 DEF FirstStage
  <2>2. phase' = "handle" => stage' = "none"
    BY <1>2, <2>1 DEF AfterExpect, AfterHead
  <2>3. phase' = "body" => stage' # "none"
    BY <1>2, <2>1 DEF AfterExpect, AfterHead
  <2>4. wire' = wire /\ replies' = replies
    BY <1>3 DEF client, output
  <2> QED
    BY <1>2, <1>4, <1>6, <1>9, <2>1, <2>2, <2>3, <2>4
       DEF InRequest, HeadOf, Size, Request, From, Elements
<1>11. Gathered'
  <2>1. PayloadBefore(wire, wire.msg[k], wire.to[k]) = {}
    BY <1>1, <1>4, NothingBeforeHead
  <2> QED
    BY <1>2, <1>3, <1>4, <2>1 DEF Gathered, client, output
<1> QED
  BY <1>7, <1>8, <1>10, <1>11 DEF FramingInv

LEMMA RejectHeadStep ==
    ASSUME FramingInv, RejectHead
    PROVE  FramingInv'
<1>1. /\ phase = "idle"
      /\ pos \in Nat /\ read \in Nat /\ sent \in Nat /\ pos <= read /\ read <= sent
  BY DEF FramingInv, TypeOK, RejectHead
<1>2. PICK r \in {"HeaderTooLarge", "Parse"} : Reject(r)
  BY DEF RejectHead
<1> QED
  BY <1>1, <1>2, RejectStep DEF RejectHead, Results

LEMMA ContinueStep ==
    ASSUME FramingInv, WriteContinue
    PROVE  FramingInv'
<1>1. CASE Fail("Encode")
  BY <1>1, FailStep DEF Results
<1>2. CASE /\ continued' = continued \cup {Msg}
           /\ phase' = AfterHead(Request)
           /\ UNCHANGED <<client, read, pos, reader, cur, handled, replies,
                          response, result>>
  <2>1. TypeOK /\ phase = "continue" /\ InRequest
    BY DEF FramingInv, WriteContinue
  <2>2. cur \in Elements(wire) /\ Msg \in Nat /\ (stage = "none" <=> Request.mode = "none")
    BY <2>1, Offsets DEF InRequest, Serving, TypeOK, Msg
  <2>3. phase' \in {"body", "handle"} /\ (phase' = "handle" <=> stage = "none")
    BY <1>2, <2>2 DEF AfterHead
  <2>4. TypeOK'
    BY <1>2, <2>1, <2>2, <2>3 DEF TypeOK, client, reader, Phases
  <2>5. SoFar' /\ WireSync' /\ ExactBodies' /\ OrderedReplies'
    BY <1>2, <2>1, <2>3 DEF FramingInv, SoFar, WireSync, ExactBodies, OrderedReplies, client
  <2>6. InRequest' /\ Gathered'
    BY <1>2, <2>1, <2>2, <2>3
       DEF FramingInv, InRequest, Gathered, Serving, Place, Request, client, reader
  <2> QED
    BY <2>4, <2>5, <2>6 DEF FramingInv
<1> QED
  BY <1>1, <1>2 DEF WriteContinue

\* Where the reader of a request's body stands.
LEMMA InBody ==
    ASSUME FramingInv, phase \in Serving
    PROVE  /\ TypeOK /\ wire \in Streams
           /\ pos \in Nat /\ read \in Nat /\ sent \in Nat /\ remaining \in Nat
           /\ pos <= read /\ read <= sent /\ sent <= Total(wire)
           /\ Len(replies) \in Nat
           /\ cur \in Elements(wire) /\ HeadOf(wire, cur, Len(replies) + 1)
           /\ Size(wire, cur) <= HeaderLimit
           /\ \E k \in Elements(wire) : Place(k)
           /\ body = PayloadBefore(wire, Len(replies) + 1, pos)
BY DEF FramingInv, TypeOK, InRequest, Gathered

\* A step of the body reader keeps what the invariant says of the rest.
LEMMA BodyFrame ==
    ASSUME FramingInv, phase = "body", TypeOK',
           UNCHANGED <<client, phase, cur, output, result>>,
           stage # "none", stage' # "none",
           NEW k \in Elements(wire), Place(k)',
           body' = PayloadBefore(wire, Len(replies) + 1, pos')
    PROVE  FramingInv'
<1>1. SoFar' /\ WireSync' /\ ExactBodies' /\ OrderedReplies'
  BY DEF FramingInv, SoFar, WireSync, ExactBodies, OrderedReplies, client, output
<1>2. wire' = wire /\ replies' = replies /\ phase' = "body" /\ cur' = cur
  BY DEF client, output
<1>3. InRequest'
  BY <1>2 DEF FramingInv, InRequest, Serving, Request
<1>4. Gathered'
  BY <1>2 DEF Gathered
<1> QED
  BY <1>1, <1>3, <1>4 DEF FramingInv

\* Payload is taken, from the buffer or from the socket.
LEMMA TakeStep ==
    ASSUME FramingInv, phase = "body", Draining, NEW n \in Nat, 1 <= n, n <= remaining,
           Take(n), read' \in Nat, pos + n <= read', read' <= sent
    PROVE  FramingInv'
<1>1. PICK k \in Elements(wire) : Place(k)
  BY InBody DEF Serving
<1>2. /\ TypeOK /\ wire \in Streams /\ k \in 0 .. wire.count
      /\ pos \in Nat /\ remaining \in Nat /\ sent \in Nat /\ sent <= Total(wire)
      /\ body = PayloadBefore(wire, Len(replies) + 1, pos)
      /\ wire.to[k] \in Nat /\ wire.el[k].n \in Nat
  BY InBody, Offsets DEF Serving, Element
<1>3. /\ remaining <= wire.el[k].n /\ pos + remaining = wire.to[k] + wire.el[k].n
      /\ wire.msg[k] = Len(replies) + 1 /\ wire.el[k].ok
      /\ \/ stage = "fixed" /\ wire.el[k].kind = "head" /\ wire.el[k].mode = "fixed"
         \/ stage = "data" /\ wire.el[k].kind = "size"
  BY <1>1 DEF Place, Draining
<1>4. /\ pos' = pos + n /\ remaining' = remaining - n
      /\ body' = body \cup (pos .. (pos + n - 1))
      /\ stage' = IF remaining = n THEN IF stage = "fixed" THEN "done" ELSE "crlf"
                                   ELSE stage
      /\ UNCHANGED <<client, phase, cur, output, result>>
  BY DEF Take
<1>5. k + 1 \in Elements(wire)
  <2>1. wire.to[k] < pos + n /\ pos + n <= Total(wire) /\ pos + n \in Nat
    BY <1>2, <1>3, TotalIsNat
  <2> QED
    BY <1>2, <2>1, BytesBeyond
<1>6. /\ Follows(wire, k) /\ Shaped(wire, k + 1) /\ From(wire, k + 1) = wire.to[k]
      /\ wire.msg[k + 1] = IF wire.el[k + 1].kind = "head" THEN wire.msg[k] + 1
                                                          ELSE wire.msg[k]
      /\ wire.to[k + 1] \in Nat
  BY <1>2, <1>3, <1>5, NextElement, Offsets
<1>7. /\ Size(wire, k + 1) = wire.el[k].n
      /\ wire.el[k + 1].kind = IF stage = "fixed" THEN "body" ELSE "data"
  <2>1. wire.el[k].n > 0
    BY <1>2, <1>3
  <2> QED
    BY <1>3, <1>6, <2>1 DEF Follows
<1>8. wire.to[k + 1] = pos + remaining
  BY <1>2, <1>3, <1>6, <1>7 DEF Size, From
<1>9. /\ wire.el[k + 1].ok /\ wire.msg[k + 1] = Len(replies) + 1
      /\ PayloadElement(wire, k + 1)
  BY <1>3, <1>6, <1>7 DEF Shaped, PayloadElement
<1>10. TypeOK'
  <2>1. body' \subseteq Nat /\ stage' \in Stages /\ remaining' \in Nat /\ pos' \in Nat
    BY <1>2, <1>4 DEF TypeOK, Stages
  <2> QED
    BY <1>2, <1>4, <2>1 DEF TypeOK, client, output
<1>11. body' = PayloadBefore(wire, Len(replies) + 1, pos')
  <2>1. From(wire, k + 1) <= pos /\ pos + n <= wire.to[k + 1]
    BY <1>2, <1>3, <1>6, <1>8
  <2>2. Gather(PayloadBefore(wire, wire.msg[k + 1], pos), pos, n)
          = PayloadBefore(wire, wire.msg[k + 1], pos + n)
    BY <1>2, <1>5, <1>9, <2>1, GatherBytes
  <2>3. body' = Gather(body, pos, n)
    BY <1>4 DEF Gather
  <2> QED
    BY <1>2, <1>4, <1>9, <2>2, <2>3
<1>12. wire' = wire /\ replies' = replies
  BY <1>4 DEF client, output
<1>13. CASE remaining = n
  <2>1. Place(k + 1)'
    <3>1. stage' = IF stage = "fixed" THEN "done" ELSE "crlf"
      BY <1>4, <1>13
    <3>2. pos' = wire.to[k + 1]
      BY <1>4, <1>8, <1>13
    <3>3. stage = "fixed" => Completes(wire.el[k + 1])
      BY <1>7 DEF Completes
    <3> QED
      BY <1>3, <1>7, <1>9, <1>12, <3>1, <3>2, <3>3 DEF Place
  <2> QED
    BY <1>3, <1>4, <1>5, <1>10, <1>11, <1>13, <2>1, BodyFrame
<1>14. CASE remaining # n
  <2>1. stage' = stage /\ remaining' \in 1 .. wire.el[k].n
        /\ pos' + remaining' = wire.to[k] + wire.el[k].n
    BY <1>2, <1>3, <1>4, <1>14
  <2>2. Place(k)'
    BY <1>3, <1>12, <2>1 DEF Place
  <2> QED
    BY <1>3, <1>4, <1>10, <1>11, <2>1, <2>2, BodyFrame
<1> QED
  BY <1>13, <1>14

LEMMA PayloadStep ==
    ASSUME FramingInv, TakeBuffered \/ ReadPayload
    PROVE  FramingInv'
<1>1. /\ phase = "body" /\ Draining
      /\ pos \in Nat /\ read \in Nat /\ sent \in Nat /\ remaining \in Nat
      /\ pos <= read /\ read <= sent /\ remaining > 0
  BY InBody DEF TakeBuffered, ReadPayload, Serving, Draining
<1>2. ASSUME TakeBuffered PROVE FramingInv'
  <2>1. /\ Share \in Nat /\ 1 <= Share /\ Share <= remaining /\ pos + Share <= read
        /\ Take(Share) /\ read' = read
    BY <1>1, <1>2 DEF TakeBuffered, Share, Buffered
  <2> QED
    BY <1>1, <2>1, TakeStep
<1>3. ASSUME ReadPayload PROVE FramingInv'
  <2>1. PICK n \in 1 .. (sent - read) : n <= remaining /\ read' = read + n /\ Take(n)
    BY <1>3 DEF ReadPayload
  <2>2. pos + n <= read' /\ read' <= sent /\ read' \in Nat /\ n \in Nat /\ 1 <= n
    BY <1>1, <2>1
  <2> QED
    BY <1>1, <2>1, <2>2, TakeStep
<1> QED
  BY <1>2, <1>3

LEMMA ReadLineStep ==
    ASSUME FramingInv, ReadLine
    PROVE  FramingInv'
<1>1. /\ TypeOK /\ pos \in Nat /\ read \in Nat /\ sent \in Nat
      /\ pos <= read /\ read <= sent
  BY DEF FramingInv, TypeOK
<1>2. read' \in Nat /\ read <= read' /\ read' <= sent
  BY <1>1 DEF ReadLine
<1>3. UNCHANGED <<client, pos, phase, reader, cur, output, result>>
  BY DEF ReadLine
<1>4. TypeOK'
  BY <1>1, <1>2, <1>3 DEF TypeOK, client, reader, output
<1> QED
  BY <1>3, <1>4, QuietStep DEF client

\* The reader moves over one element that is not payload.
LEMMA ConsumeStep ==
    ASSUME FramingInv, phase = "body", stage # "none",
           NEW k \in Elements(wire), k + 1 \in Elements(wire), Place(k),
           pos = wire.to[k], ~PayloadElement(wire, k + 1),
           NEW next \in Stages \ {"none"}, ConsumeTo(wire.to[k + 1], next),
           wire.to[k + 1] <= read, remaining' \in Nat, Place(k + 1)'
    PROVE  FramingInv'
<1>1. /\ TypeOK /\ wire \in Streams
      /\ body = PayloadBefore(wire, Len(replies) + 1, pos)
  BY InBody DEF Serving
<1>2. wire.to[k + 1] \in Nat /\ From(wire, k + 1) = pos
  BY <1>1, Offsets DEF From, Elements
<1>3. /\ pos' = wire.to[k + 1] /\ stage' = next /\ body' = body
      /\ UNCHANGED <<client, read, phase, cur, output, result>>
  BY DEF ConsumeTo
<1>4. TypeOK'
  BY <1>1, <1>2, <1>3 DEF TypeOK, client, output
<1>5. body' = PayloadBefore(wire, Len(replies) + 1, pos')
  BY <1>1, <1>2, <1>3, SkipElement
<1> QED
  BY <1>3, <1>4, <1>5, BodyFrame

\* The element after the last one consumed, when some of it is in the buffer.
LEMMA ElementInView ==
    ASSUME FramingInv, phase = "body", NEW k \in Elements(wire), Place(k),
           pos = wire.to[k], pos < read
    PROVE  /\ k + 1 \in Elements(wire)
           /\ Follows(wire, k) /\ Shaped(wire, k + 1) /\ From(wire, k + 1) = pos
           /\ wire.msg[k + 1] = IF wire.el[k + 1].kind = "head"
                                THEN wire.msg[k] + 1 ELSE wire.msg[k]
           /\ wire.msg[k] = Len(replies) + 1
           /\ wire.to[k + 1] \in Nat /\ wire.el[k + 1].n \in Nat
<1>1. /\ wire \in Streams /\ read \in Nat /\ read <= Total(wire) /\ k \in 0 .. wire.count
      /\ wire.msg[k] = Len(replies) + 1 /\ wire.el[k].ok
  <2>1. /\ wire \in Streams /\ read \in Nat /\ sent \in Nat /\ read <= sent
        /\ sent <= Total(wire)
    BY InBody DEF Serving
  <2> QED
    BY <2>1, TotalIsNat, Offsets DEF Place
<1>2. k + 1 \in Elements(wire)
  BY <1>1, BytesBeyond
<1> QED
  BY <1>1, <1>2, NextElement, Offsets DEF Element

LEMMA ChunkSizeStep ==
    ASSUME FramingInv, ChunkSize
    PROVE  FramingInv'
<1>1. PICK k \in Elements(wire) : Place(k)
  BY InBody DEF Serving, ChunkSize
<1>2. PICK c \in wire.crlf :
          /\ LineIn(wire, pos, read, c)
          /\ \/ \E j \in Elements(wire) :
                   /\ LineAt(j, c, "size")
                   /\ remaining' = wire.el[j].n
                   /\ ConsumeTo(c, AfterSize(wire.el[j].n))
             \/ BadBody
  BY DEF ChunkSize
<1>3. /\ phase = "body" /\ stage = "size" /\ pos = wire.to[k]
      /\ (wire.el[k].kind = "head" /\ wire.el[k].mode = "chunked") \/ wire.el[k].kind = "crlf"
  BY <1>1 DEF ChunkSize, Place
<1>4. /\ wire \in Streams /\ pos \in Nat /\ read \in Nat /\ sent \in Nat
      /\ pos <= read /\ read <= sent /\ k \in 0 .. wire.count
  BY <1>3, InBody, Offsets DEF Serving
<1>5. c \in Nat /\ pos + 2 <= c /\ c <= read
  BY <1>2, <1>4, StreamFacts DEF LineIn, FirstIn
<1>6. CASE BadBody
  BY <1>3, <1>4, <1>6, RejectStep DEF BadBody, Results
<1>7. ASSUME NEW j \in Elements(wire),
             LineAt(j, c, "size"),
             remaining' = wire.el[j].n,
             ConsumeTo(c, AfterSize(wire.el[j].n))
      PROVE  FramingInv'
  <2>1. j = k + 1 /\ wire.to[j] = c /\ wire.el[j].kind = "size" /\ wire.el[j].ok
    BY <1>3, <1>4, <1>7, OneElement DEF LineAt
  <2>2. /\ wire.msg[k + 1] = Len(replies) + 1 /\ wire.el[k + 1].n \in Nat
    BY <1>1, <1>3, <1>4, <1>5, <2>1, ElementInView
  <2>3. AfterSize(wire.el[j].n) = IF wire.el[j].n = 0 THEN "trailers" ELSE "data"
    BY DEF AfterSize
  <2>4. /\ pos' = c /\ stage' = AfterSize(wire.el[j].n) /\ wire' = wire /\ replies' = replies
    BY <1>7 DEF ConsumeTo, client, output
  <2>5. Place(k + 1)'
    <3>1. CASE wire.el[j].n = 0
      BY <2>1, <2>2, <2>3, <2>4, <3>1 DEF Place
    <3>2. CASE wire.el[j].n # 0
      <4>1. remaining' \in 1 .. wire.el[j].n /\ pos' + remaining' = wire.to[j] + wire.el[j].n
        BY <1>7, <2>1, <2>2, <2>4, <3>2
      <4> QED
        BY <2>1, <2>2, <2>3, <2>4, <3>2, <4>1 DEF Place
    <3> QED
      BY <3>1, <3>2
  <2>6. AfterSize(wire.el[j].n) \in Stages \ {"none"}
    BY <2>3 DEF Stages
  <2> QED
    BY <1>1, <1>3, <1>5, <1>7, <2>1, <2>2, <2>5, <2>6, ConsumeStep DEF PayloadElement
<1> QED
  BY <1>2, <1>6, <1>7

LEMMA ChunkCrLfStep ==
    ASSUME FramingInv, ChunkCrLf
    PROVE  FramingInv'
<1>1. PICK k \in Elements(wire) : Place(k)
  BY InBody DEF Serving, ChunkCrLf
<1>2. /\ phase = "body" /\ stage = "crlf" /\ pos = wire.to[k]
      /\ wire.el[k].kind = "data" /\ wire.el[k].ok
  BY <1>1 DEF ChunkCrLf, Place
<1>3. /\ pos \in Nat /\ read \in Nat /\ sent \in Nat /\ pos <= read /\ read <= sent
      /\ remaining \in Nat
  BY <1>2, InBody DEF Serving
<1>4. pos + 2 <= read
  BY <1>3 DEF ChunkCrLf, Buffered
<1>5. CASE pos + 2 \notin wire.crlf
  BY <1>2, <1>3, <1>5, RejectStep DEF ChunkCrLf, BadBody, Results
<1>6. CASE pos + 2 \in wire.crlf
  <2>1. ConsumeTo(pos + 2, "size") /\ remaining' = remaining
    BY <1>6 DEF ChunkCrLf
  <2>2. /\ k + 1 \in Elements(wire) /\ wire.el[k + 1].kind = "crlf"
        /\ wire.msg[k + 1] = Len(replies) + 1
        /\ wire.to[k + 1] = pos + 2 /\ wire.el[k + 1].ok
    <3>1. /\ k + 1 \in Elements(wire) /\ Follows(wire, k) /\ Shaped(wire, k + 1)
          /\ From(wire, k + 1) = pos /\ wire.to[k + 1] \in Nat
          /\ wire.msg[k + 1] = IF wire.el[k + 1].kind = "head"
                               THEN wire.msg[k] + 1 ELSE wire.msg[k]
          /\ wire.msg[k] = Len(replies) + 1
      BY <1>1, <1>2, <1>3, <1>4, ElementInView
    <3>2. wire.el[k + 1].kind = "crlf"
      BY <1>2, <3>1 DEF Follows
    <3>3. Size(wire, k + 1) = 2 /\ (wire.el[k + 1].ok <=> wire.to[k + 1] \in wire.crlf)
      BY <3>1, <3>2 DEF Shaped
    <3>4. wire.to[k + 1] = pos + 2
      BY <1>3, <3>1, <3>3 DEF Size, From
    <3> QED
      BY <1>6, <3>1, <3>2, <3>3, <3>4
  <2>3. pos' = pos + 2 /\ stage' = "size" /\ wire' = wire /\ replies' = replies
    BY <2>1 DEF ConsumeTo, client, output
  <2>4. Place(k + 1)'
    BY <2>2, <2>3 DEF Place
  <2> QED
    BY <1>1, <1>2, <1>3, <1>4, <2>1, <2>2, <2>4, ConsumeStep DEF PayloadElement, Stages
<1> QED
  BY <1>5, <1>6

LEMMA TrailerStep ==
    ASSUME FramingInv, Trailer
    PROVE  FramingInv'
<1>1. PICK k \in Elements(wire) : Place(k)
  BY InBody DEF Serving, Trailer
<1>2. /\ phase = "body" /\ stage = "trailers" /\ pos = wire.to[k]
      /\ (wire.el[k].kind = "size" /\ wire.el[k].n = 0) \/ wire.el[k].kind = "trailer"
  BY <1>1 DEF Trailer, Place
<1>3. /\ wire \in Streams /\ pos \in Nat /\ read \in Nat /\ sent \in Nat
      /\ pos <= read /\ read <= sent /\ remaining \in Nat /\ k \in 0 .. wire.count
  BY <1>2, InBody, Offsets DEF Serving
<1>4. PICK c \in wire.crlf :
          /\ LineIn(wire, pos, read, c)
          /\ IF c = pos + 2
             THEN ConsumeTo(c, "done") /\ UNCHANGED remaining
             ELSE \/ /\ \E j \in Elements(wire) : LineAt(j, c, "trailer")
                     /\ ConsumeTo(c, "trailers")
                     /\ UNCHANGED remaining
                  \/ BadBody
  BY DEF Trailer
<1>5. c \in Nat /\ pos + 2 <= c /\ c <= read
  BY <1>3, <1>4, StreamFacts DEF LineIn, FirstIn
<1>6. /\ k + 1 \in Elements(wire) /\ Shaped(wire, k + 1) /\ From(wire, k + 1) = pos
      /\ wire.el[k + 1].kind \in {"trailer", "blank"}
      /\ wire.msg[k + 1] = Len(replies) + 1
  <2>1. /\ k + 1 \in Elements(wire) /\ Follows(wire, k) /\ Shaped(wire, k + 1)
        /\ From(wire, k + 1) = pos
        /\ wire.msg[k + 1] = IF wire.el[k + 1].kind = "head"
                             THEN wire.msg[k] + 1 ELSE wire.msg[k]
        /\ wire.msg[k] = Len(replies) + 1
    BY <1>1, <1>2, <1>3, <1>5, ElementInView
  <2>2. wire.el[k + 1].kind \in {"trailer", "blank"}
    BY <1>2, <2>1 DEF Follows
  <2> QED
    BY <2>1, <2>2
<1>7. c = wire.to[k + 1] /\ (c = pos + 2 <=> wire.el[k + 1].kind = "blank")
  BY <1>3, <1>4, <1>6, LineTerminator
<1>8. CASE BadBody
  BY <1>2, <1>3, <1>8, RejectStep DEF BadBody, Results
<1>9. CASE c = pos + 2
  <2>1. ConsumeTo(c, "done") /\ remaining' = remaining
    BY <1>4, <1>9
  <2>2. pos' = c /\ stage' = "done" /\ wire' = wire /\ replies' = replies
    BY <2>1 DEF ConsumeTo, client, output
  <2>3. wire.el[k + 1].kind = "blank" /\ wire.el[k + 1].ok /\ Completes(wire.el[k + 1])
    BY <1>6, <1>7, <1>9 DEF Shaped, Completes
  <2>4. Place(k + 1)'
    BY <1>6, <1>7, <2>2, <2>3 DEF Place
  <2> QED
    BY <1>1, <1>2, <1>3, <1>5, <1>6, <1>7, <2>1, <2>3, <2>4, ConsumeStep
       DEF PayloadElement, Stages
<1>10. ASSUME NEW j \in Elements(wire), LineAt(j, c, "trailer"),
              ConsumeTo(c, "trailers"), UNCHANGED remaining
       PROVE  FramingInv'
  <2>1. j = k + 1 /\ wire.el[j].kind = "trailer" /\ wire.el[j].ok
    BY <1>2, <1>3, <1>10, OneElement DEF LineAt
  <2>2. pos' = c /\ stage' = "trailers" /\ wire' = wire /\ replies' = replies
    BY <1>10 DEF ConsumeTo, client, output
  <2>3. Place(k + 1)'
    BY <1>6, <1>7, <2>1, <2>2 DEF Place
  <2> QED
    BY <1>1, <1>2, <1>3, <1>5, <1>6, <1>7, <1>10, <2>1, <2>3, ConsumeStep
       DEF PayloadElement, Stages
<1> QED
  BY <1>4, <1>8, <1>9, <1>10

LEMMA BodyEndsStep ==
    ASSUME FramingInv, BodyRead \/ BodyEof \/ BodyIoError \/ BodyTimeout
    PROVE  FramingInv'
<1>1. /\ phase = "body" /\ TypeOK
      /\ pos \in Nat /\ read \in Nat /\ sent \in Nat /\ pos <= read /\ read <= sent
  BY DEF FramingInv, TypeOK, BodyRead, BodyEof, BodyIoError, BodyTimeout
<1>2. ASSUME BodyRead PROVE FramingInv'
  <2>1. /\ stage = "done" /\ phase' = "handle"
        /\ UNCHANGED <<client, read, pos, reader, cur, output, result>>
    BY <1>2 DEF BodyRead, BodyComplete
  <2>2. TypeOK'
    BY <1>1, <2>1 DEF TypeOK, client, reader, output, Phases
  <2>3. SoFar' /\ WireSync' /\ ExactBodies' /\ OrderedReplies'
    BY <1>1, <2>1 DEF FramingInv, SoFar, WireSync, ExactBodies, OrderedReplies, client, output
  <2>4. InRequest' /\ Gathered'
    BY <1>1, <2>1 DEF FramingInv, InRequest, Gathered, Serving, Place, Request,
                      client, reader, output
  <2> QED
    BY <2>2, <2>3, <2>4 DEF FramingInv
<1>3. ASSUME BodyEof \/ BodyIoError PROVE FramingInv'
  BY <1>1, <1>3, RejectStep DEF BodyEof, BodyIoError, BadBody, Results
<1>4. ASSUME BodyTimeout PROVE FramingInv'
  BY <1>1, <1>4, RejectStep DEF BodyTimeout, Results
<1> QED
  BY <1>2, <1>3, <1>4

\* When a request is ready for its handler, it is whole, and so is its payload.
LEMMA RequestReady ==
    ASSUME FramingInv, phase \in {"handle", "respond"}
    PROVE  /\ \E k \in Elements(wire) : /\ pos = wire.to[k] /\ wire.msg[k] = Len(replies) + 1
                                        /\ wire.el[k].ok /\ Completes(wire.el[k])
           /\ Msg = Len(replies) + 1
           /\ body = Payload(wire, Len(replies) + 1)
           /\ stage \in {"none", "done"}
<1>1. stage \in {"none", "done"} /\ Msg = Len(replies) + 1
  BY DEF FramingInv, InRequest, Serving, HeadOf, Msg
<1>2. PICK k \in Elements(wire) : Place(k)
  BY InBody DEF Serving
<1>3. /\ pos = wire.to[k] /\ wire.msg[k] = Len(replies) + 1
      /\ wire.el[k].ok /\ Completes(wire.el[k])
  BY <1>1, <1>2 DEF Place
<1>4. body = PayloadBefore(wire, wire.msg[k], wire.to[k]) /\ wire \in Streams
  BY <1>3, InBody DEF Serving
<1>5. PayloadBefore(wire, wire.msg[k], wire.to[k]) = Payload(wire, wire.msg[k])
  BY <1>3, <1>4, AllBehind
<1> QED
  BY <1>1, <1>3, <1>4, <1>5

LEMMA HandleStep ==
    ASSUME FramingInv, Handle
    PROVE  FramingInv'
<1> DEFINE call == [msg |-> Msg, body |-> body]
<1>1. /\ phase = "handle" /\ TypeOK /\ Len(replies) \in Nat
      /\ Len(handled) = Len(replies) /\ body \subseteq Nat
      /\ \A j \in DOMAIN replies : replies[j].kind = "response" /\ ~replies[j].close
      /\ ExactBodies /\ OrderedReplies
  BY DEF FramingInv, SoFar, TypeOK, Handle
<1>2. Msg = Len(replies) + 1 /\ body = Payload(wire, Len(replies) + 1)
  BY <1>1, RequestReady
<1>3. handled \in Seq(Call) /\ call \in Call
  BY <1>1, <1>2 DEF TypeOK, Call
<1>4. /\ handled' = Append(handled, call)
      /\ UNCHANGED <<client, read, pos, reader, cur, continued, replies>>
  BY DEF Handle
<1>5. /\ handled' \in Seq(Call) /\ Len(handled') = Len(replies) + 1
      /\ \A j \in 1 .. Len(handled) : handled'[j] = handled[j]
      /\ handled'[Len(handled) + 1] = call
  BY <1>1, <1>3, <1>4
<1>6. /\ response' \in Response
      /\ \/ phase' = "respond" /\ result' = result
         \/ phase' = "done" /\ result' = "Panic"
  BY <1>1, ResponsesAssumption DEF TypeOK, Handle, Return
<1>7. TypeOK'
  BY <1>1, <1>4, <1>5, <1>6 DEF TypeOK, client, reader, Phases, Results
<1>8. ExactBodies'
  BY <1>1, <1>2, <1>4, <1>5 DEF ExactBodies, client
<1>9. OrderedReplies'
  BY <1>1, <1>4, <1>5 DEF OrderedReplies
<1>10. CASE phase' = "done"
  BY <1>7, <1>8, <1>9, <1>10, EndStep
<1>11. CASE phase' = "respond" /\ result' = result
  <2>1. SoFar' /\ WireSync'
    BY <1>1, <1>4, <1>5, <1>11 DEF FramingInv, SoFar, WireSync
  <2>2. InRequest' /\ Gathered'
    BY <1>1, <1>4, <1>11 DEF FramingInv, InRequest, Gathered, Serving, Place, Request,
                             client, reader
  <2> QED
    BY <1>7, <1>8, <1>9, <2>1, <2>2 DEF FramingInv
<1> QED
  BY <1>6, <1>10, <1>11

\* A reply to the request that was handled last is added.
LEMMA AnswerStep ==
    ASSUME FramingInv, phase = "respond", NEW kind \in {"response", "partial"},
           NEW close \in BOOLEAN, Answer(kind, 0, Msg, close), handled' = handled
    PROVE  /\ replies' \in Seq(Reply) /\ Len(replies') = Len(replies) + 1
           /\ \A j \in 1 .. Len(replies) : replies'[j] = replies[j]
           /\ replies'[Len(replies) + 1] = [kind |-> kind, status |-> 0,
                                            msg |-> Msg, close |-> close]
           /\ OrderedReplies'
<1> DEFINE new == [kind |-> kind, status |-> 0, msg |-> Msg, close |-> close]
<1>1. /\ replies \in Seq(Reply) /\ Len(replies) \in Nat /\ Len(handled) = Len(replies) + 1
      /\ \A j \in DOMAIN replies : replies[j].kind = "response" /\ ~replies[j].close
      /\ OrderedReplies
  BY DEF FramingInv, SoFar, TypeOK
<1>2. Msg = Len(replies) + 1
  BY RequestReady
<1>3. new \in Reply
  BY <1>1, <1>2 DEF Reply
<1>4. replies' = Append(replies, new)
  BY DEF Answer
<1>5. /\ replies' \in Seq(Reply) /\ Len(replies') = Len(replies) + 1
      /\ \A j \in 1 .. Len(replies) : replies'[j] = replies[j]
      /\ replies'[Len(replies) + 1] = new
  BY <1>1, <1>3, <1>4
<1>6. OrderedReplies'
  BY <1>1, <1>2, <1>5 DEF OrderedReplies
<1> QED
  BY <1>5, <1>6

LEMMA WriteStep ==
    ASSUME FramingInv, WriteResponse \/ WriteFails
    PROVE  FramingInv'
<1>1. /\ phase = "respond" /\ TypeOK /\ Len(replies) \in Nat
      /\ Len(handled) = Len(replies) + 1
      /\ \A j \in DOMAIN replies : replies[j].kind = "response" /\ ~replies[j].close
      /\ ExactBodies /\ OrderedReplies /\ result = "running"
  <2>1. phase = "respond"
    BY DEF WriteResponse, WriteFails
  <2>2. TypeOK /\ SoFar /\ ExactBodies /\ OrderedReplies
    BY DEF FramingInv
  <2>3. Len(replies) \in Nat
    BY <2>2 DEF TypeOK
  <2> QED
    BY <2>1, <2>2, <2>3 DEF SoFar
<1>2. UNCHANGED <<client, read, pos, reader, cur, handled, continued, response>>
  BY DEF WriteResponse, WriteFails
<1>3. ExactBodies'
  BY <1>1, <1>2 DEF ExactBodies, client
<1>4. ASSUME WriteResponse PROVE FramingInv'
  <2>1. Closes \in BOOLEAN
    BY DEF Closes, RequestClose
  <2>2. Answer("response", 0, Msg, Closes)
    BY <1>4 DEF WriteResponse
  <2>3. /\ replies' \in Seq(Reply) /\ Len(replies') = Len(replies) + 1
        /\ \A j \in 1 .. Len(replies) : replies'[j] = replies[j]
        /\ replies'[Len(replies) + 1] = [kind |-> "response", status |-> 0,
                                         msg |-> Msg, close |-> Closes]
        /\ OrderedReplies'
    BY <1>1, <1>2, <2>1, <2>2, AnswerStep
  <2>4. /\ phase' \in {"done", "idle"} /\ result' \in Results
        /\ phase' = "idle" => ~Closes /\ result' = "running"
    BY <1>1, <1>4 DEF WriteResponse, Return, Results
  <2>5. TypeOK'
    BY <1>1, <1>2, <2>3, <2>4 DEF TypeOK, client, reader, Phases
  <2>6. CASE phase' = "done"
    BY <1>3, <2>3, <2>5, <2>6, EndStep
  <2>7. CASE phase' = "idle"
    <3>1. SoFar'
      BY <1>1, <1>2, <2>3, <2>4, <2>7 DEF SoFar
    <3>2. WireSync'
      <4>1. Boundary(wire, pos, Len(replies) + 1)
        BY <1>1, RequestReady DEF Boundary
      <4> QED
        BY <1>2, <2>3, <4>1 DEF WireSync, client
    <3> QED
      BY <1>3, <2>3, <2>5, <2>7, <3>1, <3>2 DEF FramingInv, InRequest, Gathered, Serving
  <2> QED
    BY <2>4, <2>6, <2>7
<1>5. ASSUME WriteFails PROVE FramingInv'
  <2>1. phase' = "done" /\ result' = "Encode"
    BY <1>5 DEF WriteFails, Return
  <2>2. CASE replies' = replies
    <3>1. TypeOK'
      BY <1>1, <1>2, <2>1, <2>2 DEF TypeOK, client, reader, Phases, Results
    <3>2. OrderedReplies'
      BY <1>1, <1>2, <2>2 DEF OrderedReplies
    <3> QED
      BY <1>3, <2>1, <3>1, <3>2, EndStep
  <2>3. CASE Answer("partial", 0, Msg, TRUE)
    <3>1. replies' \in Seq(Reply) /\ OrderedReplies'
      BY <1>1, <1>2, <2>3, AnswerStep
    <3>2. TypeOK'
      BY <1>1, <1>2, <2>1, <3>1 DEF TypeOK, client, reader, Phases, Results
    <3> QED
      BY <1>3, <2>1, <3>1, <3>2, EndStep
  <2> QED
    BY <1>5, <2>2, <2>3 DEF WriteFails
<1> QED
  BY <1>4, <1>5

LEMMA NextFraming == FramingInv /\ [Next]_vars => FramingInv'
<1> SUFFICES ASSUME FramingInv, [Next]_vars PROVE FramingInv'
  OBVIOUS
<1>1. ASSUME UNCHANGED vars PROVE FramingInv'
  <2>1. TypeOK'
    BY <1>1 DEF FramingInv, TypeOK, vars, client, reader, output
  <2> QED
    BY <1>1, <2>1, QuietStep DEF vars, client
<1>2. ASSUME Client PROVE FramingInv'
  BY <1>2, ClientStep
<1>3. ASSUME Server PROVE FramingInv'
  BY <1>3, AwaitHeadStep, ParseHeadStep, RejectHeadStep, ContinueStep, PayloadStep,
     ReadLineStep, ChunkSizeStep, ChunkCrLfStep, TrailerStep, BodyEndsStep, HandleStep,
     WriteStep, ErrorStep
     DEF Server
<1> QED
  BY <1>1, <1>2, <1>3 DEF Next, Terminated

\* In every reachable state the parser, the body reader and the replies agree with
\* the framing the client meant.
THEOREM Framing == Spec => []FramingInv
BY InitFraming, NextFraming, PTL DEF Spec

\* Every variable keeps to its type: no reader passes the bytes it was given.
THEOREM TypeCorrect == Spec => []TypeOK
<1>1. FramingInv => TypeOK
  BY DEF FramingInv
<1> QED
  BY <1>1, Framing, PTL

\* Whenever the loop waits for a request, the parser stands at the start of one, and
\* all requests before it are answered.
THEOREM WireStaysInSync == Spec => []WireSync
<1>1. FramingInv => WireSync
  BY DEF FramingInv
<1> QED
  BY <1>1, Framing, PTL

\* The handler sees the requests in order, each with exactly its payload.
THEOREM BodiesAreExact == Spec => []ExactBodies
<1>1. FramingInv => ExactBodies
  BY DEF FramingInv
<1> QED
  BY <1>1, Framing, PTL

\* Replies come in order, one to a request, and none after one that closes.
THEOREM RepliesAreOrdered == Spec => []OrderedReplies
<1>1. FramingInv => OrderedReplies
  BY DEF FramingInv
<1> QED
  BY <1>1, Framing, PTL

-----------------------------------------------------------------------------
\* Connection implements RequestServer: each step maps to a step or a stutter.

\* RequestServer speaks of the stream in the same words.
LEMMA SameWords ==
    ASSUME NEW w, NEW k, NEW m
    PROVE  /\ Promised!Elements(w) = Elements(w)
           /\ Promised!HeadOf(w, k, m) <=> HeadOf(w, k, m)
           /\ Promised!Size(w, k) = Size(w, k)
           /\ Promised!Completes(w.el[k]) <=> Completes(w.el[k])
           /\ Promised!Payload(w, m) = Payload(w, m)
<1>1. Promised!Elements(w) = Elements(w)
  BY DEF Promised!Elements, Elements
<1>2. Promised!HeadOf(w, k, m) <=> HeadOf(w, k, m)
  BY DEF Promised!HeadOf, HeadOf
<1>3. Promised!Size(w, k) = Size(w, k)
  BY DEF Promised!Size, Size
<1>4. Promised!Completes(w.el[k]) <=> Completes(w.el[k])
  BY DEF Promised!Completes, Completes
<1>5. Promised!Payload(w, m) = Payload(w, m)
  BY DEF Promised!Payload, Payload, Promised!Elements, Elements, Promised!From, From
<1> QED
  BY <1>1, <1>2, <1>3, <1>4, <1>5

\* A step in which the connection lasts and nobody hears of it.
LEMMA SilentStep ==
    ASSUME UNCHANGED <<wire, handled, replies>>, phase # "done", phase' # "done"
    PROVE  [Promised!Next]_(Promised!vars)
BY DEF Promised!vars

\* A step that ends the connection without a word.
LEMMA BreakStep ==
    ASSUME UNCHANGED <<wire, handled, replies>>, phase # "done", phase' = "done"
    PROVE  [Promised!Next]_(Promised!vars)
BY DEF Promised!Next, Promised!Break

LEMMA ErrorPromise ==
    ASSUME FramingInv, WriteError
    PROVE  [Promised!Next]_(Promised!vars)
<1>1. phase = "reject" /\ Len(handled) = Len(replies) /\ Len(replies) \in Nat
  BY DEF FramingInv, SoFar, TypeOK, WriteError
<1>2. phase' = "done" /\ UNCHANGED <<wire, handled>>
  BY DEF WriteError, Return, client
<1>3. CASE replies' = replies
  BY <1>1, <1>2, <1>3, BreakStep
<1>4. CASE Answer("error", ErrorStatus, Len(replies) + 1, TRUE)
  <2>1. ~Promised!Waiting
    BY <1>1 DEF Promised!Waiting
  <2>2. Promised!Reply("error", ErrorStatus, Len(replies) + 1, TRUE)
    BY <1>4 DEF Promised!Reply, Answer
  <2>3. ErrorStatus \in {400, 408}
    BY DEF ErrorStatus
  <2>4. Promised!Refuse
    BY <1>1, <1>2, <2>1, <2>2, <2>3 DEF Promised!Refuse
  <2> QED
    BY <2>4 DEF Promised!Next
<1> QED
  BY <1>3, <1>4 DEF WriteError

LEMMA AwaitHeadPromise ==
    ASSUME FramingInv,
           ReadHead \/ RejectLongHead \/ HeadEof \/ HeadIoError \/ HeadTimeout \/ RejectHead
    PROVE  [Promised!Next]_(Promised!vars)
<1>1. phase = "idle"
  BY DEF ReadHead, RejectLongHead, HeadEof, HeadIoError, HeadTimeout, RejectHead
<1>2. ASSUME NEW r \in Results, Fail(r)
      PROVE  [Promised!Next]_(Promised!vars)
  BY <1>1, <1>2, BreakStep DEF Fail, Return, client, output
<1>3. ASSUME NEW r \in Results, Reject(r)
      PROVE  [Promised!Next]_(Promised!vars)
  BY <1>1, <1>3, SilentStep DEF Reject, client, output
<1>4. CASE UNCHANGED <<client, phase, reader, cur, output, result>>
  BY <1>1, <1>4, SilentStep DEF client, output
<1>5. \/ UNCHANGED <<client, phase, reader, cur, output, result>>
      \/ \E r \in Results : Fail(r)
      \/ \E r \in Results : Reject(r)
  <2>1. CASE ReadHead
    <3>1. PICK n \in 1 .. (sent - read) :
             IF HeadExceedsLimit(read + n)
             THEN Reject("HeaderTooLarge")
             ELSE UNCHANGED <<client, phase, reader, cur, output, result>>
      BY <2>1 DEF ReadHead
    <3> QED
      BY <3>1 DEF Results
  <2>2. CASE RejectLongHead \/ HeadEof \/ HeadIoError \/ HeadTimeout
    BY <2>2 DEF RejectLongHead, HeadEof, HeadIoError, HeadTimeout, Results
  <2>3. CASE RejectHead
    <3>1. PICK r \in {"HeaderTooLarge", "Parse"} : Reject(r)
      BY <2>3 DEF RejectHead
    <3> QED
      BY <3>1 DEF Results
  <2> QED
    BY <2>1, <2>2, <2>3
<1> QED
  BY <1>2, <1>3, <1>4, <1>5

LEMMA BodyPromise ==
    ASSUME FramingInv,
           \/ ParseHead \/ WriteContinue \/ TakeBuffered \/ ReadPayload \/ ReadLine
           \/ ChunkSize \/ ChunkCrLf \/ Trailer \/ BodyRead
           \/ BodyEof \/ BodyIoError \/ BodyTimeout
    PROVE  [Promised!Next]_(Promised!vars)
<1>1. ASSUME phase # "done", phase' # "done", UNCHANGED <<client, output>>
      PROVE  [Promised!Next]_(Promised!vars)
  BY <1>1, SilentStep DEF client, output
<1>2. ASSUME phase = "body", NEW r \in Results, Reject(r)
      PROVE  [Promised!Next]_(Promised!vars)
  BY <1>2, SilentStep DEF Reject, client, output
<1>3. ASSUME phase = "body", BadBody
      PROVE  [Promised!Next]_(Promised!vars)
  BY <1>2, <1>3 DEF BadBody, Results
<1>4. ASSUME phase = "body", NEW c, NEW next, ConsumeTo(c, next)
      PROVE  [Promised!Next]_(Promised!vars)
  BY <1>1, <1>4 DEF ConsumeTo
<1>5. ASSUME phase = "body", NEW n, Take(n)
      PROVE  [Promised!Next]_(Promised!vars)
  BY <1>1, <1>5 DEF Take
<1>6. ASSUME ParseHead PROVE [Promised!Next]_(Promised!vars)
  BY <1>1, <1>6 DEF ParseHead, AfterExpect, AfterHead
<1>7. ASSUME WriteContinue PROVE [Promised!Next]_(Promised!vars)
  <2>1. CASE Fail("Encode")
    BY <1>7, <2>1, BreakStep DEF WriteContinue, Fail, Return, client, output
  <2>2. CASE phase' = AfterHead(Request) /\ UNCHANGED <<client, handled, replies>>
    BY <1>7, <2>2, SilentStep DEF WriteContinue, AfterHead, client
  <2> QED
    BY <1>7, <2>1, <2>2 DEF WriteContinue
<1>8. ASSUME TakeBuffered \/ ReadPayload PROVE [Promised!Next]_(Promised!vars)
  BY <1>5, <1>8 DEF TakeBuffered, ReadPayload
<1>9. ASSUME ReadLine \/ BodyRead PROVE [Promised!Next]_(Promised!vars)
  BY <1>1, <1>9 DEF ReadLine, BodyRead
<1>10. ASSUME ChunkSize \/ ChunkCrLf \/ Trailer PROVE [Promised!Next]_(Promised!vars)
  BY <1>3, <1>4, <1>10 DEF ChunkSize, ChunkCrLf, Trailer
<1>11. ASSUME BodyEof \/ BodyIoError \/ BodyTimeout
       PROVE  [Promised!Next]_(Promised!vars)
  BY <1>2, <1>3, <1>11 DEF BodyEof, BodyIoError, BodyTimeout, Results
<1> QED
  BY <1>6, <1>7, <1>8, <1>9, <1>10, <1>11

\* A request has one head.
LEMMA OneHead ==
    ASSUME NEW w \in Streams, NEW j \in Elements(w), NEW k \in Elements(w), NEW m,
           HeadOf(w, j, m), HeadOf(w, k, m)
    PROVE  j = k
<1>1. /\ w.el[j].kind = "head" /\ w.el[k].kind = "head" /\ w.msg[j] = w.msg[k]
      /\ j \in Nat /\ k \in Nat /\ w.msg[k] \in Nat
  BY Offsets DEF HeadOf
<1>2. /\ j < k => w.msg[j] < w.msg[k]
      /\ k < j => w.msg[k] < w.msg[j]
  BY <1>1, StreamFacts DEF Numbered
<1> QED
  BY <1>1, <1>2

LEMMA InvokePromise ==
    ASSUME FramingInv, Handle
    PROVE  [Promised!Next]_(Promised!vars)
<1>1. /\ phase = "handle" /\ Len(handled) = Len(replies) /\ Len(replies) \in Nat
      /\ cur \in Elements(wire) /\ HeadOf(wire, cur, Len(replies) + 1)
      /\ Size(wire, cur) <= HeaderLimit
  BY InBody DEF FramingInv, SoFar, Handle, Serving
<1>2. /\ Msg = Len(replies) + 1 /\ body = Payload(wire, Len(replies) + 1)
      /\ \E k \in Elements(wire) : /\ wire.msg[k] = Len(replies) + 1
                                   /\ wire.el[k].ok /\ Completes(wire.el[k])
  BY <1>1, RequestReady
<1>3. ~Promised!Waiting /\ Promised!Whole(Len(replies) + 1)
  <2>1. ~Promised!Waiting
    BY <1>1 DEF Promised!Waiting
  <2>2. \E k \in Promised!Elements(wire) :
            Promised!HeadOf(wire, k, Len(replies) + 1) /\ Promised!Size(wire, k) <= HeaderLimit
    BY <1>1, SameWords
  <2>3. \E k \in Promised!Elements(wire) :
            /\ wire.msg[k] = Len(replies) + 1
            /\ wire.el[k].ok /\ Promised!Completes(wire.el[k])
    BY <1>2, SameWords
  <2> QED
    BY <2>1, <2>2, <2>3 DEF Promised!Whole
<1>4. /\ handled' = Append(handled, [msg  |-> Len(replies) + 1,
                                     body |-> Payload(wire, Len(replies) + 1)])
      /\ UNCHANGED <<wire, replies>>
  BY <1>2 DEF Handle, client
<1>5. (phase # "done")' \in BOOLEAN
  OBVIOUS
<1>6. Promised!Invoke
  BY <1>1, <1>3, <1>4, <1>5, SameWords DEF Promised!Invoke
<1> QED
  BY <1>6 DEF Promised!Next

LEMMA WritePromise ==
    ASSUME FramingInv, WriteResponse \/ WriteFails
    PROVE  [Promised!Next]_(Promised!vars)
<1>1. phase = "respond"
  BY DEF WriteResponse, WriteFails
<1>2. /\ Len(handled) = Len(replies) + 1 /\ Len(replies) \in Nat
      /\ wire \in Streams /\ cur \in Elements(wire)
      /\ HeadOf(wire, cur, Len(handled)) /\ Msg = Len(handled)
  BY <1>1, InBody, RequestReady DEF FramingInv, SoFar, Serving
<1>3. Promised!Waiting
  BY <1>2 DEF Promised!Waiting
<1>4. UNCHANGED <<wire, handled>>
  BY DEF WriteResponse, WriteFails, client
<1>5. ASSUME WriteResponse PROVE [Promised!Next]_(Promised!vars)
  <2>1. Closes \in BOOLEAN
    BY DEF Closes, RequestClose
  <2>2. Promised!LastRequest(Len(handled)) => Closes
    <3> SUFFICES ASSUME Promised!LastRequest(Len(handled)) PROVE Closes
      OBVIOUS
    <3>1. PICK k \in Elements(wire) :
             /\ HeadOf(wire, k, Len(handled))
             /\ wire.el[k].conn = "close" \/ wire.el[k].version = "1.0"
      BY SameWords DEF Promised!LastRequest
    <3>2. k = cur
      BY <1>2, <3>1, OneHead
    <3> QED
      BY <3>1, <3>2 DEF Closes, RequestClose, Request
  <2>3. Promised!Reply("response", 0, Len(handled), Closes)
    BY <1>2, <1>5 DEF WriteResponse, Answer, Promised!Reply
  <2>4. (phase # "done")' = ~Closes
    BY <1>5 DEF WriteResponse, Return
  <2>5. Promised!Respond
    BY <1>1, <1>3, <1>4, <2>1, <2>2, <2>3, <2>4 DEF Promised!Respond
  <2> QED
    BY <2>5 DEF Promised!Next
<1>6. ASSUME WriteFails PROVE [Promised!Next]_(Promised!vars)
  <2>1. phase' = "done"
    BY <1>6 DEF WriteFails, Return
  <2>2. CASE replies' = replies
    BY <1>1, <1>4, <2>1, <2>2, BreakStep
  <2>3. CASE Answer("partial", 0, Msg, TRUE)
    <3>1. Promised!Reply("partial", 0, Len(handled), TRUE)
      BY <1>2, <2>3 DEF Answer, Promised!Reply
    <3>2. Promised!Break
      BY <1>1, <1>3, <1>4, <2>1, <3>1 DEF Promised!Break
    <3> QED
      BY <3>2 DEF Promised!Next
  <2> QED
    BY <1>6, <2>2, <2>3 DEF WriteFails
<1> QED
  BY <1>5, <1>6

\* The connection is a RequestServer: whatever the segments, timers, failures and
\* reads past the end of a body, the client and the handler see requests served one
\* at a time, in order, with their own payload, until a reply that ends it.
THEOREM ConnectionImplementsRequestServer == Spec => Promise
<1>1. Init => Promised!Init
  BY DEF Init, Promised!Init
<1>2. FramingInv /\ [Next]_vars => [Promised!Next]_(Promised!vars)
  <2> SUFFICES ASSUME FramingInv, [Next]_vars PROVE [Promised!Next]_(Promised!vars)
    OBVIOUS
  <2>1. ASSUME UNCHANGED <<wire, handled, replies, phase>>
        PROVE  [Promised!Next]_(Promised!vars)
    BY <2>1 DEF Promised!vars
  <2>2. ASSUME Client PROVE [Promised!Next]_(Promised!vars)
    BY <2>1, <2>2 DEF Client, ClientSends, ClientShutsDown, ClientResets, output
  <2>3. ASSUME Server PROVE [Promised!Next]_(Promised!vars)
    BY <2>3, AwaitHeadPromise, BodyPromise, InvokePromise, WritePromise, ErrorPromise
       DEF Server
  <2> QED
    BY <2>1, <2>2, <2>3 DEF Next, Terminated, vars, client, output
<1> QED
  BY <1>1, <1>2, Framing, PTL DEF Spec, Promise, Promised!Spec

-----------------------------------------------------------------------------
\* The size limit, interim responses, and the end of the connection.

\* A connection that has ended by the client's shutdown alone.
QuietEnd ==
    result = "Ok" /\ (replies = <<>> \/ ~replies[Len(replies)].close)
        => eof /\ pos = sent /\ Boundary(wire, sent, Len(replies))

\* FramingInv says nothing of these, nor they of the middle of a request.
Ends ==
    /\ SizeVerdict
    /\ phase = "continue" => Request.expect
    /\ ContinueBeforeBody
    /\ QuietEnd

\* The request whose bytes are waited for, when some of them are there.
LEMMA NextHead ==
    ASSUME NEW w \in Streams, NEW p \in Nat, NEW q \in Nat, NEW m \in Nat,
           Boundary(w, p, m), p < q, q <= Total(w)
    PROVE  \E k \in Elements(w) : w.el[k].kind = "head" /\ From(w, k) = p
<1>1. CASE p = 0 /\ m = 0
  <2>1. 1 \in Elements(w) /\ w.to[1 - 1] = 0 /\ w.el[1].kind = "head"
    BY StreamFacts DEF Elements
  <2> QED
    BY <1>1, <2>1 DEF From
<1>2. ASSUME NEW j \in Elements(w), p = w.to[j], w.el[j].ok, Completes(w.el[j])
      PROVE  \E k \in Elements(w) : w.el[k].kind = "head" /\ From(w, k) = p
  <2>1. j + 1 \in Elements(w)
    BY <1>2, Offsets, BytesBeyond
  <2>2. Follows(w, j) /\ From(w, j + 1) = w.to[j]
    BY <1>2, <2>1, NextElement
  <2> QED
    BY <1>2, <2>1, <2>2 DEF Follows
<1> QED
  BY <1>1, <1>2 DEF Boundary

TooLong == \E k \in Elements(wire) : /\ wire.el[k].kind = "head" /\ From(wire, k) = pos
                                     /\ Size(wire, k) > HeaderLimit

\* More than the limit is buffered, and no head within the limit is among it.
LEMMA LongHead ==
    ASSUME FramingInv, phase = "idle", NEW q \in Nat, q <= Total(wire), q - pos > HeaderLimit,
           \A c \in HeadEnds(wire) : HeadIn(wire, pos, q, c) => c - pos > HeaderLimit
    PROVE  TooLong
<1>1. /\ wire \in Streams /\ pos \in Nat /\ Boundary(wire, pos, Len(replies))
      /\ Len(replies) \in Nat /\ HeaderLimit \in Nat
  BY LimitAssumption DEF FramingInv, TypeOK, WireSync
<1>2. PICK k \in Elements(wire) : wire.el[k].kind = "head" /\ From(wire, k) = pos
  BY <1>1, NextHead
<1>3. HeadIn(wire, pos, wire.to[k], wire.to[k]) /\ wire.to[k] \in Nat
  BY <1>1, <1>2, StreamFacts, Offsets DEF Shaped
<1>4. CASE wire.to[k] <= q
  <2>1. HeadIn(wire, pos, q, wire.to[k]) /\ wire.to[k] \in HeadEnds(wire)
    BY <1>3, <1>4 DEF HeadIn, FirstIn
  <2> QED
    BY <1>2, <2>1 DEF Size, From, TooLong
<1>5. CASE wire.to[k] > q
  BY <1>1, <1>2, <1>3, <1>5 DEF Size, From, TooLong
<1> QED
  BY <1>3, <1>4, <1>5

\* A step that ends the connection, or has ended it, with a verdict on no size.
LEMMA EndKeepsEnds ==
    ASSUME Ends, phase' = "done", UNCHANGED <<wire, handled, continued>>,
           result' \notin {"HeaderTooLarge", "Ok"}
    PROVE  Ends'
BY DEF Ends, SizeVerdict, ContinueBeforeBody, QuietEnd

\* A step within the body of a request.
LEMMA WithinKeepsEnds ==
    ASSUME FramingInv, Ends, phase \in {"idle", "body"}, phase' \in {phase, "handle"},
           UNCHANGED <<wire, cur, handled, continued, result>>
    PROVE  Ends'
<1>1. result = "running"
  BY DEF FramingInv, SoFar
<1> QED
  BY <1>1 DEF Ends, SizeVerdict, ContinueBeforeBody, QuietEnd, Request, Msg

LEMMA RejectKeepsEnds ==
    ASSUME Ends, NEW r, r \notin {"HeaderTooLarge", "Ok"}, Reject(r)
    PROVE  Ends'
<1>1. /\ phase' = "reject" /\ result' = r
      /\ UNCHANGED <<wire, handled, continued>>
  BY DEF Reject, client, output
<1> QED
  BY <1>1 DEF Ends, SizeVerdict, ContinueBeforeBody, QuietEnd

LEMMA RejectLongKeepsEnds ==
    ASSUME Ends, Reject("HeaderTooLarge"), pos' = pos, TooLong
    PROVE  Ends'
<1>1. /\ phase' = "reject" /\ result' = "HeaderTooLarge"
      /\ UNCHANGED <<wire, handled, continued>>
  BY DEF Reject, client, output
<1>2. SizeVerdict'
  BY <1>1 DEF Ends, SizeVerdict, TooLong
<1> QED
  BY <1>1, <1>2 DEF Ends, ContinueBeforeBody, QuietEnd

\* The error response announces the close, so this is no quiet end.
LEMMA ErrorKeepsEnds ==
    ASSUME FramingInv, Ends, WriteError
    PROVE  Ends'
<1>1. /\ phase' = "done" /\ pos' = pos /\ UNCHANGED <<wire, handled, continued>>
  BY DEF WriteError, Return, client
<1>2. CASE Return("Encode")
  BY <1>1, <1>2, EndKeepsEnds DEF Return
<1>3. CASE Answer("error", ErrorStatus, Len(replies) + 1, TRUE) /\ Return(result)
  <2> DEFINE new == [kind |-> "error", status |-> ErrorStatus,
                     msg |-> Len(replies) + 1, close |-> TRUE]
  <2>1. replies \in Seq(Reply) /\ new \in Reply
    BY DEF FramingInv, TypeOK, Reply, ErrorStatus
  <2>2. replies' = Append(replies, new)
    BY <1>3 DEF Answer
  <2>3. replies' # <<>> /\ replies'[Len(replies')].close
    BY <2>1, <2>2
  <2>4. SizeVerdict'
    BY <1>1, <1>3 DEF Ends, SizeVerdict, Return
  <2> QED
    BY <1>1, <2>3, <2>4 DEF Ends, ContinueBeforeBody, QuietEnd
<1> QED
  BY <1>2, <1>3 DEF WriteError

LEMMA FailKeepsEnds ==
    ASSUME Ends, NEW r, r \notin {"HeaderTooLarge", "Ok"}, Fail(r)
    PROVE  Ends'
BY EndKeepsEnds DEF Fail, Return, client, output

\* Steps of the client, and none at all.
LEMMA ClientKeepsEnds ==
    ASSUME Ends, Client \/ UNCHANGED vars
    PROVE  Ends'
<1>1. UNCHANGED <<wire, pos, phase, cur, handled, continued, replies, result>>
  BY DEF Client, ClientSends, ClientShutsDown, ClientResets, vars, client, reader, output
<1>2. eof => eof' /\ sent' = sent
  BY DEF Client, ClientSends, ClientShutsDown, ClientResets, vars, client
<1> QED
  BY <1>1, <1>2 DEF Ends, SizeVerdict, ContinueBeforeBody, QuietEnd, Request, Msg

LEMMA AwaitHeadKeepsEnds ==
    ASSUME FramingInv, Ends,
           ReadHead \/ RejectLongHead \/ RejectHead \/ HeadEof \/ HeadIoError \/ HeadTimeout
    PROVE  Ends'
<1>1. /\ phase = "idle" /\ pos \in Nat /\ read \in Nat /\ sent \in Nat
      /\ pos <= read /\ read <= sent /\ sent <= Total(wire) /\ wire \in Streams
      /\ Boundary(wire, pos, Len(replies))
  BY DEF FramingInv, TypeOK, WireSync,
         ReadHead, RejectLongHead, RejectHead, HeadEof, HeadIoError, HeadTimeout
<1>2. Total(wire) \in Nat
  BY <1>1, TotalIsNat
<1>3. ASSUME NEW q \in Nat, q <= sent, HeadExceedsLimit(q)
      PROVE  TooLong
  BY <1>1, <1>2, <1>3, LongHead DEF HeadExceedsLimit, HeadEnd
<1>4. CASE ReadHead
  <2>1. PICK n \in 1 .. (sent - read) :
           /\ read' = read + n
           /\ IF HeadExceedsLimit(read + n)
              THEN Reject("HeaderTooLarge")
              ELSE UNCHANGED <<client, phase, reader, cur, output, result>>
    BY <1>4 DEF ReadHead
  <2>2. pos' = pos /\ read + n \in Nat /\ read + n <= sent
    BY <1>1, <1>4, <2>1 DEF ReadHead
  <2>3. CASE HeadExceedsLimit(read + n)
    BY <1>3, <2>1, <2>2, <2>3, RejectLongKeepsEnds
  <2>4. CASE ~HeadExceedsLimit(read + n)
    BY <1>1, <2>1, <2>4, WithinKeepsEnds DEF client, output
  <2> QED
    BY <2>3, <2>4
<1>5. CASE RejectLongHead
  BY <1>1, <1>3, <1>5, RejectLongKeepsEnds DEF RejectLongHead
<1>6. CASE RejectHead
  <2>1. PICK c \in HeadEnds(wire) :
          /\ HeadIn(wire, pos, read, c)
          /\ Reject(IF c - pos > HeaderLimit THEN "HeaderTooLarge" ELSE "Parse")
    BY <1>6 DEF RejectHead, HeadEnd
  <2>2. CASE c - pos > HeaderLimit
    <3>1. c \in Nat /\ c <= read /\ HeadEnds(wire) \subseteq Nat /\ HeaderLimit \in Nat
      BY <1>1, <2>1, StreamFacts, LimitAssumption DEF HeadEnds, HeadIn, FirstIn
    <3>2. \A d \in HeadEnds(wire) : HeadIn(wire, pos, read, d) => d = c
      BY <1>1, <2>1, <3>1 DEF HeadIn, FirstIn
    <3>3. TooLong
      BY <1>1, <1>2, <2>2, <3>1, <3>2, LongHead
    <3> QED
      BY <1>6, <2>1, <2>2, <3>3, RejectLongKeepsEnds DEF RejectHead
  <2>3. CASE ~(c - pos > HeaderLimit)
    BY <2>1, <2>3, RejectKeepsEnds
  <2> QED
    BY <2>2, <2>3
<1>7. CASE HeadEof
  <2>1. CASE Fail("Ok")
    <3>1. eof /\ pos = sent
      BY <1>1, <1>7, <2>1 DEF HeadEof, AtEof, Buffered, Reject, Fail, Return
    <3>2. UNCHANGED <<client, pos, handled, continued, replies>> /\ phase' = "done"
          /\ result' = "Ok"
      BY <2>1 DEF Fail, Return, output
    <3> QED
      BY <1>1, <3>1, <3>2 DEF Ends, SizeVerdict, ContinueBeforeBody, QuietEnd, client
  <2>2. CASE Reject("Incomplete")
    BY <2>2, RejectKeepsEnds
  <2> QED
    BY <1>7, <2>1, <2>2 DEF HeadEof
<1>8. CASE HeadIoError
  BY <1>8, FailKeepsEnds DEF HeadIoError
<1>9. CASE HeadTimeout
  BY <1>9, RejectKeepsEnds DEF HeadTimeout
<1> QED
  BY <1>4, <1>5, <1>6, <1>7, <1>8, <1>9

LEMMA ParseHeadKeepsEnds ==
    ASSUME FramingInv, Ends, ParseHead
    PROVE  Ends'
<1>1. PICK k \in Elements(wire) : cur' = k /\ phase' = AfterExpect(wire.el[k])
  BY DEF ParseHead
<1>2. UNCHANGED <<wire, handled, continued, result>> /\ result = "running"
  BY DEF ParseHead, client, output, FramingInv, SoFar
<1>3. /\ phase' = "continue" => Request'.expect
      /\ phase' = "body" => ~Request'.expect
  BY <1>1, <1>2 DEF AfterExpect, AfterHead, Request
<1> QED
  BY <1>2, <1>3 DEF Ends, SizeVerdict, ContinueBeforeBody, QuietEnd

LEMMA ContinueKeepsEnds ==
    ASSUME FramingInv, Ends, WriteContinue
    PROVE  Ends'
<1>1. /\ phase = "continue" /\ Request.expect /\ result = "running"
      /\ cur \in Elements(wire) /\ HeadOf(wire, cur, Msg)
  BY DEF WriteContinue, Ends, FramingInv, SoFar, InRequest, Serving, HeadOf, Msg
<1>2. CASE Fail("Encode")
  BY <1>2, FailKeepsEnds
<1>3. CASE /\ continued' = continued \cup {Msg} /\ phase' = AfterHead(Request)
           /\ UNCHANGED <<client, cur, handled, result>>
  <2>1. ContinueBeforeBody'
    BY <1>1, <1>3 DEF Ends, ContinueBeforeBody, AfterHead, Request, Msg, client
  <2> QED
    BY <1>1, <1>3, <2>1 DEF Ends, SizeVerdict, QuietEnd, AfterHead, client
<1> QED
  BY <1>2, <1>3 DEF WriteContinue

LEMMA BodyKeepsEnds ==
    ASSUME FramingInv, Ends,
           \/ TakeBuffered \/ ReadPayload \/ ReadLine
           \/ ChunkSize \/ ChunkCrLf \/ Trailer \/ BodyRead
           \/ BodyEof \/ BodyIoError \/ BodyTimeout
    PROVE  Ends'
<1>1. CASE TakeBuffered \/ ReadPayload
  <2>1. PICK n : phase = "body" /\ Take(n)
    BY <1>1 DEF TakeBuffered, ReadPayload
  <2> QED
    BY <2>1, WithinKeepsEnds DEF Take, client, output
<1>2. CASE ReadLine \/ BodyRead
  BY <1>2, WithinKeepsEnds DEF ReadLine, BodyRead, client, output
<1>3. ASSUME phase = "body", NEW c, NEW next, ConsumeTo(c, next)
      PROVE  Ends'
  BY <1>3, WithinKeepsEnds DEF ConsumeTo, client, output
<1>4. ASSUME BadBody PROVE Ends'
  BY <1>4, RejectKeepsEnds DEF BadBody
<1>5. CASE ChunkSize \/ ChunkCrLf \/ Trailer
  BY <1>3, <1>4, <1>5 DEF ChunkSize, ChunkCrLf, Trailer
<1>6. CASE BodyEof \/ BodyIoError
  BY <1>4, <1>6 DEF BodyEof, BodyIoError
<1>7. CASE BodyTimeout
  BY <1>7, RejectKeepsEnds DEF BodyTimeout
<1> QED
  BY <1>1, <1>2, <1>5, <1>6, <1>7

LEMMA HandleKeepsEnds ==
    ASSUME FramingInv, Ends, Handle
    PROVE  Ends'
<1>1. /\ phase = "handle" /\ handled \in Seq(Call) /\ wire \in Streams
      /\ Len(handled) = Len(replies) /\ result = "running"
      /\ cur \in Elements(wire) /\ HeadOf(wire, cur, Len(replies) + 1)
      /\ Size(wire, cur) <= HeaderLimit
  BY DEF FramingInv, SoFar, TypeOK, InRequest, Serving, Handle
<1>2. /\ handled' = Append(handled, [msg |-> Msg, body |-> body])
      /\ UNCHANGED <<wire, cur, continued>>
      /\ phase' \in {"respond", "done"} /\ result' \in {"running", "Panic"}
  BY <1>1 DEF Handle, Return, client
<1>3. Len(handled') = Len(handled) + 1 /\ Len(handled) \in Nat
  BY <1>1, <1>2
<1>4. \A k \in Elements(wire), m \in 1 .. Len(handled') :
          HeadOf(wire, k, m) => Size(wire, k) <= HeaderLimit
  <2> SUFFICES ASSUME NEW k \in Elements(wire), NEW m \in 1 .. Len(handled'),
                      HeadOf(wire, k, m)
               PROVE  Size(wire, k) <= HeaderLimit
    OBVIOUS
  <2>1. CASE m = Len(handled) + 1
    BY <1>1, <2>1, OneHead
  <2>2. CASE m # Len(handled) + 1
    BY <1>3, <2>2 DEF Ends, SizeVerdict
  <2> QED
    BY <2>1, <2>2
<1> QED
  BY <1>2, <1>4 DEF Ends, SizeVerdict, ContinueBeforeBody, QuietEnd

LEMMA WriteKeepsEnds ==
    ASSUME FramingInv, Ends, WriteResponse \/ WriteFails
    PROVE  Ends'
<1>1. UNCHANGED <<client, read, pos, reader, cur, handled, continued, response>>
  BY DEF WriteResponse, WriteFails
<1>2. result = "running" /\ phase = "respond"
  BY DEF WriteResponse, WriteFails, FramingInv, SoFar
<1>3. CASE WriteFails
  BY <1>1, <1>3, EndKeepsEnds DEF WriteFails, Return, client
<1>4. CASE WriteResponse /\ ~Closes
  BY <1>1, <1>2, <1>4 DEF WriteResponse, Ends, SizeVerdict, ContinueBeforeBody, QuietEnd, client
<1>5. CASE WriteResponse /\ Closes
  <2>1. Closes \in BOOLEAN
    BY DEF Closes, RequestClose
  <2>2. Answer("response", 0, Msg, Closes) /\ phase' = "done" /\ result' = "Ok"
    BY <1>5 DEF WriteResponse, Return
  <2>3. /\ Len(replies') = Len(replies) + 1 /\ Len(replies) \in Nat
        /\ replies'[Len(replies) + 1] = [kind |-> "response", status |-> 0,
                                         msg |-> Msg, close |-> Closes]
    BY <1>1, <1>2, <2>1, <2>2, AnswerStep DEF FramingInv, TypeOK
  <2>4. replies' # <<>> /\ replies'[Len(replies')].close
    BY <1>5, <2>3
  <2> QED
    BY <1>1, <2>2, <2>4 DEF Ends, SizeVerdict, ContinueBeforeBody, QuietEnd, client
<1> QED
  BY <1>3, <1>4, <1>5

LEMMA EndsHold == Spec => []Ends
<1>1. Init => Ends
  <2> SUFFICES ASSUME Init PROVE Ends
    OBVIOUS
  <2>1. handled = <<>> /\ result = "running" /\ continued = {} /\ phase = "idle"
    BY DEF Init
  <2> QED
    BY <2>1 DEF Ends, SizeVerdict, ContinueBeforeBody, QuietEnd
<1>2. FramingInv /\ Ends /\ [Next]_vars => Ends'
  <2> SUFFICES ASSUME FramingInv, Ends, [Next]_vars PROVE Ends'
    OBVIOUS
  <2>1. CASE Client \/ UNCHANGED vars
    BY <2>1, ClientKeepsEnds
  <2>2. CASE Server
    BY <2>2, AwaitHeadKeepsEnds, ParseHeadKeepsEnds, ContinueKeepsEnds, BodyKeepsEnds,
       HandleKeepsEnds, WriteKeepsEnds, ErrorKeepsEnds DEF Server
  <2> QED
    BY <2>1, <2>2 DEF Next, Terminated
<1> QED
  BY <1>1, <1>2, Framing, PTL DEF Spec

\* SizeVerdict: HEADER_LIMIT is a limit on heads, however they are cut and whatever is
\* read together with them.
THEOREM SizesAreJudged == Spec => []SizeVerdict
<1>1. Ends => SizeVerdict
  BY DEF Ends
<1> QED
  BY <1>1, EndsHold, PTL

\* ContinueBeforeBody: run never waits for the body of a request with Expect before it
\* has written the interim response, and writes it to no other.
THEOREM ContinueIsTimely == Spec => []ContinueBeforeBody
<1>1. Ends => ContinueBeforeBody
  BY DEF Ends
<1> QED
  BY <1>1, EndsHold, PTL

\* NothingDropped: a shutdown is taken for an orderly end only between requests.
THEOREM EndsAreClean == Spec => []NothingDropped
<1>1. Ends => NothingDropped
  BY DEF Ends, QuietEnd, NothingDropped
<1> QED
  BY <1>1, EndsHold, PTL

-----------------------------------------------------------------------------
\* Bytes of later requests stay where they are.

LEMMA HeadSerial ==
    ASSUME FramingInv, ParseHead, NEW k \in Elements(wire), wire.el[k].kind = "head",
           pos <= From(wire, k), From(wire, k) < pos'
    PROVE  Len(replies) + 1 = wire.msg[k]
<1>1. /\ wire \in Streams /\ pos \in Nat /\ Boundary(wire, pos, Len(replies))
      /\ Len(replies) \in Nat
  <2>1. phase = "idle" /\ TypeOK /\ WireSync
    BY DEF FramingInv, ParseHead
  <2>2. Len(replies) \in Nat
    BY <2>1 DEF TypeOK
  <2> QED
    BY <2>1, <2>2 DEF TypeOK, WireSync
<1>2. PICK c \in HeadEnds(wire), j \in Elements(wire) : HeadAt(j, c) /\ pos' = c
  BY DEF ParseHead
<1>3. From(wire, j) = pos /\ wire.to[j] = pos'
  BY <1>2 DEF HeadAt
<1>4. ~(k < j) /\ ~(j < k) /\ k \in Nat /\ j \in Nat
  <2>1. /\ k \in Nat /\ j \in Nat
        /\ From(wire, k) \in Nat /\ wire.to[k] \in Nat /\ From(wire, k) < wire.to[k]
        /\ From(wire, j) \in Nat /\ wire.to[j] \in Nat /\ From(wire, j) < wire.to[j]
    BY <1>1, Offsets
  <2>2. k < j => wire.to[k] <= From(wire, j)
    BY <1>1, Disjoint
  <2>3. j < k => wire.to[j] <= From(wire, k)
    BY <1>1, Disjoint
  <2> QED
    BY <1>1, <1>3, <2>1, <2>2, <2>3
<1> QED
  BY <1>1, <1>3, <1>4, HeadStarts

\* A step within a body does not reach another head.
LEMMA BodySerial ==
    ASSUME FramingInv, FramingInv', phase = "body", phase' = "body",
           wire' = wire, replies' = replies,
           NEW k \in Elements(wire), wire.el[k].kind = "head",
           pos <= From(wire, k), From(wire, k) < pos'
    PROVE  FALSE
<1>1. wire \in Streams /\ Len(replies) \in Nat /\ pos \in Nat /\ pos' \in Nat
  BY DEF FramingInv, TypeOK
<1>2. PICK i \in Elements(wire) : Place(i)
  BY InBody DEF Serving
<1>3. PICK j \in Elements(wire) : Place(j)'
  <2>1. InRequest' /\ phase' \in Serving
    BY DEF FramingInv, Serving
  <2> QED
    BY <2>1 DEF InRequest
<1>4. wire.msg[i] = Len(replies) + 1 /\ wire.msg[j] = Len(replies) + 1 /\ wire.el[j].ok
  BY <1>2, <1>3 DEF Place
<1>5. /\ i \in Nat /\ j \in Nat /\ k \in Nat /\ From(wire, k) \in Nat
      /\ wire.to[i] \in Nat /\ wire.to[j] \in Nat /\ wire.msg[k] \in Nat
      /\ wire.el[i].n \in Nat /\ wire.el[j].n \in Nat
  BY <1>1, Offsets DEF Element
<1>6. wire.to[i] <= pos
  <2>1. stage \in Stages /\ remaining \in Nat
    BY DEF FramingInv, TypeOK
  <2>2. CASE stage \in {"none", "done", "size", "crlf", "trailers"}
    <3>1. pos = wire.to[i]
      BY <1>2, <2>2 DEF Place
    <3> QED
      BY <1>5, <3>1
  <2>3. CASE stage \in {"fixed", "data"}
    <3>1. remaining \in 1 .. wire.el[i].n /\ pos + remaining = wire.to[i] + wire.el[i].n
      BY <1>2, <2>3 DEF Place
    <3> QED
      BY <1>1, <1>5, <3>1
  <2> QED
    BY <2>1, <2>2, <2>3 DEF Stages
<1>7. wire.msg[k] > Len(replies) + 1
  <2>1. i < k
    <3>1. From(wire, k) < wire.to[k] /\ wire.to[k] \in Nat
          /\ From(wire, i) < wire.to[i] /\ From(wire, i) \in Nat
      BY <1>1, Offsets
    <3>2. k < i => wire.to[k] <= From(wire, i)
      BY <1>1, Disjoint
    <3>3. k = i => wire.to[k] = wire.to[i]
      OBVIOUS
    <3> QED
      BY <1>1, <1>5, <1>6, <3>1, <3>2, <3>3
  <2> QED
    BY <1>1, <1>4, <2>1, StreamFacts DEF Numbered
<1>8. wire.msg[k] <= Len(replies) + 1
  <2>1. ASSUME NEW d \in Elements(wire), pos' <= wire.to[d], wire.msg[d] = Len(replies) + 1
        PROVE  wire.msg[k] <= Len(replies) + 1
    <3>1. ~(d < k) /\ d \in Nat
      <4>1. d \in Nat /\ wire.to[d] \in Nat
        BY <1>1, Offsets
      <4>2. d < k => wire.to[d] <= From(wire, k)
        BY <1>1, Disjoint
      <4> QED
        BY <1>1, <1>5, <2>1, <4>1, <4>2
    <3> QED
      BY <1>1, <1>5, <2>1, <3>1, StreamFacts DEF Numbered
  <2>2. CASE pos' <= wire.to[j]
    BY <1>4, <2>1, <2>2
  <2>3. CASE ~(pos' <= wire.to[j])
    <3>1. /\ stage' \in {"fixed", "data"}
          /\ remaining' \in 1 .. wire.el[j].n
          /\ pos' + remaining' = wire.to[j] + wire.el[j].n
          /\ \/ wire.el[j].kind = "head" /\ wire.el[j].mode = "fixed"
             \/ wire.el[j].kind = "size"
      <4>1. stage' \in Stages /\ pos' # wire.to[j]
        <5>1. stage' \in Stages
          BY DEF FramingInv, TypeOK
        <5>2. pos' # wire.to[j]
          BY <1>1, <1>5, <2>3
        <5> QED
          BY <5>1, <5>2
      <4>2. stage' \in {"fixed", "data"}
        BY <1>3, <4>1 DEF Place, Stages
      <4>3. CASE stage' = "fixed"
        BY <1>3, <4>3 DEF Place
      <4>4. CASE stage' = "data"
        BY <1>3, <4>4 DEF Place
      <4> QED
        BY <4>2, <4>3, <4>4
    <3>2. j + 1 \in Elements(wire) /\ j \in 0 .. wire.count
      <4>1. pos' <= Total(wire)
        <5>1. /\ pos' \in Nat /\ read' \in Nat /\ sent' \in Nat
              /\ pos' <= read' /\ read' <= sent' /\ sent' <= Total(wire)
          BY DEF FramingInv, TypeOK
        <5> QED
          BY <1>1, <5>1, TotalIsNat
      <4> QED
        <5>1. j \in 0 .. wire.count
          BY <1>1, Offsets
        <5>2. wire.to[j] < pos'
          BY <1>1, <1>5, <2>3
        <5> QED
          BY <1>1, <4>1, <5>1, <5>2, BytesBeyond
    <3>3. /\ Follows(wire, j) /\ From(wire, j + 1) = wire.to[j]
          /\ wire.msg[j + 1] = IF wire.el[j + 1].kind = "head" THEN wire.msg[j] + 1
                                                              ELSE wire.msg[j]
      BY <1>1, <1>4, <3>2, NextElement
    <3>4. /\ wire.el[j + 1].kind \in {"body", "data"} /\ Size(wire, j + 1) = wire.el[j].n
      BY <1>5, <3>1, <3>3 DEF Follows
    <3>5. pos' <= wire.to[j + 1] /\ wire.msg[j + 1] = Len(replies) + 1
      <4>1. wire.to[j + 1] \in Nat
        BY <1>1, <3>2, Offsets
      <4>2. wire.to[j + 1] = wire.to[j] + wire.el[j].n
        BY <1>5, <3>3, <3>4, <4>1 DEF Size, From
      <4>3. wire.msg[j + 1] = wire.msg[j]
        BY <3>3, <3>4
      <4>4. remaining' \in Nat /\ pos' + remaining' = wire.to[j] + wire.el[j].n
        BY <1>5, <3>1
      <4>5. pos' <= wire.to[j + 1]
        BY <1>1, <1>5, <4>2, <4>4
      <4> QED
        BY <1>4, <4>3, <4>5
    <3> QED
      BY <2>1, <3>2, <3>5
  <2> QED
    BY <2>2, <2>3
<1> QED
  BY <1>1, <1>5, <1>7, <1>8

\* Only the head of the next request and the bytes of its body are consumed.
LEMMA Consumers ==
    ASSUME FramingInv, [Next]_vars, pos' # pos
    PROVE  \/ ParseHead
           \/ phase = "body" /\ phase' = "body" /\ UNCHANGED <<wire, replies>>
<1>1. CASE Client \/ UNCHANGED vars
  BY <1>1 DEF Client, ClientSends, ClientShutsDown, ClientResets, vars
<1>2. CASE ReadHead \/ RejectLongHead \/ HeadEof \/ HeadIoError \/ HeadTimeout \/ RejectHead
  BY <1>2 DEF ReadHead, RejectLongHead, HeadEof, HeadIoError, HeadTimeout, RejectHead, Fail
<1>3. CASE WriteContinue \/ ReadLine \/ BodyRead \/ BodyEof \/ BodyIoError \/ BodyTimeout
  BY <1>3 DEF WriteContinue, ReadLine, BodyRead, BodyEof, BodyIoError, BodyTimeout, BadBody, Fail
<1>4. CASE Handle \/ WriteResponse \/ WriteFails \/ WriteError
  BY <1>4 DEF Handle, WriteResponse, WriteFails, WriteError
<1>5. CASE TakeBuffered \/ ReadPayload
  <2>1. PICK n : phase = "body" /\ Take(n)
    BY <1>5 DEF TakeBuffered, ReadPayload
  <2> QED
    BY <2>1 DEF Take, client, output
<1>6. CASE ChunkSize \/ ChunkCrLf \/ Trailer
  <2>1. PICK c, next : phase = "body" /\ ConsumeTo(c, next)
    BY <1>6 DEF ChunkSize, ChunkCrLf, Trailer, BadBody
  <2> QED
    BY <2>1 DEF ConsumeTo, client, output
<1> QED
  BY <1>1, <1>2, <1>3, <1>4, <1>5, <1>6 DEF Next, Server, Terminated

\* Serialised: however much a read brought, no byte of a later request is consumed
\* before the request at hand has its reply.
THEOREM RequestsAreSerial == Spec => Serialised
<1>1. FramingInv /\ FramingInv' /\ [Next]_vars =>
        \A k \in Elements(wire) :
            wire.el[k].kind = "head" /\ pos <= From(wire, k) /\ From(wire, k) < pos'
                => Len(replies) + 1 = wire.msg[k]
  <2> SUFFICES ASSUME FramingInv, FramingInv', [Next]_vars, NEW k \in Elements(wire),
                      wire.el[k].kind = "head",
                      pos <= From(wire, k), From(wire, k) < pos'
               PROVE  Len(replies) + 1 = wire.msg[k]
    OBVIOUS
  <2>1. pos' # pos
    <3>1. pos \in Nat /\ From(wire, k) \in Nat
      BY Offsets DEF FramingInv, TypeOK
    <3> QED
      BY <3>1
  <2> QED
    BY <2>1, Consumers, HeadSerial, BodySerial
<1> QED
  BY <1>1, Framing, PTL DEF Spec, Serialised
=============================================================================
