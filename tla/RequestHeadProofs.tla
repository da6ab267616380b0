------------------------- MODULE RequestHeadProofs -------------------------
(***************************************************************************)
(* What parse_request_head makes of the framing fields, proved for heads   *)
(* of any number of lines in any order; and of the header collection that  *)
(* it fills, that it is a list of fields whatever calls are made to it.    *)
(***************************************************************************)
EXTENDS RequestHead, HeaderMap, MessageProofs, SequenceTheorems

\* The lines of a name among those read.
Seen(name) == { i \in 1 .. read : Lines[i].name = name }

\* Each local variable of the loop sums up the lines read so far.
HostInv == /\ hostSeen <=> Seen("host") # {}
           /\ \A i, j \in Seen("host") : i = j

LengthInv == /\ \A i \in Seen("content-length") : Lines[i].length = length
             /\ length # NotGiven => Seen("content-length") # {}

CodingInv == codings # <<>> <=> Seen("transfer-encoding") # {}

EndInv == verdict = "accepted" =>
              /\ read = Len(Lines)
              /\ hostSeen /\ Framed
              /\ mode = BodyMode

IInv == TypeOK /\ HostInv /\ LengthInv /\ CodingInv /\ EndInv

-----------------------------------------------------------------------------
\* The lines that a step which keeps one has read.
LEMMA SeenAfter ==
    ASSUME TypeOK, NEW name \in Names, Keep(name)
    PROVE  /\ read' = read + 1 /\ read + 1 \in DOMAIN Lines
           /\ Lines' = Lines /\ This \in Line /\ This.name = name
           /\ \A other \in Names :
                 Seen(other)' = IF other = name THEN Seen(other) \cup {read + 1} ELSE Seen(other)
<1>1. /\ read' = read + 1 /\ input' = input /\ read < Len(Lines)
      /\ This.name = name
  BY DEF Keep, AtLine, Lines
<1>2. read \in Nat /\ Len(Lines) \in Nat /\ Lines \in Seq(Line) /\ read <= Len(Lines)
  BY DEF TypeOK, Input, Lines
<1>3. read + 1 \in DOMAIN Lines /\ This \in Line
  BY <1>1, <1>2 DEF This, Lines
<1>4. ASSUME NEW other \in Names
      PROVE  Seen(other)' = IF other = name THEN Seen(other) \cup {read + 1} ELSE Seen(other)
  <2>1. \A i : i \in 1 .. (read + 1) <=> i \in 1 .. read \/ i = read + 1
    BY <1>2
  <2>2. Seen(other)' = { i \in 1 .. (read + 1) : Lines[i].name = other }
    BY <1>1 DEF Seen, Lines
  <2>3. Lines[read + 1].name = name
    BY <1>1 DEF This, Lines
  <2> QED
    BY <2>1, <2>2, <2>3 DEF Seen
<1> QED
  BY <1>1, <1>3, <1>4 DEF Lines

-----------------------------------------------------------------------------
\* A collection whose names are in N and whose values are in V.
Holds(h, N, V) ==
    /\ h.order \in Seq(N) /\ DOMAIN h.map \subseteq N
    /\ \A n \in DOMAIN h.map : h.map[n] \in Seq(V)
    /\ Consistent(h)

\* What Headers::insert and append have in common: a name is given values.
LEMMA PutKeeps ==
    ASSUME NEW N, NEW V, NEW h, Holds(h, N, V),
           NEW name \in N, NEW values \in Seq(V), values # <<>>,
           NEW g, g.map = Put(h.map, name, values), g.order = Listed(h, name)
    PROVE  /\ Holds(g, N, V)
           /\ DOMAIN g.map = DOMAIN h.map \cup {name} /\ g.map[name] = values
           /\ \A n \in DOMAIN h.map : n # name => g.map[n] = h.map[n]
<1>2. g.map = Put(h.map, name, values) /\ g.order = Listed(h, name)
  OBVIOUS
<1>6. h.order \in Seq(N)
  BY DEF Holds
<1>3. /\ DOMAIN g.map = DOMAIN h.map \cup {name} /\ g.map[name] = values
      /\ \A n \in DOMAIN h.map : n # name => g.map[n] = h.map[n]
  BY <1>2 DEF Put
<1>4. \A n \in DOMAIN g.map : g.map[n] \in Seq(V) /\ g.map[n] # <<>>
  BY <1>3 DEF Holds, Consistent
<1>5. /\ g.order \in Seq(N)
      /\ Listing(g) = DOMAIN h.map \cup {name}
      /\ \A i, j \in DOMAIN g.order : g.order[i] = g.order[j] => i = j
  <2>1. CASE HasField(h, name)
    BY <2>1, <1>2 DEF Listed, HasField, Holds, Consistent, Listing
  <2>2. CASE ~HasField(h, name)
    <3>1. g.order = Append(h.order, name)
      BY <2>2, <1>2 DEF Listed
    <3>2. /\ Len(h.order) \in Nat /\ DOMAIN h.order = 1 .. Len(h.order)
          /\ g.order \in Seq(N)
          /\ DOMAIN g.order = 1 .. (Len(h.order) + 1)
          /\ g.order[Len(h.order) + 1] = name
          /\ \A i \in DOMAIN h.order : g.order[i] = h.order[i]
      BY <1>6, <3>1
    <3>3. DOMAIN g.order = DOMAIN h.order \cup {Len(h.order) + 1}
      BY <3>2
    <3>4. \A i \in DOMAIN h.order : h.order[i] # name
      BY <2>2 DEF HasField, Holds, Consistent, Listing
    <3>5. Listing(h) = DOMAIN h.map
      BY DEF Holds, Consistent
    <3>6. Listing(g) = Listing(h) \cup {name}
      BY <3>2, <3>3 DEF Listing
    <3>7. \A i, j \in DOMAIN g.order : g.order[i] = g.order[j] => i = j
      BY <3>2, <3>3, <3>4 DEF Holds, Consistent
    <3> QED
      BY <3>2, <3>5, <3>6, <3>7
  <2> QED
    BY <2>1, <2>2
<1> QED
  BY <1>3, <1>4, <1>5 DEF Holds, Consistent

\* Headers::append on a consistent collection: the name is there and has one value
\* more, the other names are as they were, and the two halves still agree.
LEMMA AppendFieldKeeps ==
    ASSUME NEW h, NEW name \in Names, NEW line \in Line, Holds(h, Names, Line)
    PROVE  LET g == AppendField(h, name, line)
           IN  /\ Holds(g, Names, Line)
               /\ DOMAIN g.map = DOMAIN h.map \cup {name}
               /\ g.map[name] = Append(GetAll(h, name), line)
               /\ \A n \in DOMAIN h.map : n # name => g.map[n] = h.map[n]
<1> DEFINE g == AppendField(h, name, line)
           values == Append(GetAll(h, name), line)
<1>1. values \in Seq(Line) /\ values # <<>>
  BY DEF GetAll, HasField, Holds
<1>2. g.map = Put(h.map, name, values) /\ g.order = Listed(h, name)
  BY DEF AppendField
<1> HIDE DEF g, values
<1>3. Holds(g, Names, Line)
  BY <1>1, <1>2, PutKeeps
<1>4. /\ DOMAIN g.map = DOMAIN h.map \cup {name} /\ g.map[name] = values
      /\ \A n \in DOMAIN h.map : n # name => g.map[n] = h.map[n]
  BY <1>2 DEF Put
<1> QED
  BY <1>3, <1>4 DEF g, values

-----------------------------------------------------------------------------
\* The collection and the lines read.
HeadersInv ==
    /\ headers.order \in Seq(Names)
    /\ Consistent(headers)
    /\ \A name \in Names :
          /\ HasField(headers, name) <=> Seen(name) # {}
          /\ AreLines(GetAll(headers, name), Seen(name))
    /\ \A v \in 1 .. Len(GetAll(headers, "content-length")) :
          GetAll(headers, "content-length")[v].length = length

\* A line below all others of its name makes the last value.
LEMMA OneLineMore ==
    ASSUME NEW n \in Nat, NEW S \in SUBSET (1 .. n), NEW values \in Seq(Line),
           AreLines(values, S), Lines[n + 1] \in Line
    PROVE  AreLines(Append(values, Lines[n + 1]), S \cup {n + 1})
<1> DEFINE T     == S \cup {n + 1}
           to(i) == { k \in S : k <= i }
           more  == Append(values, Lines[n + 1])
<1>1. IsFiniteSet(S) /\ n + 1 \notin S
  <2>1. IsFiniteSet(1 .. n) /\ n + 1 \notin 1 .. n
    BY FS_Interval
  <2> QED
    BY <2>1, FS_Subset
<1>2. Cardinality(T) = Cardinality(S) + 1 /\ Cardinality(S) = Len(values)
  BY <1>1, FS_AddElement DEF AreLines
<1>3. /\ Len(more) = Len(values) + 1 /\ more[Len(values) + 1] = Lines[n + 1]
      /\ \A i \in 1 .. Len(values) : more[i] = values[i]
  OBVIOUS
<1>4. ASSUME NEW i \in T PROVE more[Cardinality({ k \in T : k <= i })] = Lines[i]
  <2>1. CASE i = n + 1
    <3>1. \A k \in T : k <= i
      <4>1. \A k \in T : k \in 1 .. n \/ k = n + 1
        OBVIOUS
      <4> QED
        BY <2>1, <4>1
    <3>2. { k \in T : k <= i } = T
      <4> HIDE DEF T
      <4> QED
        BY <3>1
    <3> QED
      BY <1>2, <1>3, <2>1, <3>2
  <2>2. CASE i \in S
    <3>1. { k \in T : k <= i } = to(i) /\ i \in to(i) /\ to(i) \subseteq S
      BY <2>2
    <3>2. /\ IsFiniteSet(to(i)) /\ Cardinality(to(i)) <= Cardinality(S)
          /\ Cardinality(to(i)) # 0 /\ Cardinality(to(i)) \in Nat
      <4>1. IsFiniteSet(to(i)) /\ Cardinality(to(i)) <= Cardinality(S)
        BY <1>1, <3>1, FS_Subset
      <4> QED
        BY <3>1, <4>1, FS_EmptySet, FS_CardinalityType
    <3>3. Cardinality(to(i)) \in 1 .. Len(values)
      BY <1>2, <3>2
    <3> QED
      BY <1>3, <2>2, <3>1, <3>3 DEF AreLines
  <2> QED
    BY <2>1, <2>2
<1>5. Len(more) = Cardinality(T)
  BY <1>2, <1>3
<1> QED
  BY <1>4, <1>5 DEF AreLines

LEMMA InitIInv == Init => IInv /\ HeadersInv
<1> SUFFICES ASSUME Init PROVE IInv /\ HeadersInv
  OBVIOUS
<1>1. input \in Input /\ Lines \in Seq(Line) /\ Len(Lines) \in Nat
  BY InputsAssumption DEF Init, Input, Lines
<1>2. \A name : Seen(name) = {}
  BY DEF Init, Seen
<1>3. DOMAIN headers.map = {} /\ headers.order = <<>>
  BY DEF Init, NoHeaders
<1>4. TypeOK
  <2>1. mode \in Modes
    BY DEF Init, Modes, NoBody
  <2>2. codings \in Seq(CodingNames) /\ length \in Nat \cup {NotGiven}
    BY DEF Init
  <2>3. read \in 0 .. Len(input.lines)
    BY <1>1 DEF Init, Lines
  <2>6. hostSeen \in BOOLEAN
    BY DEF Init
  <2>4. verdict \in {"reading", "accepted", "rejected"}
    BY DEF Init
  <2>5. /\ DOMAIN headers.map \subseteq Names
        /\ \A n \in DOMAIN headers.map : headers.map[n] \in Seq(Line)
    BY <1>3
  <2> QED
    BY <1>1, <2>1, <2>2, <2>3, <2>4, <2>5, <2>6 DEF TypeOK
<1>5. HostInv /\ LengthInv /\ CodingInv /\ EndInv
  BY <1>2 DEF Init, HostInv, LengthInv, CodingInv, EndInv
<1>6. HeadersInv
  <2>1. \A name : ~HasField(headers, name) /\ GetAll(headers, name) = <<>>
    BY <1>3 DEF HasField, GetAll
  <2>2. Consistent(headers)
    BY <1>3 DEF Consistent, Listing
  <2>3. Cardinality({}) = 0
    BY FS_EmptySet
  <2>4. headers.order \in Seq(Names) /\ Len(<<>>) = 0
    BY <1>3
  <2>5. \A name \in Names :
           /\ HasField(headers, name) <=> Seen(name) # {}
           /\ AreLines(GetAll(headers, name), Seen(name))
    BY <1>2, <2>1, <2>3, <2>4 DEF AreLines
  <2>6. 1 .. Len(GetAll(headers, "content-length")) = {}
    BY <2>1, <2>4
  <2> QED
    BY <2>2, <2>4, <2>5, <2>6 DEF HeadersInv
<1> QED
  BY <1>4, <1>5, <1>6 DEF IInv

-----------------------------------------------------------------------------
\* A step that rejects, and a stuttering one, change nothing that matters.
LEMMA RejectKeeps ==
    ASSUME IInv, HeadersInv,
           Reject \/ UNCHANGED vars
    PROVE  IInv' /\ HeadersInv'
<1>1. /\ UNCHANGED <<input, read, hostSeen, length, codings, headers, mode>>
      /\ verdict' \in {"rejected", verdict}
  BY DEF Reject, vars
<1>2. \A name : Seen(name)' = Seen(name)
  BY <1>1 DEF Seen, Lines
<1>3. TypeOK'
  BY <1>1 DEF IInv, TypeOK
<1>4. HostInv' /\ LengthInv' /\ CodingInv'
  BY <1>1, <1>2 DEF IInv, HostInv, LengthInv, CodingInv, Lines
<1>5. EndInv'
  BY <1>1 DEF IInv, EndInv, Lines, Framed, ChunkedAt, BodyMode
<1>6. HeadersInv'
  BY <1>1, <1>2 DEF HeadersInv, AreLines, Lines
<1> QED
  BY <1>3, <1>4, <1>5, <1>6 DEF IInv

-----------------------------------------------------------------------------
\* What every step that keeps a line does to the headers.
LEMMA KeepHeaders ==
    ASSUME IInv, HeadersInv, NEW name \in Names, Keep(name),
           length # NotGiven => length' = length,
           name = "content-length" => length' = This.length
    PROVE  HeadersInv' /\ DOMAIN headers'.map \subseteq Names
           /\ \A n \in DOMAIN headers'.map : headers'.map[n] \in Seq(Line)
<1>1. /\ TypeOK
      /\ read' = read + 1 /\ Lines' = Lines /\ This \in Line /\ This.name = name
      /\ \A other \in Names :
            Seen(other)' = IF other = name THEN Seen(other) \cup {read + 1} ELSE Seen(other)
  BY SeenAfter DEF IInv
<1>2. headers' = AppendField(headers, name, This)
  BY DEF Keep
<1>3. /\ headers'.order \in Seq(Names) /\ DOMAIN headers'.map = DOMAIN headers.map \cup {name}
      /\ headers'.map[name] = Append(GetAll(headers, name), This)
      /\ \A n \in DOMAIN headers.map : n # name => headers'.map[n] = headers.map[n]
      /\ \A n \in DOMAIN headers'.map : headers'.map[n] \in Seq(Line)
      /\ Consistent(headers')
  <2>1. Holds(headers, Names, Line)
    BY <1>1 DEF Holds, HeadersInv, TypeOK
  <2>2. /\ Holds(headers', Names, Line) /\ DOMAIN headers'.map = DOMAIN headers.map \cup {name}
        /\ headers'.map[name] = Append(GetAll(headers, name), This)
        /\ \A n \in DOMAIN headers.map : n # name => headers'.map[n] = headers.map[n]
    BY <1>1, <1>2, <2>1, AppendFieldKeeps
  <2>3. /\ headers'.order \in Seq(Names) /\ Consistent(headers')
        /\ \A n \in DOMAIN headers'.map : headers'.map[n] \in Seq(Line)
    BY <2>2 DEF Holds
  <2> QED
    BY <2>2, <2>3
<1>4. /\ \A n \in Names : GetAll(headers, n) \in Seq(Line)
      /\ GetAll(headers', name) = Append(GetAll(headers, name), This)
      /\ \A n \in Names : n # name => GetAll(headers', n) = GetAll(headers, n)
  BY <1>1, <1>3 DEF GetAll, HasField, TypeOK
<1>5. ASSUME NEW n \in Names
      PROVE  /\ HasField(headers', n) <=> Seen(n)' # {}
             /\ AreLines(GetAll(headers, n), Seen(n))'
  <2>1. CASE n # name
    <3>1. HasField(headers', n) <=> HasField(headers, n)
      BY <2>1, <1>3 DEF HasField
    <3>2. Seen(n)' = Seen(n) /\ GetAll(headers', n) = GetAll(headers, n)
      BY <2>1, <1>1, <1>4
    <3>3. AreLines(GetAll(headers, n), Seen(n))'
      BY <3>2, <1>1 DEF HeadersInv, AreLines
    <3> QED
      BY <3>1, <3>2, <3>3 DEF HeadersInv
  <2>2. CASE n = name
    <3>1. HasField(headers', n) /\ Seen(n)' # {}
      BY <2>2, <1>1, <1>3 DEF HasField
    <3>2. read \in Nat
      BY <1>1 DEF TypeOK, Input
    <3>3. AreLines(GetAll(headers, n), Seen(n))'
      <4>1. /\ Seen(n) \subseteq 1 .. read /\ read \in Nat
            /\ Seen(n)' = Seen(n) \cup {read + 1} /\ Lines[read + 1] = This
        BY <2>2, <3>2, <1>1 DEF Seen, This, Lines
      <4>2. /\ GetAll(headers, n) \in Seq(Line) /\ AreLines(GetAll(headers, n), Seen(n))
            /\ GetAll(headers', n) = Append(GetAll(headers, n), This)
        BY <2>2, <1>4 DEF HeadersInv
      <4>3. AreLines(Append(GetAll(headers, n), This), Seen(n) \cup {read + 1})
        BY <1>1, <4>1, <4>2, OneLineMore
      <4> QED
        BY <4>1, <4>2, <4>3, <1>1 DEF AreLines
    <3> QED
      BY <3>1, <3>3
  <2> QED
    BY <2>1, <2>2
<1>6. ASSUME NEW v \in 1 .. Len(GetAll(headers', "content-length"))
      PROVE  GetAll(headers', "content-length")[v].length = length'
  <2> DEFINE old == GetAll(headers, "content-length")
  <2>1. "content-length" \in Names /\ old \in Seq(Line) /\ Len(old) \in Nat
    BY <1>4 DEF Names
  <2>2. \A k \in 1 .. Len(old) : old[k].length = length /\ old[k].length \in Nat
    <3>1. \A k \in 1 .. Len(old) : old[k] \in Line
      BY <2>1
    <3>2. \A line \in Line : line.length \in Nat
      BY DEF Line
    <3> QED
      BY <3>1, <3>2 DEF HeadersInv
  <2>3. \A k \in 1 .. Len(old) : old[k].length = length'
    <3>1. \A k \in 1 .. Len(old) : length # NotGiven
      BY <2>2 DEF NotGiven
    <3> QED
      BY <2>2, <3>1
  <2>4. CASE name # "content-length"
    BY <2>1, <2>3, <2>4, <1>4
  <2>5. CASE name = "content-length"
    <3>1. GetAll(headers', "content-length") = Append(old, This) /\ length' = This.length
      BY <2>5, <1>4
    <3>2. v \in 1 .. Len(old) \/ v = Len(old) + 1
      BY <3>1, <2>1, <1>1
    <3> QED
      BY <3>1, <3>2, <2>1, <2>3, <1>1
  <2> QED
    BY <2>4, <2>5
<1>7. HeadersInv'
  BY <1>3, <1>5, <1>6 DEF HeadersInv
<1> QED
  BY <1>1, <1>3, <1>7 DEF TypeOK

-----------------------------------------------------------------------------
\* What every step that keeps a line leaves to be shown of the rest.
LEMMA KeepRest ==
    ASSUME IInv, NEW name \in Names, Keep(name),
           hostSeen' \in BOOLEAN, length' \in Nat \cup {NotGiven}, codings' \in Seq(CodingNames),
           HostInv', LengthInv', CodingInv',
           DOMAIN headers'.map \subseteq Names,
           \A n \in DOMAIN headers'.map : headers'.map[n] \in Seq(Line)
    PROVE  IInv'
<1>1. /\ input' = input /\ verdict' = verdict /\ mode' = mode /\ verdict = "reading"
      /\ read < Len(input.lines) /\ read' = read + 1
  BY DEF Keep, AtLine
<1>2. TypeOK'
  <2>1. read' \in 0 .. Len(input'.lines)
    <3>1. read \in Nat /\ Len(input.lines) \in Nat
      BY DEF IInv, TypeOK, Input
    <3> QED
      BY <1>1, <3>1
  <2>2. /\ input' \in Input /\ mode' \in Modes
        /\ verdict' \in {"reading", "accepted", "rejected"}
    BY <1>1 DEF IInv, TypeOK
  <2> QED
    BY <2>1, <2>2 DEF TypeOK
<1>3. EndInv'
  BY <1>1 DEF EndInv
<1> QED
  BY <1>2, <1>3 DEF IInv

\* The accumulators that a line does not concern.
LEMMA OtherAccumulators ==
    ASSUME IInv, NEW name \in Names, Keep(name)
    PROVE  /\ name # "host" /\ hostSeen' = hostSeen => HostInv'
           /\ name # "content-length" /\ length' = length => LengthInv'
           /\ name # "transfer-encoding" /\ codings' = codings => CodingInv'
<1>1. /\ Lines' = Lines
      /\ \A other \in Names :
            Seen(other)' = IF other = name THEN Seen(other) \cup {read + 1} ELSE Seen(other)
  BY SeenAfter DEF IInv
<1>2. {"host", "content-length", "transfer-encoding"} \subseteq Names
  BY DEF Names
<1>3. ASSUME name # "host", hostSeen' = hostSeen PROVE HostInv'
  BY <1>1, <1>2, <1>3 DEF IInv, HostInv
<1>4. ASSUME name # "content-length", length' = length PROVE LengthInv'
  BY <1>1, <1>2, <1>4 DEF IInv, LengthInv
<1>5. ASSUME name # "transfer-encoding", codings' = codings PROVE CodingInv'
  BY <1>1, <1>2, <1>5 DEF IInv, CodingInv
<1> QED
  BY <1>3, <1>4, <1>5

-----------------------------------------------------------------------------
LEMMA NextIInv == IInv /\ HeadersInv /\ [Next]_vars => IInv' /\ HeadersInv'
<1> SUFFICES ASSUME IInv, HeadersInv, [Next]_vars PROVE IInv' /\ HeadersInv'
  OBVIOUS
<1>1. CASE Host
  <2>1. /\ Keep("host") /\ "host" \in Names
        /\ hostSeen = FALSE /\ hostSeen' = TRUE
        /\ length' = length /\ codings' = codings
    BY <1>1 DEF Host, Names, IInv, TypeOK
  <2>2. HeadersInv' /\ DOMAIN headers'.map \subseteq Names
        /\ \A n \in DOMAIN headers'.map : headers'.map[n] \in Seq(Line)
    BY <2>1, KeepHeaders
  <2>3. Seen("host")' = {read + 1}
    <3>1. Seen("host") = {}
      BY <2>1 DEF IInv, HostInv
    <3> QED
      BY <2>1, <3>1, SeenAfter DEF IInv
  <2>4. HostInv'
    BY <2>1, <2>3 DEF HostInv
  <2>5. LengthInv' /\ CodingInv'
    BY <2>1, OtherAccumulators
  <2>6. length' \in Nat \cup {NotGiven} /\ codings' \in Seq(CodingNames)
    BY <2>1 DEF IInv, TypeOK
  <2>7. hostSeen' \in BOOLEAN
    BY <2>1
  <2> QED
    BY <2>1, <2>2, <2>4, <2>5, <2>6, <2>7, KeepRest
<1>2. CASE ContentLength
  <2>1. /\ Keep("content-length") /\ "content-length" \in Names
        /\ length \in {NotGiven, This.length} /\ length' = This.length
        /\ hostSeen' = hostSeen /\ codings' = codings
    BY <1>2 DEF ContentLength, Names
  <2>2. HeadersInv' /\ DOMAIN headers'.map \subseteq Names
        /\ \A n \in DOMAIN headers'.map : headers'.map[n] \in Seq(Line)
    BY <2>1, KeepHeaders
  <2>3. /\ Seen("content-length")' = Seen("content-length") \cup {read + 1}
        /\ Lines' = Lines /\ This \in Line
    BY <2>1, SeenAfter DEF IInv
  <2>4. This.length \in Nat
    BY <2>3 DEF Line
  <2>5. LengthInv'
    <3>1. \A i \in Seen("content-length") : Lines[i].length = length /\ Lines[i].length \in Nat
      <4>1. Lines \in Seq(Line) /\ read \in 0 .. Len(Lines)
        BY DEF IInv, TypeOK, Input, Lines
      <4>2. \A i \in Seen("content-length") : Lines[i] \in Line
        BY <4>1 DEF Seen
      <4> QED
        BY <4>2 DEF Line, IInv, LengthInv
    <3>2. \A i \in Seen("content-length") : length # NotGiven
      BY <3>1 DEF NotGiven
    <3>3. Lines[read + 1].length = length'
      BY <2>1 DEF This, Lines
    <3> QED
      BY <2>1, <2>3, <3>1, <3>2, <3>3 DEF LengthInv
  <2>6. HostInv' /\ CodingInv'
    BY <2>1, OtherAccumulators
  <2>7. length' \in Nat \cup {NotGiven} /\ codings' \in Seq(CodingNames)
    BY <2>1, <2>4 DEF IInv, TypeOK
  <2>8. hostSeen' \in BOOLEAN
    BY <2>1 DEF IInv, TypeOK
  <2> QED
    BY <2>1, <2>2, <2>5, <2>6, <2>7, <2>8, KeepRest
<1>3. CASE TransferEncoding
  <2>1. /\ Keep("transfer-encoding") /\ "transfer-encoding" \in Names
        /\ codings' = codings \o This.codings
        /\ hostSeen' = hostSeen /\ length' = length
    BY <1>3 DEF TransferEncoding, Names
  <2>2. HeadersInv' /\ DOMAIN headers'.map \subseteq Names
        /\ \A n \in DOMAIN headers'.map : headers'.map[n] \in Seq(Line)
    BY <2>1, KeepHeaders
  <2>3. Seen("transfer-encoding")' # {} /\ This \in Line
    BY <2>1, SeenAfter DEF IInv
  <2>4. This.codings \in Seq(CodingNames) /\ This.codings # <<>> /\ codings \in Seq(CodingNames)
    BY <2>3 DEF Line, IInv, TypeOK
  <2>5. codings' \in Seq(CodingNames) /\ codings' # <<>>
    BY <2>1, <2>4
  <2>6. CodingInv'
    BY <2>3, <2>5 DEF CodingInv
  <2>7. HostInv' /\ LengthInv'
    BY <2>1, OtherAccumulators
  <2>8. length' \in Nat \cup {NotGiven}
    BY <2>1 DEF IInv, TypeOK
  <2>9. hostSeen' \in BOOLEAN
    BY <2>1 DEF IInv, TypeOK
  <2> QED
    BY <2>1, <2>2, <2>5, <2>6, <2>7, <2>8, <2>9, KeepRest
<1>4. CASE OtherField
  <2>1. /\ Keep("other") /\ "other" \in Names
        /\ hostSeen' = hostSeen /\ length' = length /\ codings' = codings
    BY <1>4 DEF OtherField, Names
  <2>2. HeadersInv' /\ DOMAIN headers'.map \subseteq Names
        /\ \A n \in DOMAIN headers'.map : headers'.map[n] \in Seq(Line)
    BY <2>1, KeepHeaders
  <2>3. HostInv' /\ LengthInv' /\ CodingInv'
    BY <2>1, OtherAccumulators
  <2>4. length' \in Nat \cup {NotGiven} /\ codings' \in Seq(CodingNames)
    BY <2>1 DEF IInv, TypeOK
  <2>5. hostSeen' \in BOOLEAN
    BY <2>1 DEF IInv, TypeOK
  <2> QED
    BY <2>1, <2>2, <2>3, <2>4, <2>5, KeepRest
<1>5. CASE Accept
  <2>1. /\ UNCHANGED <<input, read, hostSeen, length, codings, headers>>
        /\ verdict' = "accepted" /\ mode' = BodyMode
        /\ read = Len(input.lines) /\ hostSeen /\ Framed
    BY <1>5 DEF Accept, AtEnd
  <2>2. \A name : Seen(name)' = Seen(name)
    BY <2>1 DEF Seen, Lines
  <2>3. mode' \in Modes
    <3>1. length # NotGiven => Fixed(length) \in Modes
      BY DEF IInv, TypeOK, Fixed, Modes
    <3>2. NoBody \in Modes /\ Chunked \in Modes
      BY DEF NoBody, Chunked, Modes
    <3> QED
      BY <2>1, <3>1, <3>2 DEF BodyMode
  <2>4. TypeOK'
    BY <2>1, <2>3 DEF IInv, TypeOK
  <2>5. HostInv' /\ LengthInv' /\ CodingInv' /\ HeadersInv'
    BY <2>1, <2>2 DEF IInv, HostInv, LengthInv, CodingInv, HeadersInv, AreLines, Lines
  <2>6. EndInv'
    BY <2>1 DEF EndInv, Lines, Framed, ChunkedAt, BodyMode
  <2> QED
    BY <2>4, <2>5, <2>6 DEF IInv
<1>6. CASE RejectStart \/ RejectLine \/ RejectEnd \/ UNCHANGED vars
  BY <1>6, RejectKeeps DEF RejectStart, RejectLine, RejectEnd
<1> QED
  BY <1>1, <1>2, <1>3, <1>4, <1>5, <1>6 DEF Next

-----------------------------------------------------------------------------
\* The invariant holds of every head.
THEOREM Accumulators == Spec => [](IInv /\ HeadersInv)
BY InitIInv, NextIInv, PTL DEF Spec

\* Whatever the lines and their number, the loop's variables keep their types.
THEOREM TypeCorrect == Spec => []TypeOK
<1>1. IInv => TypeOK
  BY DEF IInv
<1> QED
  BY <1>1, Accumulators, PTL

\* When all lines have been read, the lines seen are the lines.
LEMMA AllSeen == IInv /\ verdict = "accepted" => \A name : Seen(name) = Named(name)
<1> SUFFICES ASSUME IInv, verdict = "accepted" PROVE \A name : Seen(name) = Named(name)
  OBVIOUS
<1>1. read = Len(Lines) /\ Lines \in Seq(Line)
  BY DEF IInv, EndInv, TypeOK, Input, Lines
<1>2. DOMAIN Lines = 1 .. read
  BY <1>1
<1> QED
  BY <1>2 DEF Seen, Named

\* OneReading of RequestHead: parse_request_head accepts no head whose framing fields
\* could be read in two ways, and its BodyMode is what the whole head says.
THEOREM FramingHasOneReading == Spec => []OneReading
<1>1. ASSUME IInv, verdict = "accepted" PROVE OneReading
  <2>1. /\ hostSeen /\ Framed /\ mode = BodyMode
        /\ Seen("host") = Named("host")
        /\ Seen("content-length") = Named("content-length")
        /\ Seen("transfer-encoding") = Named("transfer-encoding")
    BY <1>1, AllSeen DEF IInv, EndInv
  <2>2. OneHost
    <3>1. PICK i : i \in Named("host")
      BY <1>1, <2>1 DEF IInv, HostInv
    <3>2. Named("host") = {i} /\ i \in DOMAIN Lines
      BY <1>1, <2>1, <3>1 DEF IInv, HostInv, Named
    <3> QED
      BY <3>2 DEF OneHost
  <2>3. /\ \A n \in Lengths : n = length
        /\ Lengths # {} <=> length # NotGiven
    <3>1. \A i \in Named("content-length") : Lines[i].length = length /\ Lines[i].length \in Nat
      <4>1. Lines \in Seq(Line)
        BY <1>1 DEF IInv, TypeOK, Input, Lines
      <4>2. \A i \in Named("content-length") : Lines[i] \in Line
        BY <4>1 DEF Named
      <4> QED
        BY <1>1, <2>1, <4>2 DEF Line, IInv, LengthInv
    <3>2. length # NotGiven => Named("content-length") # {}
      BY <1>1, <2>1 DEF IInv, LengthInv
    <3> QED
      BY <3>1, <3>2 DEF Lengths, NotGiven
  <2>4. codings # <<>> <=> Named("transfer-encoding") # {}
    BY <1>1, <2>1 DEF IInv, CodingInv
  <2>5. codings # <<>> => length = NotGiven
    BY <2>1 DEF Framed
  <2>6. Unambiguous
    BY <2>2, <2>3, <2>4, <2>5 DEF Unambiguous, OneLength
  <2>7. mode = Chunked <=> Named("transfer-encoding") # {}
    BY <2>1, <2>4 DEF BodyMode, Chunked, Fixed, NoBody
  <2>8. mode.by = "fixed" => Lengths = {mode.n}
    <3>1. mode.by = "fixed" => length # NotGiven /\ mode.n = length
      BY <2>1 DEF BodyMode, Chunked, Fixed, NoBody
    <3> QED
      BY <2>3, <3>1
  <2>9. mode = NoBody => Lengths = {}
    BY <2>1, <2>3, <2>5 DEF BodyMode, Chunked, Fixed, NoBody
  <2> QED
    BY <2>6, <2>7, <2>8, <2>9 DEF OneReading
<1>2. IInv => OneReading
  BY <1>1 DEF OneReading
<1> QED
  BY <1>2, Accumulators, PTL

\* HandlerSeesFraming of RequestHead: what the handler finds in the headers is what
\* the body was framed by, every line of it and in order.
THEOREM HandlersSeeTheFraming == Spec => []HandlerSeesFraming
<1>1. ASSUME IInv, HeadersInv, verdict = "accepted" PROVE HandlerSeesFraming
  <2>1. \A name \in Names :
           /\ HasField(headers, name) <=> Named(name) # {}
           /\ AreLines(GetAll(headers, name), Named(name))
    BY <1>1, AllSeen DEF HeadersInv
  <2>2. ASSUME NEW v \in 1 .. Len(GetAll(headers, "content-length"))
        PROVE  mode = Fixed(GetAll(headers, "content-length")[v].length)
    <3>1. GetAll(headers, "content-length")[v].length = length
      BY <1>1 DEF HeadersInv
    <3>2. GetAll(headers, "content-length")[v] \in Line
      <4>1. GetAll(headers, "content-length") \in Seq(Line)
        BY <1>1 DEF GetAll, HasField, IInv, TypeOK
      <4> QED
        BY <4>1
    <3>3. length # NotGiven
      BY <3>1, <3>2 DEF Line, NotGiven
    <3> QED
      BY <1>1, <3>1, <3>3 DEF IInv, EndInv, Framed, BodyMode
  <2> QED
    BY <1>1, <2>1, <2>2 DEF HandlerSeesFraming, HeadersInv
<1>2. IInv /\ HeadersInv => HandlerSeesFraming
  BY <1>1 DEF HandlerSeesFraming
<1> QED
  BY <1>2, Accumulators, PTL

-----------------------------------------------------------------------------
\* The verdict, on any head.

OnlyLast(cs) == \A k \in DOMAIN cs : cs[k] = "chunked" => k = Len(cs)

\* What the codings of all lines, put together, tell of the single lines.
CodingTail ==
    LET S     == Seen("transfer-encoding")
        Of(i) == Lines[i].codings
    IN  /\ HasChunked(codings) <=> \E i \in S : HasChunked(Of(i))
        /\ OnlyLast(codings) <=>
               \A i \in S : OnlyLast(Of(i)) /\ (HasChunked(Of(i)) => IsLast(i, S))
        /\ S # {} => \E i \in S : IsLast(i, S)

\* A line that was read was in order.
OrderInv == \A i \in 1 .. read :
                Lines[i].formed /\ (Lines[i].name # "other" => Lines[i].good)

VInv == /\ CodingTail /\ OrderInv
        /\ verdict = "accepted" => input.start
        /\ Verdict

\* The codings of one more line.
LEMMA OneMoreLine ==
    ASSUME NEW c \in Seq(CodingNames), NEW l \in Seq(CodingNames), l # <<>>
    PROVE  /\ HasChunked(c \o l) <=> HasChunked(c) \/ HasChunked(l)
           /\ OnlyLast(c \o l) <=> ~HasChunked(c) /\ OnlyLast(l)
<1> DEFINE s == c \o l
           m == Len(c)
           n == Len(l)
<1>1. /\ m \in Nat /\ n \in Nat /\ n >= 1
      /\ DOMAIN c = 1 .. m /\ DOMAIN l = 1 .. n /\ DOMAIN s = 1 .. (m + n) /\ Len(s) = m + n
      /\ \A i \in 1 .. m : i \in DOMAIN s /\ s[i] = c[i]
      /\ \A i \in 1 .. n : m + i \in DOMAIN s /\ s[m + i] = l[i]
  <2>1. m \in Nat /\ n \in Nat /\ n >= 1 /\ DOMAIN c = 1 .. m /\ DOMAIN l = 1 .. n
    OBVIOUS
  <2>2. s \in Seq(CodingNames) /\ Len(s) = m + n
        /\ \A i \in 1 .. m + n : s[i] = IF i <= m THEN c[i] ELSE l[i - m]
    BY ConcatProperties
  <2>3. DOMAIN s = 1 .. (m + n)
    BY <2>2
  <2>4. \A i \in 1 .. m : i \in 1 .. (m + n) /\ i <= m
    BY <2>1
  <2>5. \A i \in 1 .. n : m + i \in 1 .. (m + n) /\ ~(m + i <= m) /\ (m + i) - m = i
    BY <2>1
  <2> HIDE DEF s, m, n
  <2>6. \A i \in 1 .. m : s[i] = c[i]
    BY <2>2, <2>4
  <2>7. \A i \in 1 .. n : s[m + i] = l[i]
    BY <2>2, <2>5
  <2> QED
    BY <2>1, <2>2, <2>3, <2>4, <2>5, <2>6, <2>7
<1> HIDE DEF s, m, n
<1>2. ASSUME NEW k \in DOMAIN s
      PROVE  k \in DOMAIN c \/ \E i \in DOMAIN l : k = m + i
  <2>1. CASE k <= m
    BY <1>1, <2>1
  <2>2. CASE ~(k <= m)
    <3>1. k - m \in DOMAIN l /\ k = m + (k - m)
      BY <1>1, <2>2
    <3> QED
      BY <3>1
  <2> QED
    BY <2>1, <2>2
<1>3. HasChunked(s) <=> HasChunked(c) \/ HasChunked(l)
  <2>1. ASSUME HasChunked(s) PROVE HasChunked(c) \/ HasChunked(l)
    <3>1. PICK k \in DOMAIN s : s[k] = "chunked"
      BY <2>1 DEF HasChunked
    <3> QED
      BY <1>1, <1>2, <3>1 DEF HasChunked
  <2>2. ASSUME HasChunked(c) \/ HasChunked(l) PROVE HasChunked(s)
    BY <1>1, <2>2 DEF HasChunked
  <2> QED
    BY <2>1, <2>2
<1>4. ASSUME OnlyLast(s) PROVE ~HasChunked(c) /\ OnlyLast(l)
  <2>1. ASSUME NEW k \in DOMAIN c, c[k] = "chunked" PROVE FALSE
    <3>1. k \in DOMAIN s /\ s[k] = "chunked" /\ k # Len(s)
      BY <1>1, <2>1
    <3> QED
      BY <1>4, <3>1 DEF OnlyLast
  <2>2. ASSUME NEW k \in DOMAIN l, l[k] = "chunked" PROVE k = n
    <3>1. m + k \in DOMAIN s /\ s[m + k] = "chunked"
      BY <1>1, <2>2
    <3>2. m + k = Len(s)
      BY <1>4, <3>1 DEF OnlyLast
    <3> QED
      BY <1>1, <3>2
  <2> QED
    BY <2>1, <2>2 DEF HasChunked, OnlyLast, n
<1>5. ASSUME ~HasChunked(c), OnlyLast(l) PROVE OnlyLast(s)
  <2> SUFFICES ASSUME NEW k \in DOMAIN s, s[k] = "chunked" PROVE k = Len(s)
    BY DEF OnlyLast
  <2>1. k \notin DOMAIN c
    BY <1>1, <1>5 DEF HasChunked
  <2>2. PICK i \in DOMAIN l : k = m + i
    BY <1>2, <2>1
  <2>3. l[i] = "chunked"
    BY <1>1, <2>2
  <2>4. i = n
    BY <1>5, <2>3 DEF OnlyLast, n
  <2> QED
    BY <1>1, <2>2, <2>4
<1> QED
  BY <1>3, <1>4, <1>5 DEF s

\* A Transfer-Encoding line more.
LEMMA EncodingKeepsTail ==
    ASSUME IInv, CodingTail, TransferEncoding
    PROVE  CodingTail'
<1> DEFINE S     == Seen("transfer-encoding")
           Of(i) == Lines[i].codings
           n     == read + 1
<1>1. /\ Keep("transfer-encoding") /\ "transfer-encoding" \in Names
      /\ codings' = codings \o This.codings
  BY DEF TransferEncoding, Names
<1>2. /\ Lines' = Lines /\ This \in Line
      /\ Seen("transfer-encoding")' = S \cup {n}
  BY <1>1, SeenAfter DEF IInv
<1>3. /\ This = Lines[n] /\ This.codings = Of(n)
      /\ codings \in Seq(CodingNames) /\ Of(n) \in Seq(CodingNames) /\ Of(n) # <<>>
  <2>1. This = Lines[n]
    BY DEF This, Lines
  <2> QED
    BY <1>2, <2>1 DEF Line, IInv, TypeOK
<1>4. read \in Nat /\ \A i \in S : i \in Nat /\ i < n
  BY DEF IInv, TypeOK, Input, Seen
<1>5. /\ HasChunked(codings') <=> HasChunked(codings) \/ HasChunked(Of(n))
      /\ OnlyLast(codings') <=> ~HasChunked(codings) /\ OnlyLast(Of(n))
  BY <1>1, <1>3, OneMoreLine
<1>6. HasChunked(codings) <=> \E i \in S : HasChunked(Of(i))
  BY DEF CodingTail
<1>7. /\ IsLast(n, S \cup {n}) /\ \A i \in S : ~IsLast(i, S \cup {n})
  BY <1>4 DEF IsLast
<1>8. \A i \in S : ~HasChunked(Of(i)) => OnlyLast(Of(i))
  BY DEF HasChunked, OnlyLast
<1> HIDE DEF S, Of, n
<1>9. HasChunked(codings') <=> \E i \in S \cup {n} : HasChunked(Of(i))
  BY <1>5, <1>6
<1>10. OnlyLast(codings') <=>
          \A i \in S \cup {n} : OnlyLast(Of(i)) /\ (HasChunked(Of(i)) => IsLast(i, S \cup {n}))
  BY <1>5, <1>6, <1>7, <1>8
<1> QED
  BY <1>2, <1>7, <1>9, <1>10 DEF CodingTail, Of

\* Any other step leaves the codings and their lines alone.
LEMMA OthersKeepTail ==
    ASSUME IInv, CodingTail,
           \/ Host \/ ContentLength \/ OtherField \/ Accept
           \/ RejectStart \/ RejectLine \/ RejectEnd \/ UNCHANGED vars
    PROVE  CodingTail'
<1>1. /\ codings' = codings /\ Lines' = Lines
      /\ Seen("transfer-encoding")' = Seen("transfer-encoding")
  <2>1. CASE Host \/ ContentLength \/ OtherField
    <3>1. PICK name \in {"host", "content-length", "other"} : Keep(name)
      BY <2>1 DEF Host, ContentLength, OtherField
    <3>2. codings' = codings
      BY <2>1 DEF Host, ContentLength, OtherField
    <3> QED
      BY <3>1, <3>2, SeenAfter DEF IInv, Names
  <2>2. CASE Accept \/ RejectStart \/ RejectLine \/ RejectEnd \/ UNCHANGED vars
    BY <2>2 DEF Accept, RejectStart, RejectLine, RejectEnd, Reject, vars, Seen, Lines
  <2> QED
    BY <2>1, <2>2
<1> QED
  BY <1>1 DEF CodingTail

\* What has been read is in order, for a line out of order is not kept.
LEMMA StepKeepsOrder ==
    ASSUME IInv, OrderInv, [Next]_vars
    PROVE  OrderInv'
<1>1. CASE Host \/ ContentLength \/ TransferEncoding \/ OtherField
  <2>1. PICK name \in Names : Keep(name) /\ This.formed /\ (name # "other" => This.good)
    BY <1>1 DEF Host, ContentLength, TransferEncoding, OtherField, Keep, Names
  <2>2. read' = read + 1 /\ Lines' = Lines /\ This = Lines[read + 1] /\ This.name = name
    BY <2>1, SeenAfter DEF IInv, This, Lines
  <2>3. read \in Nat
    BY DEF IInv, TypeOK, Input
  <2>4. \A i \in 1 .. (read + 1) : i \in 1 .. read \/ i = read + 1
    BY <2>3
  <2> QED
    BY <2>1, <2>2, <2>4 DEF OrderInv
<1>2. CASE ~(Host \/ ContentLength \/ TransferEncoding \/ OtherField)
  <2>1. read' = read /\ Lines' = Lines
    BY <1>2 DEF Next, Accept, RejectStart, RejectLine, RejectEnd, Reject, vars, Lines
  <2> QED
    BY <2>1 DEF OrderInv
<1> QED
  BY <1>1, <1>2

\* A line is refused for what no head may have.
LEMMA RefusedLine ==
    ASSUME IInv, RejectLine
    PROVE  ~(InOrder /\ Unambiguous)
<1> SUFFICES ASSUME InOrder, Unambiguous PROVE FALSE
  OBVIOUS
<1> DEFINE n == read + 1
<1>1. /\ Lines \in Seq(Line) /\ n \in DOMAIN Lines /\ This = Lines[n] /\ read \in Nat
      /\ \A i \in 1 .. read : i \in DOMAIN Lines /\ i # n
  <2>1. Lines \in Seq(Line) /\ read \in Nat /\ read < Len(Lines) /\ Len(Lines) \in Nat
    BY DEF RejectLine, AtLine, IInv, TypeOK, Input, Lines
  <2>2. This = Lines[n]
    BY DEF This, Lines
  <2> QED
    BY <2>1, <2>2
<1>2. Lines[n] \in Line
  BY <1>1
<1>3. This.formed /\ (This.name # "other" => This.good)
  BY <1>1 DEF InOrder
<1>4. CASE This.name = "host" /\ hostSeen
  <2>1. PICK i \in Seen("host") : TRUE
    BY <1>4 DEF IInv, HostInv
  <2>2. i \in Named("host") /\ n \in Named("host") /\ i # n
    BY <1>1, <1>4, <2>1 DEF Seen, Named
  <2> QED
    BY <2>2 DEF Unambiguous, OneHost
<1>5. CASE This.name = "content-length" /\ length \notin {NotGiven, This.length}
  <2>1. PICK i \in Seen("content-length") : Lines[i].length = length
    BY <1>5 DEF IInv, LengthInv
  <2>2. i \in Named("content-length") /\ n \in Named("content-length")
    BY <1>1, <1>5, <2>1 DEF Seen, Named
  <2>3. length \in Lengths /\ This.length \in Lengths
    BY <1>1, <2>1, <2>2 DEF Lengths
  <2> QED
    BY <1>5, <2>3 DEF Unambiguous, OneLength
<1> QED
  BY <1>3, <1>4, <1>5 DEF RejectLine

\* When all lines have been read, determine_body_mode and the test for Host ask for
\* what the whole head must be.
LEMMA LastVerdict ==
    ASSUME IInv, CodingTail, AtEnd
    PROVE  /\ hostSeen /\ Framed => ChunkedOnceLast
           /\ Unambiguous /\ ChunkedOnceLast => hostSeen /\ Framed
<1> DEFINE S     == Named("transfer-encoding")
           Of(i) == Lines[i].codings
<1>1. \A name : Seen(name) = Named(name)
  <2>1. read = Len(Lines) /\ Lines \in Seq(Line)
    BY DEF IInv, AtEnd, TypeOK, Input, Lines
  <2> QED
    BY <2>1 DEF Seen, Named
<1>2. /\ HasChunked(codings) <=> \E i \in S : HasChunked(Of(i))
      /\ OnlyLast(codings) <=>
             \A i \in S : OnlyLast(Of(i)) /\ (HasChunked(Of(i)) => IsLast(i, S))
      /\ S # {} => \E i \in S : IsLast(i, S)
      /\ codings # <<>> <=> S # {}
  BY <1>1 DEF CodingTail, IInv, CodingInv
<1>3. codings # <<>> => (ChunkedAt = {Len(codings)} <=> HasChunked(codings) /\ OnlyLast(codings))
  <2>1. codings \in Seq(CodingNames)
    BY DEF IInv, TypeOK
  <2> QED
    BY <2>1 DEF ChunkedAt, HasChunked, OnlyLast
<1>4. ChunkedOnceLast <=>
        \A i \in S : OnlyLast(Of(i)) /\ (HasChunked(Of(i)) <=> IsLast(i, S))
  BY DEF ChunkedOnceLast, OnlyLast
<1>5. \A i, j \in S : IsLast(i, S) /\ IsLast(j, S) => i = j
  <2>1. \A i \in S : i \in Nat
    BY <1>1 DEF IInv, TypeOK, Input, Seen
  <2> QED
    BY <2>1 DEF IsLast
<1>6. S # {} => (ChunkedOnceLast <=> HasChunked(codings) /\ OnlyLast(codings))
  <2> HIDE DEF S, Of
  <2> QED
    BY <1>2, <1>4, <1>5
<1>7. S = {} => ChunkedOnceLast
  BY <1>4
<1>8. hostSeen <=> Named("host") # {}
  BY <1>1 DEF IInv, HostInv
<1>9. length # NotGiven => Lengths # {}
  BY <1>1 DEF IInv, LengthInv, Lengths
<1>10. OneHost => hostSeen
  BY <1>8 DEF OneHost
<1> HIDE DEF S
<1>11. ASSUME Framed PROVE ChunkedOnceLast
  BY <1>2, <1>3, <1>6, <1>7, <1>11 DEF Framed
<1>12. ASSUME Unambiguous, ChunkedOnceLast PROVE hostSeen /\ Framed
  <2>1. CASE S = {}
    BY <1>2, <1>10, <1>12, <2>1 DEF Framed, Unambiguous
  <2>2. CASE S # {}
    <3>1. length = NotGiven
      BY <1>9, <1>12, <2>2 DEF Unambiguous, S
    <3> QED
      BY <1>2, <1>3, <1>6, <1>10, <1>12, <2>2, <3>1 DEF Framed, Unambiguous
  <2> QED
    BY <2>1, <2>2
<1> QED
  BY <1>11, <1>12

\* A head that is at its end and in order is judged by its framing alone.
LEMMA EndKeepsVerdict ==
    ASSUME IInv, VInv, Accept, OneReading'
    PROVE  Verdict'
<1>1. AtEnd /\ hostSeen /\ Framed /\ input.start /\ Lines' = Lines
      /\ input' = input /\ verdict' = "accepted"
  BY DEF Accept, AtEnd, Lines
<1>2. ChunkedOnceLast
  BY <1>1, LastVerdict DEF VInv
<1>3. InOrder
  <2>1. read = Len(Lines) /\ Lines \in Seq(Line)
    BY <1>1 DEF IInv, AtEnd, TypeOK, Input, Lines
  <2> QED
    BY <2>1 DEF InOrder, VInv, OrderInv
<1>4. Unambiguous'
  BY <1>1 DEF OneReading
<1>5. InOrder' /\ ChunkedOnceLast'
  BY <1>1, <1>2, <1>3 DEF InOrder, ChunkedOnceLast, Named
<1> QED
  BY <1>1, <1>4, <1>5 DEF Verdict

LEMMA StepKeepsVerdict ==
    ASSUME IInv, VInv, OneReading', [Next]_vars
    PROVE  VInv'
<1>1. OrderInv'
  BY StepKeepsOrder DEF VInv
<1>2. CodingTail'
  BY EncodingKeepsTail, OthersKeepTail DEF VInv, Next
<1>3. verdict' = "accepted" => input'.start
  BY DEF VInv, Next, vars, Reject, RejectStart, RejectLine, RejectEnd, Accept, AtEnd,
     Host, ContentLength, TransferEncoding, OtherField, Keep, AtLine
<1>4. input' = input /\ Lines' = Lines
  BY DEF Next, vars, Reject, RejectStart, RejectLine, RejectEnd, Accept,
     Host, ContentLength, TransferEncoding, OtherField, Keep, Lines
<1>5. (InOrder /\ Unambiguous /\ ChunkedOnceLast) <=> (InOrder /\ Unambiguous /\ ChunkedOnceLast)'
  BY <1>4 DEF InOrder, Unambiguous, OneHost, OneLength, Lengths, ChunkedOnceLast, Named
<1>6. Verdict'
  <2>1. CASE Accept
    BY <2>1, EndKeepsVerdict
  <2>2. CASE RejectStart
    BY <1>4, <2>2 DEF RejectStart, Reject, Verdict
  <2>3. CASE RejectLine
    <3>1. verdict' = "rejected"
      BY <2>3 DEF RejectLine, Reject
    <3> QED
      BY <1>5, <2>3, <3>1, RefusedLine DEF Verdict
  <2>4. CASE RejectEnd
    <3>1. verdict' = "rejected" /\ AtEnd /\ ~(hostSeen /\ Framed)
      BY <2>4 DEF RejectEnd, Reject
    <3>2. ~(Unambiguous /\ ChunkedOnceLast)
      BY <3>1, LastVerdict DEF VInv
    <3> QED
      BY <1>5, <3>1, <3>2 DEF Verdict
  <2>5. CASE Host \/ ContentLength \/ TransferEncoding \/ OtherField
    <3>1. verdict' = "reading"
      BY <2>5 DEF Host, ContentLength, TransferEncoding, OtherField, Keep, AtLine
    <3> QED
      BY <3>1 DEF Verdict
  <2>6. CASE UNCHANGED vars
    BY <1>4, <1>5, <2>6 DEF VInv, Verdict, vars
  <2> QED
    BY <2>1, <2>2, <2>3, <2>4, <2>5, <2>6 DEF Next
<1> QED
  BY <1>1, <1>2, <1>3, <1>6 DEF VInv

\* Verdict of RequestHead: for heads of any number of lines, in any order,
\* parse_request_head accepts exactly those that are in order and have one reading.
THEOREM VerdictIsRight == Spec => []Verdict
<1>1. Init => VInv
  <2> SUFFICES ASSUME Init PROVE VInv
    OBVIOUS
  <2>1. codings = <<>> /\ verdict = "reading" /\ 1 .. read = {} /\ \A name : Seen(name) = {}
    BY DEF Init, Seen
  <2>2. ~HasChunked(codings) /\ OnlyLast(codings)
    BY <2>1 DEF HasChunked, OnlyLast
  <2> QED
    BY <2>1, <2>2 DEF VInv, CodingTail, OrderInv, Verdict
<1>2. IInv /\ OneReading' /\ VInv /\ [Next]_vars => VInv'
  BY StepKeepsVerdict
<1>3. VInv => Verdict
  BY DEF VInv
<1> QED
  BY <1>1, <1>2, <1>3, Accumulators, FramingHasOneReading, PTL DEF Spec

-----------------------------------------------------------------------------
\* The order of the names, as Headers::remove and iter read it.

\* Retained is what its recursion says: whatever satisfies that ends with it.
LEMMA RetainedIs ==
    ASSUME NEW s, NEW T, Len(s) \in Nat,
           NEW u, u = [i \in 0 .. Len(s) |->
                         IF i = 0 THEN <<>>
                         ELSE IF s[i] \in T THEN Append(u[i - 1], s[i]) ELSE u[i - 1]]
    PROVE  Retained(s, T) = u[Len(s)]
<1> DEFINE F(f) == [i \in 0 .. Len(s) |->
                      IF i = 0 THEN <<>>
                      ELSE IF s[i] \in T THEN Append(f[i - 1], s[i]) ELSE f[i - 1]]
           v == CHOOSE f : f = F(f)
           S == { n \in Nat : n <= Len(s) => v[n] = u[n] }
<1>1. v = F(v)
  <2>1. u = F(u)
    OBVIOUS
  <2> HIDE DEF F
  <2> QED
    BY <2>1
<1> HIDE DEF v
<1>4. ASSUME NEW f, f = F(f), NEW i \in 0 .. Len(s)
      PROVE  f[i] = IF i = 0 THEN <<>>
                    ELSE IF s[i] \in T THEN Append(f[i - 1], s[i]) ELSE f[i - 1]
  <2>1. F(f)[i] = IF i = 0 THEN <<>>
                  ELSE IF s[i] \in T THEN Append(f[i - 1], s[i]) ELSE f[i - 1]
    OBVIOUS
  <2> HIDE DEF F
  <2> QED
    BY <1>4, <2>1
<1>5. u = F(u)
  OBVIOUS
<1>6. ASSUME NEW i \in 0 .. Len(s)
      PROVE  /\ u[i] = IF i = 0 THEN <<>>
                    ELSE IF s[i] \in T THEN Append(u[i - 1], s[i]) ELSE u[i - 1]
             /\ v[i] = IF i = 0 THEN <<>>
                    ELSE IF s[i] \in T THEN Append(v[i - 1], s[i]) ELSE v[i - 1]
  <2> HIDE DEF F
  <2> QED
    BY <1>1, <1>4, <1>5
<1>3. Retained(s, T) = v[Len(s)]
  BY DEF Retained, v
<1> HIDE DEF F
<1>2. Nat \subseteq S
  <2>1. 0 \in S
    <3>1. 0 \in 0 .. Len(s)
      OBVIOUS
    <3> QED
      BY <1>6, <3>1
  <2>2. ASSUME NEW n \in Nat, n \in S PROVE n + 1 \in S
    <3> SUFFICES ASSUME n + 1 <= Len(s) PROVE v[n + 1] = u[n + 1]
      OBVIOUS
    <3>1. n + 1 \in 0 .. Len(s) /\ n + 1 # 0 /\ (n + 1) - 1 = n
      OBVIOUS
    <3>2. v[n] = u[n]
      BY <2>2
    <3>3. /\ u[n + 1] = IF s[n + 1] \in T THEN Append(u[(n + 1) - 1], s[n + 1])
                         ELSE u[(n + 1) - 1]
          /\ v[n + 1] = IF s[n + 1] \in T THEN Append(v[(n + 1) - 1], s[n + 1])
                         ELSE v[(n + 1) - 1]
      BY <1>6, <3>1
    <3> QED
      BY <3>1, <3>2, <3>3
  <2> HIDE DEF S
  <2> QED
    BY <2>1, <2>2, Induction
<1> QED
  BY <1>2, <1>3

\* Nothing is dropped from a sequence that is in T as a whole.
LEMMA RetainedAll ==
    ASSUME NEW N, NEW s \in Seq(N), NEW T, \A i \in 1 .. Len(s) : s[i] \in T
    PROVE  Retained(s, T) = s
<1> DEFINE u == [i \in 0 .. Len(s) |-> SubSeq(s, 1, i)]
<1>1. ASSUME NEW i \in 0 .. Len(s)
      PROVE  u[i] = IF i = 0 THEN <<>>
                    ELSE IF s[i] \in T THEN Append(u[i - 1], s[i]) ELSE u[i - 1]
  <2>1. CASE i = 0
    BY <2>1
  <2>2. CASE i # 0
    <3>1. i \in 1 .. Len(s) /\ i - 1 \in 0 .. Len(s) /\ (i - 1) + 1 = i
      BY <2>2
    <3>2. u[i] = SubSeq(s, 1, i) /\ u[i - 1] = SubSeq(s, 1, i - 1)
      BY <3>1
    <3>3. SubSeq(s, 1, i) = Append(SubSeq(s, 1, i - 1), s[i])
      BY <3>1
    <3> QED
      BY <2>2, <3>1, <3>2, <3>3
  <2> QED
    BY <2>1, <2>2
<1>2. u = [i \in 0 .. Len(s) |-> IF i = 0 THEN <<>>
                                 ELSE IF s[i] \in T THEN Append(u[i - 1], s[i]) ELSE u[i - 1]]
  BY <1>1
<1>3. u[Len(s)] = s
  BY SubSeqFull
<1>4. Len(s) \in Nat
  OBVIOUS
<1> HIDE DEF u
<1> QED
  BY <1>2, <1>3, <1>4, RetainedIs

\* s without its k-th element.
Cut(s, k) == SubSeq(s, 1, k - 1) \o SubSeq(s, k + 1, Len(s))

LEMMA CutParts ==
    ASSUME NEW N, NEW s \in Seq(N), NEW k \in 1 .. Len(s)
    PROVE  /\ Cut(s, k) \in Seq(N) /\ Len(Cut(s, k)) = Len(s) - 1
           /\ \A j \in 1 .. Len(s) - 1 : Cut(s, k)[j] = IF j < k THEN s[j] ELSE s[j + 1]
<1> DEFINE a == SubSeq(s, 1, k - 1)
           b == SubSeq(s, k + 1, Len(s))
<1>1. Len(s) \in Nat /\ k \in Nat /\ k >= 1 /\ k <= Len(s)
  OBVIOUS
<1>2. /\ a \in Seq(N) /\ Len(a) = k - 1
      /\ \A i \in 1 .. k - 1 : a[i] = s[i]
  <2>1. \A i \in 1 .. (k - 1) : s[i] \in N
    BY <1>1, ElementOfSeq
  <2>2. a \in Seq(N) /\ Len(a) = (IF 1 <= k - 1 THEN (k - 1) - 1 + 1 ELSE 0)
        /\ \A i \in 1 .. (k - 1) - 1 + 1 : a[i] = s[1 + i - 1]
    BY <1>1, <2>1, SubSeqProperties
  <2> HIDE DEF a
  <2> QED
    BY <1>1, <2>2
<1>3. /\ b \in Seq(N) /\ Len(b) = Len(s) - k
      /\ \A i \in 1 .. Len(s) - k : b[i] = s[k + i]
  <2>1. \A i \in (k + 1) .. Len(s) : s[i] \in N
    BY <1>1, ElementOfSeq
  <2>2. b \in Seq(N) /\ Len(b) = (IF k + 1 <= Len(s) THEN Len(s) - (k + 1) + 1 ELSE 0)
        /\ \A i \in 1 .. Len(s) - (k + 1) + 1 : b[i] = s[(k + 1) + i - 1]
    BY <1>1, <2>1, SubSeqProperties
  <2> HIDE DEF b
  <2> QED
    BY <1>1, <2>2
<1> HIDE DEF a, b
<1>4. a \o b \in Seq(N) /\ Len(a \o b) = Len(a) + Len(b)
      /\ \A i \in 1 .. Len(a) + Len(b) : (a \o b)[i] = IF i <= Len(a) THEN a[i] ELSE b[i - Len(a)]
  BY <1>2, <1>3, ConcatProperties
<1>5. Cut(s, k) = a \o b
  BY DEF Cut, a, b
<1>6. ASSUME NEW j \in 1 .. Len(s) - 1
      PROVE  Cut(s, k)[j] = IF j < k THEN s[j] ELSE s[j + 1]
  <2>1. CASE j < k
    BY <1>1, <1>2, <1>3, <1>4, <1>5, <2>1
  <2>2. CASE ~(j < k)
    <3>1. j - (k - 1) \in 1 .. Len(s) - k /\ k + (j - (k - 1)) = j + 1
      BY <1>1, <2>2
    <3>2. (a \o b)[j] = b[j - (k - 1)]
      BY <1>1, <1>2, <1>3, <1>4, <2>2
    <3> QED
      BY <1>3, <1>5, <2>2, <3>1, <3>2
  <2> QED
    BY <2>1, <2>2
<1>7. Len(a) + Len(b) = Len(s) - 1
  BY <1>1, <1>2, <1>3
<1>8. Cut(s, k) \in Seq(N) /\ Len(Cut(s, k)) = Len(s) - 1
  BY <1>4, <1>5, <1>7
<1> QED
  BY <1>6, <1>8

\* Only the k-th element is dropped if it alone is not in T.
LEMMA RetainedOthers ==
    ASSUME NEW N, NEW s \in Seq(N), NEW k \in 1 .. Len(s), NEW T,
           s[k] \notin T, \A i \in 1 .. Len(s) : i # k => s[i] \in T
    PROVE  Retained(s, T) = Cut(s, k)
<1> DEFINE a == SubSeq(s, 1, k - 1)
           b(i) == SubSeq(s, k + 1, i)
           u == [i \in 0 .. Len(s) |-> IF i < k THEN SubSeq(s, 1, i) ELSE a \o b(i)]
<1>1. Len(s) \in Nat /\ k \in Nat /\ k >= 1 /\ k <= Len(s)
  OBVIOUS
<1>2. ASSUME NEW i \in 1 .. Len(s)
      PROVE  u[i] = IF s[i] \in T THEN Append(u[i - 1], s[i]) ELSE u[i - 1]
  <2>1. i - 1 \in 0 .. Len(s) /\ (i - 1) + 1 = i /\ i \in 0 .. Len(s)
    OBVIOUS
  <2>2. CASE i < k
    <3>1. u[i] = SubSeq(s, 1, i) /\ u[i - 1] = SubSeq(s, 1, i - 1)
      BY <1>1, <2>1, <2>2
    <3>2. SubSeq(s, 1, i) = Append(SubSeq(s, 1, i - 1), s[i])
      OBVIOUS
    <3>3. s[i] \in T
      BY <1>1, <2>2
    <3> HIDE DEF u
    <3> QED
      BY <3>1, <3>2, <3>3
  <2>3. CASE i = k
    <3>1. u[i] = a \o b(k) /\ u[i - 1] = a
      BY <1>1, <2>1, <2>3
    <3>2. b(k) = <<>>
      BY <1>1, SubSeqEmpty
    <3>3. a \in Seq(N)
      BY <1>1
    <3>4. a \o <<>> = a
      BY <3>3, ConcatEmptySeq
    <3> QED
      BY <2>3, <3>1, <3>2, <3>4
  <2>4. CASE i > k
    <3>1. u[i] = a \o b(i) /\ u[i - 1] = a \o b(i - 1)
      BY <1>1, <2>1, <2>4
    <3>2. b(i) = b(i - 1) \o <<s[i]>>
      <4>1. k + 1 \in 1 .. Len(s) /\ i \in (k + 1) .. Len(s)
        BY <1>1, <2>4
      <4> QED
        BY <4>1, SubSeqRecursiveSecond
    <3>3. a \in Seq(N) /\ b(i - 1) \in Seq(N) /\ <<s[i]>> \in Seq(N)
      BY <1>1, <2>4
    <3>4. a \o b(i) = (a \o b(i - 1)) \o <<s[i]>>
      <4> HIDE DEF a, b
      <4> QED
        BY <3>2, <3>3, ConcatAssociative
    <3>5. a \o b(i - 1) \in Seq(N) /\ s[i] \in N
      <4>1. s[i] \in N
        OBVIOUS
      <4> HIDE DEF a, b
      <4> QED
        BY <3>3, <4>1, ConcatProperties
    <3>6. Append(a \o b(i - 1), s[i]) = (a \o b(i - 1)) \o <<s[i]>>
      <4> HIDE DEF a, b
      <4> QED
        BY <3>5, AppendIsConcat
    <3>7. s[i] \in T
      BY <1>1, <2>4
    <3> HIDE DEF a, b, u
    <3> QED
      BY <3>1, <3>4, <3>6, <3>7
  <2> QED
    BY <1>1, <2>2, <2>3, <2>4
<1>3. u[0] = <<>>
  BY <1>1
<1>4. u[Len(s)] = Cut(s, k)
  <2>1. Len(s) \in 0 .. Len(s) /\ ~(Len(s) < k)
    BY <1>1
  <2>2. u[Len(s)] = a \o b(Len(s))
    BY <2>1
  <2> QED
    BY <2>2 DEF Cut
<1>5. DOMAIN u = 0 .. Len(s) /\ u = [i \in 0 .. Len(s) |-> u[i]]
  OBVIOUS
<1> HIDE DEF u
<1>6. ASSUME NEW i \in 0 .. Len(s)
      PROVE  u[i] = IF i = 0 THEN <<>>
                    ELSE IF s[i] \in T THEN Append(u[i - 1], s[i]) ELSE u[i - 1]
  BY <1>2, <1>3
<1>7. u = [i \in 0 .. Len(s) |-> IF i = 0 THEN <<>>
                                 ELSE IF s[i] \in T THEN Append(u[i - 1], s[i]) ELSE u[i - 1]]
  BY <1>5, <1>6
<1> QED
  BY <1>1, <1>4, <1>7, RetainedIs

-----------------------------------------------------------------------------
\* What Headers::iter shows of a collection whose halves agree.
View(h) == [i \in DOMAIN h.order |-> [name |-> h.order[i], values |-> h.map[h.order[i]]]]

LEMMA IterIsView ==
    ASSUME NEW N, NEW V, NEW h, Holds(h, N, V)
    PROVE  /\ Iter(h) = View(h)
           /\ View(h) \in Seq([name : N, values : Seq(V)])
           /\ Len(View(h)) = Len(h.order)
<1>1. /\ h.order \in Seq(N) /\ Len(h.order) \in Nat
      /\ \A i \in 1 .. Len(h.order) : h.order[i] \in DOMAIN h.map
  BY DEF Holds, Consistent, Listing
<1>2. Retained(h.order, DOMAIN h.map) = h.order
  BY <1>1, RetainedAll
<1>3. Iter(h) = View(h)
  BY <1>2 DEF Iter, View
<1>4. View(h) \in [1 .. Len(h.order) -> [name : N, values : Seq(V)]]
  BY <1>1 DEF View, Holds
<1> DEFINE F == [name : N, values : Seq(V)]
           n == Len(h.order)
<1> HIDE DEF View, F, n
<1>5. View(h) \in Seq(F)
  <2>1. View(h) \in [1 .. n -> F] /\ n \in Nat
    BY <1>1, <1>4 DEF F, n
  <2> QED
    BY <2>1, SeqDef
<1>6. Len(View(h)) = n
  <2>1. n \in Nat /\ 1 .. n = DOMAIN View(h)
    BY <1>1, <1>4 DEF n
  <2>2. Len(View(h)) \in Nat /\ DOMAIN View(h) = 1 .. Len(View(h))
    BY <1>5
  <2>3. \A k, m \in Nat : 1 .. k = 1 .. m => k = m
    <3>1. \A k, m \in Nat : 1 .. k = 1 .. m /\ k # 0 => k <= m
      <4>1. \A k \in Nat : k # 0 => k \in 1 .. k
        OBVIOUS
      <4>2. \A k, m \in Nat : k \in 1 .. m => k <= m
        OBVIOUS
      <4> QED
        BY <4>1, <4>2
    <3> QED
      BY <3>1
  <2> QED
    BY <2>1, <2>2, <2>3
<1> QED
  BY <1>3, <1>5, <1>6 DEF F, n

\* s with f in the place of its i-th element.
Replaced(s, i, f) == [s EXCEPT ![i] = f]

\* A name that is there stays in its place.
LEMMA PutViewKnown ==
    ASSUME NEW N, NEW V, NEW h, Holds(h, N, V), NEW i \in DOMAIN h.order, NEW values,
           NEW g, g.map = Put(h.map, h.order[i], values), g.order = Listed(h, h.order[i])
    PROVE  View(g) = Replaced(View(h), i, [name |-> h.order[i], values |-> values])
<1>1. /\ \A j \in DOMAIN h.order : h.order[j] \in DOMAIN h.map
      /\ \A j \in DOMAIN h.order : h.order[j] = h.order[i] => j = i
  BY DEF Holds, Consistent, Listing
<1>2. g.order = h.order
  BY <1>1 DEF Listed, HasField
<1>3. /\ g.map[h.order[i]] = values
      /\ \A j \in DOMAIN h.order : j # i => g.map[h.order[j]] = h.map[h.order[j]]
  BY <1>1 DEF Put
<1> QED
  BY <1>1, <1>2, <1>3 DEF View, Replaced

\* A new name comes last.
LEMMA PutViewNew ==
    ASSUME NEW N, NEW V, NEW h, Holds(h, N, V),
           NEW name \in N, ~HasField(h, name), NEW values,
           NEW g, g.map = Put(h.map, name, values), g.order = Listed(h, name)
    PROVE  View(g) = Append(View(h), [name |-> name, values |-> values])
<1> DEFINE n == Len(h.order)
           f == [name |-> name, values |-> values]
<1>1. /\ g.map[name] = values
      /\ \A m \in DOMAIN h.map : m # name => g.map[m] = h.map[m]
  BY DEF Put
<1>2. \A i \in DOMAIN h.order : h.order[i] \in DOMAIN h.map
  BY DEF Holds, Consistent, Listing
<1>3. g.order = Append(h.order, name)
  BY DEF Listed
<1>4. /\ n \in Nat /\ DOMAIN h.order = 1 .. n /\ DOMAIN g.order = 1 .. (n + 1)
      /\ g.order[n + 1] = name /\ \A i \in 1 .. n : g.order[i] = h.order[i]
  BY <1>3 DEF Holds
<1>5. \A i \in 1 .. n : h.order[i] # name
  BY <1>2, <1>4 DEF HasField
<1>6. View(h) \in Seq([name : N, values : Seq(V)]) /\ Len(View(h)) = n
  BY IterIsView
<1>7. Append(View(h), f) = [i \in 1 .. (n + 1) |-> IF i = n + 1 THEN f ELSE View(h)[i]]
  BY <1>4, <1>6
<1>8. ASSUME NEW i \in 1 .. (n + 1)
      PROVE  View(g)[i] = IF i = n + 1 THEN f ELSE View(h)[i]
  <2>1. View(g)[i] = [name |-> g.order[i], values |-> g.map[g.order[i]]]
    BY <1>4 DEF View
  <2>2. CASE i = n + 1
    BY <1>1, <1>4, <2>1, <2>2
  <2>3. CASE i \in 1 .. n
    BY <1>1, <1>2, <1>4, <1>5, <2>1, <2>3 DEF View
  <2> QED
    BY <1>4, <2>2, <2>3
<1>9. View(g) = [i \in 1 .. (n + 1) |-> View(g)[i]]
  BY <1>4 DEF View
<1> HIDE DEF n, f
<1> QED
  BY <1>7, <1>8, <1>9 DEF f

LEMMA RemoveView ==
    ASSUME NEW N, NEW V, NEW h, Holds(h, N, V), NEW i \in DOMAIN h.order
    PROVE  LET g == RemoveField(h, h.order[i])
           IN  Holds(g, N, V) /\ View(g) = Cut(View(h), i)
<1> DEFINE name == h.order[i]
           g    == RemoveField(h, name)
           n    == Len(h.order)
<1>1. /\ Listing(h) = DOMAIN h.map /\ \A j \in DOMAIN h.order : h.order[j] \in DOMAIN h.map
      /\ \A j, k \in DOMAIN h.order : h.order[j] = h.order[k] => j = k
      /\ h.order \in Seq(N) /\ n \in Nat /\ DOMAIN h.order = 1 .. n /\ i \in 1 .. n
  BY DEF Holds, Consistent, Listing
<1>2. /\ g.map = [m \in DOMAIN h.map \ {name} |-> h.map[m]]
      /\ g.order = Retained(h.order, Listing(h) \ {name})
  BY <1>1 DEF RemoveField, HasField
<1>3. g.order = Cut(h.order, i)
  <2>1. name \notin Listing(h) \ {name}
    OBVIOUS
  <2>2. \A j \in 1 .. n : j # i => h.order[j] \in Listing(h) \ {name}
    BY <1>1
  <2> QED
    BY <1>1, <1>2, <2>1, <2>2, RetainedOthers
<1>4. /\ g.order \in Seq(N) /\ DOMAIN g.order = 1 .. (n - 1)
      /\ \A j \in 1 .. (n - 1) : g.order[j] = IF j < i THEN h.order[j] ELSE h.order[j + 1]
  <2>1. /\ Cut(h.order, i) \in Seq(N) /\ Len(Cut(h.order, i)) = n - 1
        /\ \A j \in 1 .. n - 1 :
              Cut(h.order, i)[j] = IF j < i THEN h.order[j] ELSE h.order[j + 1]
    BY <1>1, CutParts
  <2> QED
    BY <1>3, <2>1
<1>5. /\ \A j \in 1 .. (n - 1) : j < i => j \in 1 .. n
      /\ \A j \in 1 .. (n - 1) : ~(j < i) => j + 1 \in 1 .. n /\ j + 1 # i
      /\ \A j \in 1 .. n : j < i => j \in 1 .. (n - 1)
      /\ \A j \in 1 .. n : j # i /\ ~(j < i) =>
             j - 1 \in 1 .. (n - 1) /\ ~(j - 1 < i) /\ (j - 1) + 1 = j
  BY <1>1
<1> HIDE DEF g, n
<1>6. ASSUME NEW j \in 1 .. (n - 1) PROVE g.order[j] \in DOMAIN h.map \ {name}
  <2>1. PICK k \in 1 .. n : k # i /\ g.order[j] = h.order[k]
    <3>1. CASE j < i
      BY <1>1, <1>4, <1>5, <3>1
    <3>2. CASE ~(j < i)
      BY <1>4, <1>5, <3>2
    <3> QED
      BY <3>1, <3>2
  <2> QED
    BY <1>1, <2>1
<1>7. Listing(g) = DOMAIN h.map \ {name}
  <2>1. ASSUME NEW m \in DOMAIN h.map \ {name} PROVE \E j \in 1 .. (n - 1) : g.order[j] = m
    <3>1. PICK k \in 1 .. n : h.order[k] = m
      BY <1>1 DEF Listing
    <3>2. k # i
      BY <3>1
    <3>3. CASE k < i
      BY <1>4, <1>5, <3>1, <3>3
    <3>4. CASE ~(k < i)
      <4>1. /\ k - 1 \in 1 .. (n - 1) /\ ~(k - 1 < i) /\ (k - 1) + 1 = k
        BY <1>5, <3>2, <3>4
      <4>2. g.order[k - 1] = h.order[k]
        BY <1>4, <4>1
      <4> QED
        BY <3>1, <4>1, <4>2
    <3> QED
      BY <3>3, <3>4
  <2> QED
    BY <1>4, <1>6, <2>1 DEF Listing
<1>8. \A j, k \in DOMAIN g.order : g.order[j] = g.order[k] => j = k
  <2> SUFFICES ASSUME NEW j \in 1 .. (n - 1), NEW k \in 1 .. (n - 1), g.order[j] = g.order[k]
               PROVE  j = k
    BY <1>4
  <2> DEFINE at(l) == IF l < i THEN l ELSE l + 1
  <2>1. at(j) \in 1 .. n /\ at(k) \in 1 .. n /\ h.order[at(j)] = h.order[at(k)]
    BY <1>4, <1>5
  <2>2. at(j) = at(k)
    <3> HIDE DEF at
    <3> QED
      BY <1>1, <2>1
  <2> QED
    BY <1>1, <2>2
<1>9. Holds(g, N, V)
  <2>1. DOMAIN g.map = DOMAIN h.map \ {name} /\ \A m \in DOMAIN g.map : g.map[m] = h.map[m]
    BY <1>2
  <2> QED
    BY <1>4, <1>7, <1>8, <2>1 DEF Holds, Consistent
<1>10. View(g) = Cut(View(h), i)
  <2> DEFINE F == [name : N, values : Seq(V)]
  <2>1. View(h) \in Seq(F) /\ Len(View(h)) = n
    BY IterIsView DEF n
  <2>2. View(g) \in Seq(F) /\ Len(View(g)) = Len(g.order)
    BY <1>9, IterIsView
  <2>3. Len(g.order) = n - 1
    BY <1>3, <1>1, CutParts DEF n
  <2>4. /\ Cut(View(h), i) \in Seq(F) /\ Len(Cut(View(h), i)) = n - 1
        /\ \A j \in 1 .. n - 1 :
              Cut(View(h), i)[j] = IF j < i THEN View(h)[j] ELSE View(h)[j + 1]
    <3> HIDE DEF F
    <3>1. i \in 1 .. Len(View(h))
      BY <1>1, <2>1
    <3> QED
      BY <2>1, <3>1, CutParts
  <2>5. ASSUME NEW j \in 1 .. (n - 1)
        PROVE  View(g)[j] = IF j < i THEN View(h)[j] ELSE View(h)[j + 1]
    <3>1. View(g)[j] = [name |-> g.order[j], values |-> g.map[g.order[j]]]
      BY <1>4 DEF View
    <3>2. g.map[g.order[j]] = h.map[g.order[j]]
      BY <1>2, <1>6
    <3>3. CASE j < i
      BY <1>1, <1>4, <1>5, <3>1, <3>2, <3>3 DEF View
    <3>4. CASE ~(j < i)
      BY <1>1, <1>4, <1>5, <3>1, <3>2, <3>4 DEF View
    <3> QED
      BY <3>3, <3>4
  <2>6. ASSUME NEW j \in 1 .. Len(View(g)) PROVE View(g)[j] = Cut(View(h), i)[j]
    BY <2>2, <2>3, <2>4, <2>5
  <2>7. Len(View(g)) = Len(Cut(View(h), i))
    BY <2>2, <2>3, <2>4
  <2> HIDE DEF F
  <2> QED
    BY <2>2, <2>4, <2>6, <2>7, SeqEqual
<1> QED
  BY <1>9, <1>10 DEF g

-----------------------------------------------------------------------------
\* What holds of a collection between any two calls.
ListInv == Holds(collection, FoldedNames, Values)

\* The fields of the abstract list that have a name, in terms of the order.
LEMMA AtIs ==
    ASSUME ListInv
    PROVE  /\ Iter(collection) = View(collection)
           /\ \A name : List!At(name) =
                            { i \in DOMAIN collection.order : collection.order[i] = name }
           /\ \A name : List!New(name) <=> ~HasField(collection, name)
<1>1. Iter(collection) = View(collection)
  BY IterIsView DEF ListInv
<1>2. \A name : List!At(name) =
                    { i \in DOMAIN collection.order : collection.order[i] = name }
  BY <1>1 DEF List!At, View
<1>3. Listing(collection) = DOMAIN collection.map
  BY DEF ListInv, Holds, Consistent
<1> QED
  BY <1>1, <1>2, <1>3 DEF List!New, HasField, Listing

\* A name that is given values comes last if it is new, and stays in its place if not.
LEMMA PutStep ==
    ASSUME ListInv, NEW name \in FoldedNames, NEW values \in Seq(Values), values # <<>>,
           collection'.map = Put(collection.map, name, values),
           collection'.order = Listed(collection, name)
    PROVE  /\ ListInv'
           /\ \/ /\ List!New(name)
                 /\ Iter(collection)' =
                        Append(Iter(collection), [name |-> name, values |-> values])
              \/ /\ HasField(collection, name)
                 /\ \E i \in List!At(name) :
                       /\ Iter(collection)[i].values = collection.map[name]
                       /\ Iter(collection)' =
                              [Iter(collection) EXCEPT ![i] =
                                  [name |-> name, values |-> values]]
<1>1. ListInv'
  BY PutKeeps DEF ListInv
<1>2. Iter(collection)' = View(collection')
  BY <1>1, IterIsView DEF ListInv
<1>3. CASE HasField(collection, name)
  <2>1. PICK i \in DOMAIN collection.order : collection.order[i] = name
    BY <1>3 DEF ListInv, Holds, Consistent, Listing, HasField
  <2>2. View(collection') = Replaced(View(collection), i, [name |-> name, values |-> values])
    BY <2>1, PutViewKnown DEF ListInv
  <2>3. View(collection)[i].values = collection.map[name]
    BY <2>1 DEF View
  <2>4. i \in List!At(name) /\ Iter(collection) = View(collection)
    BY <2>1, AtIs
  <2>5. /\ Iter(collection)[i].values = collection.map[name]
        /\ Iter(collection)' =
               [Iter(collection) EXCEPT ![i] = [name |-> name, values |-> values]]
    BY <1>2, <2>1, <2>2, <2>3, <2>4 DEF Replaced
  <2> QED
    BY <1>1, <1>3, <2>4, <2>5
<1>4. CASE ~HasField(collection, name)
  BY <1>1, <1>2, <1>4, AtIs, PutViewNew DEF ListInv
<1> QED
  BY <1>3, <1>4

LEMMA ListStep ==
    ASSUME ListInv, [Call]_collection
    PROVE  ListInv' /\ [List!Next]_(Iter(collection))
<1>1. CASE Insert
  <2>1. PICK s \in Spellings, v \in Values : collection' = InsertField(collection, Lower[s], v)
    BY <1>1 DEF Insert
  <2> DEFINE name == Lower[s]
  <2>2. /\ name \in FoldedNames /\ <<v>> \in Seq(Values) /\ <<v>> # <<>>
        /\ collection'.map = Put(collection.map, name, <<v>>)
        /\ collection'.order = Listed(collection, name)
    BY <2>1, LowerAssumption DEF InsertField
  <2> HIDE DEF name
  <2>3. List!Insert
    <3>1. List!Enter(name, LAMBDA old : <<v>>, <<v>>)
      BY <2>2, PutStep DEF List!Enter
    <3> QED
      BY <2>2, <3>1 DEF List!Insert
  <2> QED
    BY <2>2, <2>3, PutStep DEF List!Next
<1>2. CASE Extend
  <2>1. PICK s \in Spellings, v \in Values : collection' = AppendField(collection, Lower[s], v)
    BY <1>2 DEF Extend
  <2> DEFINE name   == Lower[s]
             values == Append(GetAll(collection, name), v)
  <2>2. /\ name \in FoldedNames
        /\ collection'.map = Put(collection.map, name, values)
        /\ collection'.order = Listed(collection, name)
    BY <2>1, LowerAssumption DEF AppendField
  <2>3. GetAll(collection, name) \in Seq(Values) /\ values \in Seq(Values) /\ values # <<>>
    <3>1. GetAll(collection, name) \in Seq(Values)
      BY DEF GetAll, HasField, ListInv, Holds
    <3> QED
      BY <3>1
  <2>4. /\ HasField(collection, name) => values = Append(collection.map[name], v)
        /\ ~HasField(collection, name) => values = <<v>>
    <3>1. Append(<<>>, v) = <<v>>
      OBVIOUS
    <3> QED
      BY <3>1 DEF GetAll
  <2>5. List!New(name) <=> ~HasField(collection, name)
    BY AtIs
  <2> HIDE DEF name, values
  <2>6. List!Extend
    <3>1. List!Enter(name, LAMBDA old : Append(old, v), <<v>>)
      <4>1. CASE HasField(collection, name)
        <5>1. PICK i \in List!At(name) :
                 /\ Iter(collection)[i].values = collection.map[name]
                 /\ Iter(collection)' =
                        [Iter(collection) EXCEPT ![i] =
                            [name |-> name, values |-> values]]
          BY <4>1, <2>2, <2>3, <2>5, PutStep
        <5>2. values = Append(Iter(collection)[i].values, v)
          BY <4>1, <5>1, <2>4
        <5> QED
          BY <5>1, <5>2 DEF List!Enter
      <4>2. CASE ~HasField(collection, name)
        BY <4>2, <2>2, <2>3, <2>4, <2>5, PutStep DEF List!Enter
      <4> QED
        BY <4>1, <4>2
    <3> QED
      BY <2>2, <3>1 DEF List!Extend
  <2> QED
    BY <2>2, <2>3, <2>6, PutStep DEF List!Next
<1>3. CASE Remove
  <2>1. PICK s \in Spellings : collection' = RemoveField(collection, Lower[s])
    BY <1>3 DEF Remove
  <2> DEFINE name == Lower[s]
  <2>2. CASE HasField(collection, name)
    <3>1. PICK i \in DOMAIN collection.order : collection.order[i] = name
      BY <2>2 DEF ListInv, Holds, Consistent, Listing, HasField
    <3>2. ListInv' /\ View(collection') = Cut(View(collection), i)
      BY <2>1, <3>1, RemoveView DEF ListInv
    <3>3. /\ Iter(collection) = View(collection) /\ Iter(collection)' = View(collection')
          /\ i \in List!At(name)
      BY <3>1, <3>2, AtIs, IterIsView DEF ListInv
    <3>4. name \in FoldedNames
      BY LowerAssumption
    <3>5. Iter(collection)' = List!RemoveAt(Iter(collection), i)
      BY <3>2, <3>3 DEF Cut, List!RemoveAt
    <3> QED
      BY <3>2, <3>3, <3>4, <3>5 DEF List!Next, List!Delete
  <2>3. CASE ~HasField(collection, name)
    BY <2>1, <2>3 DEF RemoveField, ListInv
  <2> QED
    BY <2>2, <2>3
<1>4. CASE Clear
  <2>1. collection' = NoHeaders
    BY <1>4 DEF Clear
  <2>2. ListInv' /\ View(collection') = <<>>
    BY <2>1 DEF ListInv, Holds, Consistent, Listing, NoHeaders, View
  <2> QED
    BY <2>2, IterIsView DEF ListInv, List!Next, List!Clear
<1>5. CASE collection' = collection
  BY <1>5 DEF ListInv
<1> QED
  BY <1>1, <1>2, <1>3, <1>4, <1>5 DEF Call

LEMMA ListInit == ASSUME New PROVE ListInv /\ List!Init
<1>1. collection = NoHeaders
  BY DEF New
<1>2. ListInv /\ View(collection) = <<>>
  BY <1>1 DEF ListInv, Holds, Consistent, Listing, NoHeaders, View
<1> QED
  BY <1>2, AtIs DEF List!Init

\* Agreement: whatever is inserted, appended, removed or cleared, and however often, the
\* map and the order of the header collection name the same fields, each once.
THEOREM CollectionAgrees == Life => []Agreement
<1>1. ListInv /\ [Call]_collection => ListInv'
  BY ListStep
<1>2. ListInv => Agreement
  BY DEF ListInv, Holds, Agreement
<1>3. New => ListInv
  BY ListInit
<1> QED
  BY <1>1, <1>2, <1>3, PTL DEF Life

\* IsFieldList: seen through Headers::iter, every operation on the collection is the one
\* of the same name on a list of fields, which keeps its order.
THEOREM CollectionIsFieldList == Life => IsFieldList
<1>1. /\ ListInv /\ [Call]_collection => ListInv'
      /\ ListInv /\ [Call]_collection => [List!Next]_(Iter(collection))
  BY ListStep
<1>2. New => ListInv /\ List!Init
  BY ListInit
<1> QED
  BY <1>1, <1>2, PTL DEF Life, IsFieldList, List!Spec
=============================================================================
