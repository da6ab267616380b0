--------------------------- MODULE DownloadProofs ---------------------------
(***************************************************************************)
(* Download, proved for representations of any length, any set of Range    *)
(* fields, and any number of connections that break.                       *)
(***************************************************************************)
EXTENDS Download, MessageProofs

\* The response underway is the handler's to the field that was sent, and what has been
\* stored are bytes of the representation.
Inv ==
    /\ phase \in {"idle", "sent", "receiving", "complete"}
    /\ phase \in {"sent", "receiving"} => field \in RangeField
    /\ taken \in Nat
    /\ phase = "receiving" =>
          LET answer == RangeDemo(field, Total)
          IN  reply = [status |-> answer.status, start |-> answer.start,
                       end |-> answer.end, body |-> Slice(answer)]
    /\ StoredIsRight

\* The slice of an answer has a byte for each offset that the answer announces.
LEMMA SliceIsExact ==
    ASSUME NEW f \in RangeField
    PROVE  LET answer == RangeDemo(f, Total)
           IN  /\ Len(Slice(answer)) = answer.end - answer.start + 1
               /\ Len(Slice(answer)) \in Nat
               /\ \A i \in 1 .. Len(Slice(answer)) : Slice(answer)[i] = answer.start + i - 1
<1> DEFINE answer == RangeDemo(f, Total)
           n      == answer.end - answer.start + 1
<1>1. answer.start \in Nat /\ answer.end \in Int /\ n \in Nat
  <2>1. CASE answer = [status |-> 200, start |-> 0, end |-> Total - 1]
    <3> HIDE DEF answer
    <3> QED
      BY <2>1, TotalAssumption
  <2>2. CASE answer = [status |-> 416, start |-> 0, end |-> -1]
    <3> HIDE DEF answer
    <3> QED
      BY <2>2
  <2>3. CASE answer.start \in Nat /\ answer.end \in Nat /\ answer.start <= answer.end
    <3> HIDE DEF answer
    <3> QED
      BY <2>3
  <2>4. IsExact(answer, f, Total)
    BY AnswerIsExact, TotalAssumption
  <2> HIDE DEF answer
  <2> QED
    BY <2>1, <2>2, <2>3, <2>4 DEF IsExact
<1> HIDE DEF answer
<1>2. Slice(answer) = [i \in 1 .. n |-> answer.start + i - 1]
  BY DEF Slice, RangeLength, ByteAt
<1>3. Len(Slice(answer)) = n
  <2> HIDE DEF n
  <2> QED
    BY <1>1, <1>2
<1> QED
  BY <1>1, <1>2, <1>3 DEF answer

LEMMA Initially == Init => Inv
  BY DEF Init, Inv, StoredIsRight

LEMMA StepKeepsInv == Inv /\ [Next]_vars => Inv'
<1> SUFFICES ASSUME Inv, [Next]_vars
             PROVE  Inv'
  OBVIOUS
<1>1. ASSUME NEW f \in RangeField, Ask(f)
      PROVE  Inv'
  BY <1>1 DEF Ask, Inv, StoredIsRight
<1>2. CASE Resume
  <2>1. PICK x \in Missing : Ask([unit |-> "bytes", parts |-> <<Onwards(x)>>])
    BY <1>2 DEF Resume
  <2>2. x \in Nat
    BY TotalAssumption DEF Missing, Offsets
  <2>3. [unit |-> "bytes", parts |-> <<Onwards(x)>>] \in RangeField
    BY <2>2 DEF RangeField, RangeSpec, Onwards
  <2> QED
    BY <1>1, <2>1, <2>3
<1>3. CASE Probe
  BY <1>1, <1>3, ProbesAssumption DEF Probe
<1>4. CASE Serve
  BY <1>4 DEF Serve, Inv, StoredIsRight
<1>5. CASE Arrive
  <2>1. PICK n \in 1 .. (Len(reply.body) - taken) :
          /\ taken' = taken + n
          /\ have' = have \cup { <<reply.start + i - 1, reply.body[i]>> :
                                   i \in (taken + 1) .. (taken + n) }
    BY <1>5 DEF Arrive
  <2> DEFINE answer == RangeDemo(field, Total)
  <2>2. /\ reply.start = answer.start /\ reply.body = Slice(answer)
        /\ field \in RangeField /\ taken \in Nat
    BY <1>5 DEF Arrive, Inv
  <2>3. /\ Len(reply.body) \in Nat
        /\ \A i \in 1 .. Len(reply.body) : reply.body[i] = reply.start + i - 1
    BY <2>2, SliceIsExact
  <2> HIDE DEF answer
  <2>4. n \in Nat /\ n + taken <= Len(reply.body)
    BY <2>2, <2>3
  <2>5. StoredIsRight'
    <3>1. ASSUME NEW i \in (taken + 1) .. (taken + n)
          PROVE  reply.body[i] = reply.start + i - 1
      BY <2>2, <2>3, <2>4
    <3>2. ASSUME NEW pair \in have'
          PROVE  pair[2] = ByteAt(pair[1])
      BY <2>1, <3>1 DEF Inv, StoredIsRight, ByteAt
    <3> QED
      BY <3>2 DEF StoredIsRight, ByteAt
  <2> QED
    BY <1>5, <2>1, <2>2, <2>4, <2>5 DEF Arrive, Inv
<1>6. ASSUME Over
      PROVE  Inv'
  BY <1>6 DEF Over, Inv, StoredIsRight
<1>7. CASE End
  BY <1>6, <1>7 DEF End
<1>8. CASE Break
  BY <1>6, <1>8 DEF Break
<1>9. CASE UNCHANGED vars
  BY <1>9 DEF vars, Inv, StoredIsRight
<1> QED
  BY <1>2, <1>3, <1>4, <1>5, <1>7, <1>8, <1>9 DEF Next

LEMMA Invariance == Spec => []Inv
<1> QED
  BY Initially, StepKeepsInv, PTL DEF Spec

\* StoredIsRight of Download: however the transfers were cut and whatever was asked for,
\* what serve_range_demo sends fits together to the representation.
THEOREM DownloadIsRight == Spec => []StoredIsRight
<1>1. Inv => StoredIsRight
  BY DEF Inv
<1> QED
  BY <1>1, Invariance, PTL

\* AsAsked of Download: a 206 of serve_range_demo carries bytes that were asked
\* for, as many as it announces, and a 416 is given only where there is none.
THEOREM PartsAreAsAsked == Spec => []AsAsked
<1>1. ASSUME Inv
      PROVE  AsAsked
  <2> SUFFICES ASSUME phase = "receiving"
               PROVE  /\ reply.status = 206 =>
                            /\ reply.start .. reply.end \subseteq AllWanted
                            /\ Len(reply.body) = reply.end - reply.start + 1
                            /\ reply.body # <<>>
                      /\ reply.status = 416 => AllWanted = {}
    BY DEF AsAsked
  <2> DEFINE answer == RangeDemo(field, Total)
  <2>1. /\ field \in RangeField
        /\ reply = [status |-> answer.status, start |-> answer.start,
                    end |-> answer.end, body |-> Slice(answer)]
    BY <1>1 DEF Inv
  <2>2. Len(reply.body) = reply.end - reply.start + 1
    BY <2>1, SliceIsExact
  <2>3. CASE answer = [status |-> 200, start |-> 0, end |-> Total - 1]
    <3>1. reply.status = 200
      BY <2>1, <2>3
    <3> QED
      BY <3>1
  <2>4. CASE /\ answer = [status |-> 416, start |-> 0, end |-> -1]
             /\ \A i \in Specs(field) : Wanted(field.parts[i], Total) = {}
    <3>1. reply.status = 416 /\ AllWanted = {}
      BY <2>1, <2>4 DEF AllWanted
    <3> QED
      BY <3>1
  <2>5. CASE /\ answer.status = 206
             /\ answer.start \in Nat /\ answer.end \in Nat /\ answer.start <= answer.end
             /\ \E i \in Specs(field) :
                   answer.start .. answer.end = Wanted(field.parts[i], Total)
    <3>1. /\ reply.status = 206 /\ reply.start = answer.start /\ reply.end = answer.end
      BY <2>1, <2>5
    <3>2. reply.start .. reply.end \subseteq AllWanted
      BY <2>5, <3>1 DEF AllWanted
    <3>3. Len(reply.body) # 0
      <4> HIDE DEF answer
      <4> QED
        BY <2>2, <2>5, <3>1
    <3> QED
      BY <2>2, <3>1, <3>2, <3>3
  <2>6. IsExact(answer, field, Total)
    BY <2>1, AnswerIsExact, TotalAssumption
  <2> HIDE DEF answer
  <2> QED
    BY <2>3, <2>4, <2>5, <2>6 DEF IsExact
<1> QED
  BY <1>1, Invariance, PTL
=============================================================================
