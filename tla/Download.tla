------------------------------ MODULE Download ------------------------------
(***************************************************************************)
(* A client that fetches one representation piece by piece from the        *)
(* range handler of the compliance harness (serve_range_demo in            *)
(* src/bin/compliance_harness.rs), over connections that may break in the  *)
(* middle of a body, and that resumes where it stopped.                    *)
(***************************************************************************)
EXTENDS Ranges

CONSTANTS
    Total,        \* bytes of the representation, RANGE_BYTES.len()
    Probes,       \* Range fields that the client may send besides its resumptions
    MaxBreaks     \* bound: connections that break

ASSUME TotalAssumption  == Total \in Nat
ASSUME ProbesAssumption == Probes \subseteq RangeField
ASSUME BreaksAssumption == MaxBreaks \in Nat

VARIABLES
    have,      \* what the client has stored: pairs of an offset and a byte
    phase,     \* where it is
    field,     \* the Range field it sent
    reply,     \* the response: status, the range it announces, its body
    taken,     \* bytes of the body received
    breaks     \* connections that have broken

vars == <<have, phase, field, reply, taken, breaks>>

\* The representation: the byte at an offset is known by the offset.
ByteAt(x) == x
Offsets   == 0 .. (Total - 1)

\* Mutant: the slice has the right length and the wrong start.
SliceFromZero(range) == [i \in 1 .. RangeLength(range) |-> ByteAt(i - 1)]

\* &RANGE_BYTES[start ..= end]
Slice(range) == [i \in 1 .. RangeLength(range) |-> ByteAt(range.start + i - 1)]

NoField == [unit |-> "bytes", parts |-> <<>>]
NoReply == [status |-> 200, start |-> 0, end |-> -1, body |-> <<>>]

TypeOK ==
    /\ have \subseteq Offsets \X Offsets
    /\ phase \in {"idle", "sent", "receiving", "complete"}
    /\ field \in RangeField
    /\ reply \in [status : {200, 206, 416}, start : Nat, end : Int, body : Seq(Offsets)]
    /\ taken \in 0 .. Len(reply.body)
    /\ breaks \in 0 .. MaxBreaks

Init ==
    /\ have = {} /\ phase = "idle" /\ field = NoField
    /\ reply = NoReply /\ taken = 0 /\ breaks = 0

-----------------------------------------------------------------------------
\* The client.

Missing == { x \in Offsets : \A pair \in have : pair[1] # x }

Ask(f) ==
    /\ phase = "idle" /\ Missing # {}
    /\ field' = f
    /\ phase' = "sent"
    /\ UNCHANGED <<have, reply, taken, breaks>>

\* The first byte that is missing, and all behind it.
Resume == \E x \in Missing : /\ \A y \in Missing : x <= y
                             /\ Ask([unit |-> "bytes", parts |-> <<Onwards(x)>>])

Probe == \E f \in Probes : Ask(f)

-----------------------------------------------------------------------------
\* The handler.

\* serve_range_demo.
Serve ==
    /\ phase = "sent"
    /\ LET answer == RangeDemo(field, Total)
       IN  reply' = [status |-> answer.status, start |-> answer.start, end |-> answer.end,
                     body   |-> Slice(answer)]
    /\ phase' = "receiving"
    /\ taken' = 0
    /\ UNCHANGED <<have, field, breaks>>

-----------------------------------------------------------------------------
\* The way back.

\* The client stores what arrives at the offset that Content-Range gives.
Arrive ==
    /\ phase = "receiving"
    /\ \E n \in 1 .. (Len(reply.body) - taken) :
          /\ taken' = taken + n
          /\ have' = have \cup { <<reply.start + i - 1, reply.body[i]>> :
                                   i \in (taken + 1) .. (taken + n) }
    /\ UNCHANGED <<phase, field, reply, breaks>>

Over ==
    /\ phase' = IF Missing = {} THEN "complete" ELSE "idle"
    /\ field' = NoField /\ reply' = NoReply /\ taken' = 0
    /\ UNCHANGED have

End ==
    /\ phase = "receiving" /\ taken = Len(reply.body)
    /\ Over
    /\ UNCHANGED breaks

Break ==
    /\ phase = "receiving" /\ breaks < MaxBreaks
    /\ breaks' = breaks + 1
    /\ Over

Next == Resume \/ Probe \/ Serve \/ Arrive \/ End \/ Break

Spec == Init /\ [][Next]_vars

\* The handler answers and what was sent arrives.  The client may probe as often as it
\* likes, but it does not put off resuming for ever.
FairSpec == Spec /\ SF_vars(Resume) /\ WF_vars(Serve) /\ WF_vars(Arrive) /\ WF_vars(End)

-----------------------------------------------------------------------------
\* Properties.

\* However the transfers were cut and whatever ranges were asked for, every byte that
\* the client has put together is the byte of the representation at that offset.
StoredIsRight == \A pair \in have : pair[2] = ByteAt(pair[1])

AllWanted == UNION { Wanted(field.parts[i], Total) : i \in Specs(field) }

\* A partial response carries bytes that were asked for, at least one of them, and as
\* many as it announces; a 416 is given only where none of them exists.
AsAsked ==
    phase = "receiving" =>
        /\ reply.status = 206 =>
              /\ reply.start .. reply.end \subseteq AllWanted
              /\ Len(reply.body) = reply.end - reply.start + 1
              /\ reply.body # <<>>
        /\ reply.status = 416 => AllWanted = {}

\* The client that goes on resuming gets the whole representation in the end.
Completes == <>(phase = "complete")
=============================================================================
