------------------------------- MODULE Ranges -------------------------------
(***************************************************************************)
(* Byte ranges: parse_range_header and compute_satisfiable_ranges          *)
(* (src/range/mod.rs), and beside them what RFC 9110, section 14, says     *)
(* that a range specification asks for.                                    *)
(*                                                                         *)
(* All numbers are u64 in the code; sums and differences below stay within *)
(* the length of a representation, so they cannot wrap.                    *)
(***************************************************************************)
EXTENDS Integers, Sequences

\* RangeSpec
FromTo(first, last) == [kind |-> "from-to", a |-> first, b |-> last]
Onwards(first)      == [kind |-> "from", a |-> first, b |-> 0]
Suffix(length)      == [kind |-> "suffix", a |-> length, b |-> 0]

RangeSpec == [kind : {"from-to", "from", "suffix"}, a : Nat, b : Nat]

\* What the parser can be given between two commas besides those.
Blank   == [kind |-> "blank", a |-> 0, b |-> 0]
Garbled == [kind |-> "garbled", a |-> 0, b |-> 0]

\* The value of a Range field.
RangeField == [unit : {"bytes", "other"}, parts : Seq(RangeSpec \cup {Blank, Garbled})]

Malformed(part) ==
    \/ part.kind = "garbled"
    \/ part.kind = "from-to" /\ part.a > part.b

\* parse_range_header succeeds, and with this result.
Parses(field) ==
    /\ field.unit = "bytes"
    /\ \A i \in DOMAIN field.parts : ~Malformed(field.parts[i])
    /\ \E i \in DOMAIN field.parts : field.parts[i] # Blank

\* The positions of its specifications.
Specs(field) == { i \in DOMAIN field.parts : field.parts[i] # Blank }

Least(a, b)    == IF a < b THEN a ELSE b
Greatest(a, b) == IF a > b THEN a ELSE b

\* Mutant: the offset of the last byte is taken to be past the end.
SatisfiableButLast(spec, total) ==
    IF spec.kind = "suffix" THEN spec.a # 0 /\ total # 0 ELSE spec.a + 1 < total

\* The filter of compute_satisfiable_ranges.
Satisfiable(spec, total) ==
    /\ total # 0
    /\ IF spec.kind = "suffix" THEN Least(spec.a, total) # 0 ELSE spec.a < total

\* Mutant: the end is taken for the length of the representation, one too many.
ResolveToLength(spec, total) ==
    CASE spec.kind = "from-to" -> [start |-> spec.a, end |-> Least(spec.b, total)]
      [] spec.kind = "from"    -> [start |-> spec.a, end |-> total - 1]
      [] spec.kind = "suffix"  -> [start |-> total - Least(spec.a, total), end |-> total - 1]

\* Its map: the SatisfiableRange, both ends inclusive.
Resolve(spec, total) ==
    CASE spec.kind = "from-to" ->
             [start |-> spec.a, end |-> Greatest(spec.a, Least(spec.b, total - 1))]
      [] spec.kind = "from" ->
             [start |-> spec.a, end |-> total - 1]
      [] spec.kind = "suffix" ->
             [start |-> total - Least(spec.a, total), end |-> total - 1]

\* The positions that compute_satisfiable_ranges keeps.
Kept(field, total) == { i \in Specs(field) : Satisfiable(field.parts[i], total) }

First(S) == CHOOSE i \in S : \A j \in S : i <= j

\* SatisfiableRange::len
RangeLength(range) == range.end - range.start + 1

\* What serve_range_demo of the compliance harness answers: the first of the ranges that
\* are left.  A field that does not parse is ignored.
RangeDemo(field, total) ==
    LET range == Resolve(field.parts[First(Kept(field, total))], total)
    IN  IF ~Parses(field) THEN [status |-> 200, start |-> 0, end |-> total - 1]
        ELSE IF Kept(field, total) = {} THEN [status |-> 416, start |-> 0, end |-> -1]
        ELSE [status |-> 206, start |-> range.start, end |-> range.end]

-----------------------------------------------------------------------------
\* The offsets that a specification asks for, of a representation of total bytes.
Wanted(spec, total) ==
    { x \in 0 .. (total - 1) :
        CASE spec.kind = "from-to" -> spec.a <= x /\ x <= spec.b
          [] spec.kind = "from"    -> spec.a <= x
          [] spec.kind = "suffix"  -> total - spec.a <= x }

\* compute_satisfiable_ranges keeps a specification exactly when it asks for some
\* byte that there is, and then makes of it exactly the bytes that it asks for.
RangeIsExact(spec, total) ==
    /\ Satisfiable(spec, total) <=> Wanted(spec, total) # {}
    /\ Satisfiable(spec, total) =>
           Resolve(spec, total).start .. Resolve(spec, total).end = Wanted(spec, total)
=============================================================================
