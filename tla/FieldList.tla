----------------------------- MODULE FieldList -----------------------------
(***************************************************************************)
(* What the header collection promises to those who use it: a list of      *)
(* fields, one for each name, in the order in which the names came.        *)
(***************************************************************************)
EXTENDS SequencesExt, Naturals

CONSTANTS Names, Values

VARIABLE fields

At(name)    == { i \in DOMAIN fields : fields[i].name = name }
New(name)   == At(name) = {}

Init == fields = <<>>

\* A new name comes last; a known one keeps its place.
Enter(name, values(_), first) ==
    \/ New(name) /\ fields' = Append(fields, [name |-> name, values |-> first])
    \/ \E i \in At(name) :
          fields' = [fields EXCEPT ![i] = [name |-> name, values |-> values(@.values)]]

Insert == \E name \in Names, v \in Values : Enter(name, LAMBDA old : <<v>>, <<v>>)

Extend == \E name \in Names, v \in Values : Enter(name, LAMBDA old : Append(old, v), <<v>>)

Delete == \E name \in Names : \E i \in At(name) : fields' = RemoveAt(fields, i)

Clear == fields' = <<>>

Next == Insert \/ Extend \/ Delete \/ Clear

Spec == Init /\ [][Next]_fields
=============================================================================
