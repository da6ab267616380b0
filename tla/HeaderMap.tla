----------------------------- MODULE HeaderMap -----------------------------
(***************************************************************************)
(* One header collection over its life: parse_request_head appends to it,  *)
(* handlers, the router and write_response insert and remove.              *)
(***************************************************************************)
EXTENDS Headers

CONSTANTS
    FoldedNames,    \* names as they are stored
    Spellings,      \* names as they are written
    Lower,          \* str::to_lowercase
    Values,
    MaxValues       \* bound: values of one name

ASSUME LowerAssumption  == Lower \in [Spellings -> FoldedNames]
ASSUME BoundsAssumption == MaxValues \in Nat

VARIABLE collection

New == collection = NoHeaders

Insert == \E s \in Spellings, v \in Values : collection' = InsertField(collection, Lower[s], v)

\* Headers::append
Extend ==
    \E s \in Spellings, v \in Values :
        /\ Len(GetAll(collection, Lower[s])) < MaxValues
        /\ collection' = AppendField(collection, Lower[s], v)

Remove == \E s \in Spellings : collection' = RemoveField(collection, Lower[s])

Clear == collection' = NoHeaders

Call == Insert \/ Extend \/ Remove \/ Clear

Life == New /\ [][Call]_collection

-----------------------------------------------------------------------------
\* After any calls, in any order, the map and the order name the same fields, each
\* once: a name that was removed and came back is not listed twice.
Agreement == Consistent(collection)

\* Seen through Headers::iter, which is how a response reaches the wire, the
\* collection is a list of fields that keeps its order.
List == INSTANCE FieldList WITH Names <- FoldedNames, fields <- Iter(collection)

IsFieldList == List!Spec
=============================================================================
