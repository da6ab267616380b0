------------------------------ MODULE Headers ------------------------------
(***************************************************************************)
(* The header collection, src/headers/mod.rs: a hash map from names to     *)
(* their values, and beside it the names in the order in which they came.  *)
(* Names here are folded ones, as HeaderName::new makes them.              *)
(***************************************************************************)
EXTENDS Sequences, Naturals

\* Headers::new
NoHeaders == [map |-> <<>>, order |-> <<>>]

\* Headers::contains, get_all; no values stand for None.
HasField(h, name) == name \in DOMAIN h.map
GetAll(h, name)   == IF HasField(h, name) THEN h.map[name] ELSE <<>>

\* The elements of s that are in T, in their order.
Retained(s, T) ==
    LET upto[i \in 0 .. Len(s)] ==
            IF i = 0 THEN <<>>
            ELSE IF s[i] \in T THEN Append(upto[i - 1], s[i]) ELSE upto[i - 1]
    IN  upto[Len(s)]

\* The names that the order lists.
Listing(h) == { h.order[i] : i \in DOMAIN h.order }

Put(map, name, values) ==
    [n \in DOMAIN map \cup {name} |-> IF n = name THEN values ELSE map[n]]

\* Mutant: a name that is set again moves to the end.
ListedLast(h, name) == Append(Retained(h.order, Listing(h) \ {name}), name)

\* The name is noted the first time that it is seen.
Listed(h, name) == IF HasField(h, name) THEN h.order ELSE Append(h.order, name)

\* Mutant: append puts the new value before the others.
AppendFirst(h, name, value) ==
    [map |-> Put(h.map, name, <<value>> \o GetAll(h, name)), order |-> Listed(h, name)]

\* Headers::append
AppendField(h, name, value) ==
    [map |-> Put(h.map, name, Append(GetAll(h, name), value)), order |-> Listed(h, name)]

\* Headers::insert
InsertField(h, name, value) ==
    [map |-> Put(h.map, name, <<value>>), order |-> Listed(h, name)]

\* Mutant: the order keeps a name that has gone.
RemoveFromMap(h, name) ==
    [h EXCEPT !.map = [n \in DOMAIN h.map \ {name} |-> h.map[n]]]

\* Headers::remove
RemoveField(h, name) ==
    IF HasField(h, name)
    THEN [map   |-> [n \in DOMAIN h.map \ {name} |-> h.map[n]],
          order |-> Retained(h.order, Listing(h) \ {name})]
    ELSE h

\* Headers::iter passes over a name of the order that the map does not have.
Iter(h) ==
    LET names == Retained(h.order, DOMAIN h.map)
    IN  [i \in DOMAIN names |-> [name |-> names[i], values |-> h.map[names[i]]]]

\* The two halves agree: each name is listed once, and has a value.
Consistent(h) ==
    /\ Listing(h) = DOMAIN h.map
    /\ \A i, j \in DOMAIN h.order : h.order[i] = h.order[j] => i = j
    /\ \A n \in DOMAIN h.map : h.map[n] # <<>>
=============================================================================
