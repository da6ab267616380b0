-------------------------- MODULE MCCachedHarness --------------------------
(***************************************************************************)
(* Instances of CachedHarness for TLC: the targets whose responses may be  *)
(* kept, with the languages that tell them apart, and a few of the others. *)
(***************************************************************************)
EXTENDS CachedHarness, TLC

Q(method, target) == [NoCall EXCEPT !.method = method, !.target = target]
In(languages)     == [Q("GET", "/vary/accept-language") EXCEPT !.languages = languages]
Ranged(q, part)   == [q EXCEPT !.range = [unit |-> "bytes", parts |-> <<part>>]]

\* Every representation has a length of its own.
Sizes == [r \in Representations |->
            CASE r = "index" -> 1 [] r = "asset" -> 2 [] r = "time" -> 3
              [] r = "validator" -> 4 [] r = "immutable" -> 5 [] r = "en" -> 6
              [] r = "fr" -> 7 [] r = "es" -> 8 [] r = "range" -> 9 [] r = "posted" -> 10]

Kinds == { Q("GET", "/cache/validator"), Q("GET", "/json/time"), Q("HEAD", "/cache/validator"),
           Q("GET", "/cache/immutable"), Q("PUT", "/"),
           In(<<"fr-FR", "en">>), In(<<"", "es">>),
           Ranged(Q("HEAD", "/range/demo"), Suffix(3)) }

Symmetry == Permutations(Clients)
=============================================================================
