------------------------------- MODULE Cache -------------------------------
(***************************************************************************)
(* The cache helpers (src/cache/mod.rs): what the fields of a response say *)
(* about its reuse.                                                        *)
(***************************************************************************)
EXTENDS Integers, Sequences

\* A number or a date that is absent or does not parse.
None == -1

\* A directive of Cache-Control, its token in lower case.  param is the number behind
\* "=", None if there is none or it is no u64.
Directive == [token : {"no-store", "no-cache", "must-revalidate", "max-age", "other"},
              param : Nat \cup {None}]

Flag(token) == [token |-> token, param |-> None]
MaxAge(n)   == [token |-> "max-age", param |-> n]

\* The fields that matter to a cache: the first Cache-Control line, Age, Expires and
\* Date in seconds, and the names in Vary.
Fields == [control : Seq(Directive), age : Nat \cup {None}, expires : Nat \cup {None},
           date : Nat \cup {None}, vary : SUBSET STRING]

NoFields == [control |-> <<>>, age |-> None, expires |-> None, date |-> None, vary |-> {}]

Says(control, token) == \E i \in DOMAIN control : control[i].token = token

\* A max-age that does not parse is passed over; of several the last one holds.
Numbered(control) ==
    { i \in DOMAIN control : control[i].token = "max-age" /\ control[i].param # None }

LastAge(control) ==
    IF Numbered(control) = {} THEN None
    ELSE control[CHOOSE i \in Numbered(control) : \A j \in Numbered(control) : j <= i].param

\* parse_cache_control
ParseCacheControl(control) ==
    [noStore        |-> Says(control, "no-store"),
     noCache        |-> Says(control, "no-cache"),
     mustRevalidate |-> Says(control, "must-revalidate"),
     maxAge         |-> LastAge(control)]

\* policy_from_headers
PolicyFromHeaders(f) ==
    [control |-> ParseCacheControl(f.control),
     age     |-> f.age,
     expires |-> f.expires,
     vary    |-> f.vary]

\* freshness_lifetime: max-age before Expires, and Expires only beside a Date that it
\* does not precede.
FreshnessLifetime(policy, date) ==
    IF policy.control.maxAge # None THEN policy.control.maxAge
    ELSE IF policy.expires # None /\ date # None /\ policy.expires >= date
    THEN policy.expires - date
    ELSE None

\* Mutant: an Age that is there is reset.
ResetAge(f) == [f EXCEPT !.age = 0]

\* ensure_age_header
EnsureAge(f) == IF f.age = None THEN [f EXCEPT !.age = 0] ELSE f
=============================================================================
