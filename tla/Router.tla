------------------------------- MODULE Router -------------------------------
(***************************************************************************)
(* RouterBuilder and Router (src/routing/mod.rs): which handler answers a  *)
(* request, and what the router answers in place of one.                   *)
(***************************************************************************)
EXTENDS ResponseWriter

CONSTANTS
    Paths,       \* target keys that occur
    Methods      \* method tokens that occur, standard ones and others

\* The tokens that are not Method::Extension.
Standard == {"GET", "HEAD", "POST", "PUT", "DELETE", "CONNECT", "OPTIONS",
             "TRACE", "PATCH"}

ASSUME MethodsAssumption == Methods \cup Standard \subseteq STRING

\* eq_ignore_ascii_case("HEAD")
SpellsHead(m) ==
    m \in {"HEAD", "HEAd", "HEaD", "HEad", "HeAD", "HeAd", "HeaD", "Head",
           "hEAD", "hEAd", "hEaD", "hEad", "heAD", "heAd", "heaD", "head"}

\* A routing table maps some of the paths to a RouteEntry, which maps some of the
\* methods to handlers.  A handler is known by the response it gives.
NoEntry  == [m \in {} |-> Plain(404)]
NoRoutes == [p \in {} |-> NoEntry]

Entry(table, p) == IF p \in DOMAIN table THEN table[p] ELSE NoEntry

With(f, x, y) == [z \in DOMAIN f \cup {x} |-> IF z = x THEN y ELSE f[z]]

\* insert_route, RouteEntry::insert
InsertRoute(table, p, m, handler) == With(table, p, With(Entry(table, p), m, handler))

\* RouteEntry::resolve finds a handler for the method, or, with auto_head, the one
\* for GET.
Exact(entry, m) == m \in DOMAIN entry
Fallback(entry, auto, m) ==
    ~Exact(entry, m) /\ auto /\ SpellsHead(m) /\ "GET" \in DOMAIN entry

\* Mutant: HEAD is advertised whether or not there is a GET handler.
AllowAlwaysHead(entry, auto) == DOMAIN entry \cup {"HEAD"}

\* allow_header
Allow(entry, auto) ==
    DOMAIN entry \cup (IF auto /\ "GET" \in DOMAIN entry THEN {"HEAD"} ELSE {})

\* Mutant: the length of the dropped body is not recorded.
DropBody(r) == [r EXCEPT !.body = EmptyBody]

\* Mutant: the coding that GET uses is advertised too.
StripBodyKeepCoding(r) ==
    [r EXCEPT !.length = IF r.body.kind = "full" /\ r.length = NoLength
                         THEN FullLength(r) ELSE r.length,
              !.coding = IF r.body.kind = "stream" THEN EnsureChunked(@) ELSE @,
              !.body = EmptyBody]

\* Response::strip_body_for_head
StripBodyForHead(r) ==
    [r EXCEPT !.length = IF r.body.kind = "full" /\ r.length = NoLength
                         THEN FullLength(r) ELSE r.length,
              !.body = EmptyBody]

\* Router::handle
Answer(table, auto, p, m) ==
    LET entry == Entry(table, p)
    IN  IF Exact(entry, m) THEN entry[m]
        ELSE IF Fallback(entry, auto, m) THEN StripBodyForHead(entry["GET"])
        ELSE IF m \notin Standard THEN Plain(501)
        ELSE IF p \in DOMAIN table THEN [Plain(405) EXCEPT !.allow = Allow(entry, auto)]
        ELSE Plain(404)
=============================================================================
