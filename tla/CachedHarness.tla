--------------------------- MODULE CachedHarness ---------------------------
(***************************************************************************)
(* The compliance harness behind caches, the setting that                  *)
(* docs/compliance.md names: clients share a cache that reuses and         *)
(* validates responses by RFC 9111, and that reads their fields with the   *)
(* helpers of src/cache/mod.rs.  Between it and the harness there may be   *)
(* another cache, itself an application on goose-http, which may have kept *)
(* a response for a while before it passes it on.                          *)
(***************************************************************************)
EXTENDS Harness, FiniteSets

CONSTANTS
    Clients,
    Requests,       \* requests that they send
    Steps,          \* seconds that may pass at once
    MaxTime         \* bound: seconds that pass

Methods == {"GET", "HEAD", "POST", "OPTIONS", "PUT", "DELETE", "CONNECT", "TRACE", "PATCH", "BREW"}

\* A request of a client; the conditions are the cache's to add.
Request == [method : Methods, target : STRING, languages : Seq(STRING),
            range : RangeField \cup {NoRange}, conditions : {Unconditional}]

ASSUME RequestsAssumption == Requests \subseteq Request
ASSUME TimeAssumption     == Steps \subseteq Nat /\ MaxTime \in Nat

VARIABLES
    now,        \* the clock of all of them, in seconds
    store,      \* the responses the shared cache keeps
    phase,      \* where each client's request is
    request,
    validated,  \* the stored response that the cache is validating for it, if any
    since,      \* when the request was sent on, or was answered from the store
    reply,      \* the response to it
    born,       \* history: when the harness made that response, or confirmed it
    reused      \* history: whether it was answered from the store alone

call == <<phase, request, validated, since, reply, born, reused>>
vars == <<now, store, call>>

\* A stored response: the request it answered, when that was sent on, and (history)
\* when the harness made it.
Entry(q, x, asked, at) == [request |-> q, reply |-> x, asked |-> asked, born |-> at]

NoCall  == [method |-> "GET", target |-> "none", languages |-> <<>>, range |-> NoRange,
            conditions |-> Unconditional]
Nothing == Entry(NoCall, Reply(404), 0, 0)

Init ==
    /\ now = 0 /\ store = {}
    /\ phase = [c \in Clients |-> "idle"]
    /\ request = [c \in Clients |-> NoCall]
    /\ validated = [c \in Clients |-> Nothing]
    /\ since = [c \in Clients |-> 0]
    /\ reply = [c \in Clients |-> Reply(404)]
    /\ born = [c \in Clients |-> 0]
    /\ reused = [c \in Clients |-> FALSE]

-----------------------------------------------------------------------------
\* What RFC 9111 makes of a response, with the helpers' reading of its fields.

Policy(x)   == PolicyFromHeaders(x.fields)
Lifetime(x) == FreshnessLifetime(Policy(x), x.fields.date)

\* Section 3: what may be kept.
Storable(q, x) == q.method = "GET" /\ x.r.status = 200 /\ ~Policy(x).control.noStore

\* Section 4.1: the stored response answers this request too.
Selects(e, q) ==
    /\ e.request.target = q.target
    /\ "Accept-Language" \in Policy(e.reply).vary => e.request.languages = q.languages

\* Section 4.2.3: the age that the response came with, and the time since it was sent for.
AgeOf(e) == (IF Policy(e.reply).age = None THEN 0 ELSE Policy(e.reply).age) + now - e.asked

Fresh(e) == ~Policy(e.reply).control.noCache /\ AgeOf(e) < Lifetime(e.reply)

Candidates(q) == { e \in store : q.method = "GET" /\ q.range = NoRange /\ Selects(e, q) }

\* Section 4.3.1: a request for validation.
Validating(q, e) ==
    IF e.reply.v.etag = NoTag THEN q
    ELSE [q EXCEPT !.conditions.ifNone = [any |-> FALSE, tags |-> {e.reply.v.etag}]]

StoreWith(e) == { d \in store : ~ /\ d.request.target = e.request.target
                             /\ d.request.languages = e.request.languages } \cup {e}

-----------------------------------------------------------------------------
Tick ==
    /\ \E n \in Steps : now' = now + n /\ now' <= MaxTime
    /\ UNCHANGED <<store, call>>

\* A client's request that the cache answers itself.
Reuse(c) ==
    /\ phase[c] = "idle"
    /\ \E q \in Requests : \E e \in Candidates(q) :
          /\ Fresh(e)
          /\ request' = [request EXCEPT ![c] = q]
          /\ reply' = [reply EXCEPT ![c] = [e.reply EXCEPT !.fields.age = AgeOf(e)]]
          /\ born' = [born EXCEPT ![c] = e.born]
    /\ since' = [since EXCEPT ![c] = now]
    /\ reused' = [reused EXCEPT ![c] = TRUE]
    /\ phase' = [phase EXCEPT ![c] = "answered"]
    /\ UNCHANGED <<now, store, validated>>

\* One that it sends on, for validation where it can.
Forward(c) ==
    /\ phase[c] = "idle"
    /\ \E q \in Requests :
          /\ \A e \in Candidates(q) : ~Fresh(e)
          /\ request' = [request EXCEPT ![c] = q]
          /\ \E e \in IF Candidates(q) = {} THEN {Nothing} ELSE Candidates(q) :
                validated' = [validated EXCEPT ![c] = e]
    /\ since' = [since EXCEPT ![c] = now]
    /\ phase' = [phase EXCEPT ![c] = "sent"]
    /\ UNCHANGED <<now, store, reply, born, reused>>

\* The response that the harness makes at a time and another cache passes on now,
\* with its age.  What is not to be stored or not fresh any more is not kept there.
PassedOn(q, at) ==
    LET x    == Served(q, at)
        aged == [x.fields EXCEPT !.age = IF at = now THEN @ ELSE now - at]
    IN  [x EXCEPT !.fields = EnsureAge(aged)]

MayPassOn(q, at) ==
    at = now \/ /\ Storable(q, Served(q, at))
                /\ now - at < Lifetime(Served(q, at))

Respond(c) ==
    /\ phase[c] = "sent"
    /\ \E at \in {now} \cup { now - n : n \in Steps } :
          LET q == Validating(request[c], validated[c])
          IN  /\ at >= 0 /\ MayPassOn(q, at)
              /\ reply' = [reply EXCEPT ![c] = PassedOn(q, at)]
              /\ born' = [born EXCEPT ![c] = at]
    /\ phase' = [phase EXCEPT ![c] = "replied"]
    /\ UNCHANGED <<now, store, request, validated, since, reused>>

\* A 304 makes the stored response as good as new; another response takes its place.
Confirmed(c) == [validated[c].reply EXCEPT !.fields = reply[c].fields]

Confirm(c) ==
    /\ phase[c] = "replied" /\ validated[c] # Nothing /\ reply[c].r.status = 304
    /\ store' = StoreWith(Entry(validated[c].request, Confirmed(c), since[c], born[c]))
    /\ reply' = [reply EXCEPT ![c] = Confirmed(c)]
    /\ phase' = [phase EXCEPT ![c] = "answered"]
    /\ UNCHANGED <<now, request, validated, since, born, reused>>

Deliver(c) ==
    /\ phase[c] = "replied" /\ reply[c].r.status # 304
    /\ store' = IF Storable(request[c], reply[c])
                THEN StoreWith(Entry(request[c], reply[c], since[c], born[c]))
                ELSE store
    /\ phase' = [phase EXCEPT ![c] = "answered"]
    /\ UNCHANGED <<now, request, validated, since, reply, born, reused>>

Take(c) ==
    /\ phase[c] = "answered"
    /\ phase' = [phase EXCEPT ![c] = "idle"]
    /\ request' = [request EXCEPT ![c] = NoCall]
    /\ validated' = [validated EXCEPT ![c] = Nothing]
    /\ since' = [since EXCEPT ![c] = 0]
    /\ reply' = [reply EXCEPT ![c] = Reply(404)]
    /\ born' = [born EXCEPT ![c] = 0]
    /\ reused' = [reused EXCEPT ![c] = FALSE]
    /\ UNCHANGED <<now, store>>

Next == Tick \/ \E c \in Clients :
    Reuse(c) \/ Forward(c) \/ Respond(c) \/ Confirm(c) \/ Deliver(c) \/ Take(c)

Spec == Init /\ [][Next]_vars

-----------------------------------------------------------------------------
\* Properties.

Answered(c) == phase[c] = "answered"

\* A response that the cache gives without asking was made by the harness, or
\* confirmed by it, less than its freshness lifetime ago, though it took its time on
\* the way and was kept by others before.
FreshWhenServed ==
    \A c \in Clients :
        Answered(c) /\ reused[c] => since[c] - born[c] < Lifetime(reply[c])

\* Whatever is reused, by whomever, for whatever other request it was made: each client
\* gets the status and the bytes that the harness makes for this client's request.
Transparent ==
    \A c \in Clients :
        Answered(c) =>
            LET meant == Served(request[c], born[c])
            IN  /\ reply[c].r.status = meant.r.status /\ reply[c].text = meant.text
                /\ Policy(meant).control.noStore => ~reused[c] /\ born[c] >= since[c]

\* The response to a HEAD has the status of the one to a GET of the same target, and
\* the Content-Length of it where that has a body.
HeadTellsOfGet ==
    \A c \in Clients :
        Answered(c) /\ request[c].method = "HEAD" =>
            LET get == Served([request[c] EXCEPT !.method = "GET"], born[c])
            IN  /\ reply[c].r.status = get.r.status
                /\ get.text # NoText =>
                       SentLength(reply[c].r, "HEAD") = SentLength(get.r, "GET")
=============================================================================
