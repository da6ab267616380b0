----------------------------- MODULE Validation -----------------------------
(***************************************************************************)
(* Clients that cache and edit one resource of a goose-http server through *)
(* connections of their own.  The handler is the application's: it reads   *)
(* or writes the resource in one step.  The connection's task then calls   *)
(* apply_request_preconditions on what the handler returned, while other   *)
(* connections' handlers go on.                                            *)
(***************************************************************************)
EXTENDS Conditional

CONSTANTS
    Clients,
    Methods,        \* methods of the requests
    Forms,          \* which conditional fields a request may carry
    MaxVersions,    \* bound: writes to the resource
    MaxTime         \* bound: seconds that pass

\* A form: the fields present, whether tags are sent as weak ones (a cache between may
\* have weakened them), and whether the lists are "*".
Form == [fields : SUBSET {"match", "unmodified", "none", "modified"},
         weak   : BOOLEAN,
         star   : BOOLEAN]

ASSUME MethodsAssumption  == Methods \subseteq {"GET", "HEAD", "PUT"}
ASSUME FormsAssumption    == Forms \subseteq Form
ASSUME VersionsAssumption == MaxVersions \in Nat /\ MaxVersions # 0 /\ MaxTime \in Nat

VARIABLES
    dates,      \* the second in which each version of the resource was written
    now,        \* the clock, in whole seconds
    phase,      \* where each client's request is
    request,    \* its method and conditions
    response,   \* the response to it, its validators, and the version it is of
    copy,       \* the version each client keeps, 0 for none
    since,      \* history: the version when the request was sent
    wrote       \* history: whether the handler of the request has written

resource == <<dates, now>>
vars     == <<resource, phase, request, response, copy, since, wrote>>

Current   == Len(dates)
TagOf(n)  == [weak |-> FALSE, opaque |-> n]
Versions  == 0 .. MaxVersions
NoRequest  == [method |-> "GET", q |-> Unconditional]
NoResponse == [r |-> Plain(404), v |-> [etag |-> NoTag, date |-> NoDate], of |-> 0]

TypeOK ==
    /\ dates \in Seq(0 .. MaxTime) /\ Len(dates) <= MaxVersions
    /\ now \in 0 .. MaxTime
    /\ phase \in [Clients -> {"idle", "sent", "handled", "answered"}]
    /\ request \in [Clients -> [method : Methods \cup {"GET"}, q : Conditions]]
    /\ response \in [Clients -> [r : Response, v : Validators, of : Versions]]
    /\ copy \in [Clients -> Versions] /\ since \in [Clients -> Versions]
    /\ \A c \in Clients : copy[c] <= Current /\ since[c] <= Current
    /\ wrote \in [Clients -> BOOLEAN]

Init ==
    /\ dates = <<>> /\ now = 0
    /\ phase = [c \in Clients |-> "idle"]
    /\ request = [c \in Clients |-> NoRequest]
    /\ response = [c \in Clients |-> NoResponse]
    /\ copy = [c \in Clients |-> 0] /\ since = [c \in Clients |-> 0]
    /\ wrote = [c \in Clients |-> FALSE]

-----------------------------------------------------------------------------
Tick ==
    /\ now < MaxTime
    /\ now' = now + 1
    /\ UNCHANGED <<dates, phase, request, response, copy, since, wrote>>

\* The fields of a form, filled in from the copy the client has.
List(form, n, field) ==
    IF field \notin form.fields THEN NoList
    ELSE IF form.star THEN [any |-> TRUE, tags |-> {}]
    ELSE [any |-> FALSE, tags |-> { [TagOf(n) EXCEPT !.weak = form.weak] }]

Date(form, n, field) == IF field \in form.fields THEN dates[n] ELSE NoDate

Fill(form, n) == [ifMatch      |-> List(form, n, "match"),
                  ifUnmodified |-> Date(form, n, "unmodified"),
                  ifNone       |-> List(form, n, "none"),
                  ifModified   |-> Date(form, n, "modified")]

\* Without a copy there are neither tags nor dates to send.
Fillable(form, n) ==
    \/ n # 0
    \/ form.fields \subseteq {"match", "none"} /\ (form.star \/ form.fields = {})

Send(c) ==
    /\ phase[c] = "idle"
    /\ \E method \in Methods, form \in Forms :
          /\ Fillable(form, copy[c])
          /\ request' = [request EXCEPT ![c] = [method |-> method, q |-> Fill(form, copy[c])]]
    /\ phase' = [phase EXCEPT ![c] = "sent"]
    /\ since' = [since EXCEPT ![c] = Current]
    /\ wrote' = [wrote EXCEPT ![c] = FALSE]
    /\ UNCHANGED <<resource, response, copy>>

Show(n, date) == [etag |-> TagOf(n), date |-> date]

\* What the application reads: a body, with a Content-Length of its own.
Page == [status |-> 200, length |-> 3, coding |-> "absent", close |-> FALSE, allow |-> {},
         body |-> [kind |-> "full", pieces |-> <<3>>, fails |-> FALSE]]

\* The application reads the resource, and returns its validators with it.
HandleRead(c) ==
    /\ phase[c] = "sent" /\ Safe(request[c].method)
    /\ response' = [response EXCEPT ![c] =
          IF Current = 0 THEN NoResponse
          ELSE [r |-> Page, v |-> Show(Current, dates[Current]), of |-> Current]]
    /\ phase' = [phase EXCEPT ![c] = "handled"]
    /\ UNCHANGED <<resource, request, copy, since, wrote>>

\* The application writes, and returns the validators of what it has written.
HandleWrite(c) ==
    /\ phase[c] = "sent" /\ request[c].method = "PUT" /\ Current < MaxVersions
    /\ dates' = Append(dates, now)
    /\ response' = [response EXCEPT ![c] =
          [r  |-> Plain(IF Current = 0 THEN 201 ELSE 200),
           v  |-> Show(Current + 1, now),
           of |-> Current + 1]]
    /\ phase' = [phase EXCEPT ![c] = "handled"]
    /\ wrote' = [wrote EXCEPT ![c] = TRUE]
    /\ UNCHANGED <<now, request, copy, since>>

\* The connection's task looks at the preconditions and writes what is left.
Precondition(c) ==
    /\ phase[c] = "handled"
    /\ response' = [response EXCEPT ![c].r =
          Evaluate(request[c].method, request[c].q, response[c].v, response[c].r)]
    /\ phase' = [phase EXCEPT ![c] = "answered"]
    /\ UNCHANGED <<resource, request, copy, since, wrote>>

Status(c) == response[c].r.status

\* The client keeps what it is given, and what a 304 tells it to go on using.
Receive(c) ==
    /\ phase[c] = "answered"
    /\ copy' = [copy EXCEPT ![c] =
          IF Status(c) = 200 /\ request[c].method = "GET" THEN response[c].of ELSE copy[c]]
    /\ phase' = [phase EXCEPT ![c] = "idle"]
    /\ request' = [request EXCEPT ![c] = NoRequest]
    /\ response' = [response EXCEPT ![c] = NoResponse]
    /\ since' = [since EXCEPT ![c] = 0]
    /\ wrote' = [wrote EXCEPT ![c] = FALSE]
    /\ UNCHANGED resource

Next == Tick \/ \E c \in Clients :
    Send(c) \/ HandleRead(c) \/ HandleWrite(c) \/ Precondition(c) \/ Receive(c)

Spec == Init /\ [][Next]_vars

-----------------------------------------------------------------------------
\* Properties.

Answered(c) == phase[c] = "answered"
Asked(c)    == request[c].q
ByTag(list) == list # NoList /\ ~list.any

\* A 304 given on the strength of an entity tag is true: the copy it tells the client
\* to go on using was the current version at some moment since the client asked,
\* whatever else was written, even within one second.
NotModifiedIsTrue ==
    \A c \in Clients :
        Answered(c) /\ Status(c) = 304 /\ ByTag(Asked(c).ifNone)
            => copy[c] >= since[c]

\* A copy that is still the current version when the handler runs is not sent again,
\* also when the tag came back weakened.
ValidCopyNotResent ==
    \A c \in Clients :
        /\ Answered(c) /\ Safe(request[c].method)
        /\ ByTag(Asked(c).ifNone) /\ response[c].of = copy[c]
        => Status(c) # 200

\* A read that carries If-Match with the tag of the client's copy never succeeds on
\* another version, whatever fields come with it.
GuardedRead ==
    \A c \in Clients :
        /\ Answered(c) /\ Safe(request[c].method)
        /\ ByTag(Asked(c).ifMatch) /\ Status(c) \in {200, 304}
        => response[c].of = copy[c]

\* A response that was replaced can still be framed: a 412 does not promise the bytes
\* of the body it replaced.
AnswerIsFramed ==
    \A c \in Clients :
        Answered(c) => /\ ~Conflicting(response[c].r)
                       /\ FramingAgrees(response[c].r, request[c].method)

\* A request that is refused with 412 has not been carried out.
RefusalMeansUndone ==
    \A c \in Clients : Answered(c) /\ Status(c) = 412 => ~wrote[c]
=============================================================================
