# goose-http in TLA+

TLA+ specifications of goose-http, an HTTP/1.1 server library, with the
configurations that check them with TLC and the theorems about them that TLAPS
proves. Each definition is a translation of Rust code; `PROJECT.json` says of which
lines. Paths below are relative to the repository.

## 1. The system

| Component | State | Operations | Talks to |
|---|---|---|---|
| Connection loop, `src/conn/mod.rs` | `buffer`, `state`, `processed_requests`, the stream | `run`, `respond_with_error`, the close rules, `apply_request_preconditions` | parser and body readers, handler, writer |
| Head detection and parsing, `src/parse/mod.rs` | none; local accumulators of one call | `needs_more_head`, `incomplete_head_exceeds_limit`, `parse_request_head`, `determine_body_mode` | the loop's buffer, header collection |
| Body readers, `src/parse/mod.rs` | `remaining`; `ChunkState`, `current_chunk_remaining`; share the loop's buffer | `read_next`, `read_line`, `is_finished` | the stream and the buffer |
| Header collection, `src/headers/mod.rs` | `map`, `order` | `insert`, `append`, `remove`, `clear`, `get`, `iter` | everything |
| Response writer, `src/encode/mod.rs` | none; rewrites the response's fields | `write_response`, `write_chunked_body` | the stream, the body stream |
| Router, `src/routing/mod.rs` | `routes`, `auto_head` | `route`, `get`, ..., `auto_head`, `build`; `handle` | handlers, response |
| Response, request, `src/response`, `src/request` | data | `strip_body_for_head`, `take_body`, accessors | all |
| Conditional requests, `src/conn/mod.rs` | none | `apply_request_preconditions`, `etag_list_matches` | request, the handler's response |
| Ranges, `src/range/mod.rs` | none | `parse_range_header`, `compute_satisfiable_ranges` | handlers (the harness) |
| Accept loop, `src/server/mod.rs` | `next_id`, the listener | `run`: accept, or pause after an error; spawn | one connection task for each stream; the runtime |
| Cache helpers, `src/cache/mod.rs` | none | `parse_cache_control`, `policy_from_headers`, `freshness_lifetime`, `ensure_age_header` | handlers and caches, not the server |
| Harness, `src/bin/compliance_harness.rs` | constants | one handler with fixed routes; shutdown after a time | all of the library |

One task runs one connection. Within it everything is sequential, and the awaits
are the points where the client acts: it may send any number of bytes, stop, shut
down its side or reset the connection between any two steps. Connections share the
handler, the worker threads of the runtime (a handler is an ordinary function, which keeps
its worker while it runs) and the descriptors of the process. What is hard:

- TCP cuts and joins the bytes as it likes, while one buffer serves head parsing, line
  reading and body reading: each of them may leave bytes of a later request for the next.
- Timers, end of file, reset and parse errors can strike at each read, and each has
  its own way out, with or without a reply.
- Three parties decide how a response is framed: the handler (or the router's HEAD),
  the preconditions, and `write_response`, which sees the method and the status too.
- Preconditions are evaluated after the handler, while other clients write.
- `Expect: 100-continue` makes client and server wait for each other.
- Nothing limits the time of a write: a client that does not read, or a streamed body that
  yields nothing, keeps its task.
- Handlers may hang or panic, descriptors run out, and the harness stops at any moment.
- What a cache keeps of a response may be served to another client, later.

What makes each part correct: the loop must stay in step with the client's framing
and serve each request once, in order, with its own body; the head parser must accept
only heads with one reading; the header collection must be a list of fields; the
writer's framing must be what an RFC 9112 recipient reads; the router must advertise
what it serves; a 304 must be true; a range must be exactly the bytes asked for; no
connection may starve another; a cache in front must be noticed by nobody.

## 2. Modules

| Module | Models |
|---|---|
| `Wire` | What a client writes: a byte stream as offsets, cut into elements (heads, bodies, chunk lines). Shared vocabulary. |
| `RequestServer` | Abstract: requests go to the handler one at a time, in order, each with its payload; one reply each; nothing after an error or a close. |
| `Connection` | `Connection::run`, `respond_with_error`, head detection, both body readers. Implements `RequestServer`. |
| `RequestHead` | The field-line loop of `parse_request_head`, and `determine_body_mode`. Uses `Headers`. |
| `Headers`, `HeaderMap` | The operations on the collection; one collection over its life. |
| `FieldList` | Abstract: a list of fields, one for each name, in order of arrival. `HeaderMap` implements it. |
| `ResponseWriter` | The fields and body that `write_response` sends, and how a recipient frames them. |
| `Router` | Registration, resolution, `Allow`, `strip_body_for_head`. |
| `Exchange` | Composes `Router` and `ResponseWriter` with a pipelining client that reads what is on the wire. |
| `Conditional`, `Validation` | `apply_request_preconditions`; several clients that cache and edit one resource through it. |
| `Ranges`, `Download` | Range parsing and resolution; a download that breaks and resumes against `serve_range_demo`. |
| `Server` | `Server::run`, the tasks it spawns on the runtime's workers, and the shutdown of the harness. |
| `Cache`, `Harness` | The cache helpers; the harness's routes, its HEAD handling, and what the loop makes of the response. |
| `CachedHarness` | Composes `Harness`, `Conditional`, `Ranges` and `Cache` with clients behind a shared cache, and another cache on the way. |
| `*Proofs` | Theorems: `ConnectionProofs`, `RequestHeadProofs`, `MessageProofs` (writer and ranges), `ExchangeProofs`, `DownloadProofs`, `ValidationProofs`, `CachedHarnessProofs`, `ServerProofs`. |
| `MC*` | Instances for TLC. `Server` is checked as it is. |

Definitions whose comment says "Mutant" are plausible bugs of the definition that follows
them. No specification uses them: putting one in place of its original must make TLC report
the property paired with it in `PROJECT.json`.

### How state and actions correspond to the code

`Connection`. The buffer is the interval from `pos` to `read` of the client's stream;
`sent` is how much the client has written. `phase` is the place in `run` (`idle`: the
top of the loop; `continue`: before the interim response; `body`; `handle`; `respond`;
`reject`: in `respond_with_error`; `done`), `stage` is `ChunkState` and the fixed reader's state, `remaining` its counter.
Each await is the end of an action; `WriteContinue`, `WriteResponse` and `WriteError` are the
writes completed, `WriteFails` a write that ends in an error, and `Held` says that the task is in
one that need not complete: the peer does not read, or the streamed body is `"pending"`.
`HEADER_LIMIT` is a constant. A stream's elements
carry the verdict of the character-level checks (`ok`) and what the parser learns; the CRLF
offsets are given apart, so a reader that stood at a wrong offset would see definite
bytes, and bodies may contain CRLF CRLF. The handler is any choice from `Responses`, which
stands for its response after the preconditions; a panic ends the task.

`RequestHead`. A step is one iteration over a line; `formed` and `good` are the outcomes
of the checks of the line and of its value. `hostSeen`, `length`, `codings` are
`host_seen`, `content_length`, `transfer_encodings`.

`Exchange`. A step of the server is one `write_all`. A body is a sequence of piece
lengths. The client frames by RFC 9112, section 6.3, alone; `Misread` says when the next
thing on the wire is not what it takes it for. `strip_body_for_head` and `write_response`
act one after the other, as in the code. A request says whether it asks to close; the response and
the version may say so too (`Directive`).

`Validation`. The handler is the application's, so external: it reads or writes in one
step and returns the validators of what it saw. `Precondition` is a step of its own
because other connections' handlers may run between the two. Time is whole seconds.

`Download`. Bytes are known by their offset. The parts of a Range field are what the
parser finds between commas: a range, nothing, or garbage. (A bare number, which the
code takes for `number-`, is an `Onwards`.)

`Server`. `loop` is where `Server::run` is: at `accept` or in the sleep of 100 ms after an
error, or `dropped` with its future. `backlog` is the kernel's queue; clients may give up
in it, which makes `accept` fail too. A connection's task is `waiting` (whatever it waits for
is `Connection`'s matter), in its write of an `interim` response and the wait behind it, `handling`,
`writing` a response, `closing` with the last one, or has `ended`. Clients in `Deaf` may stop reading, or
be sent a body that stops yielding: then `Blocked` says that the task stays in its write. `asked` and `served` count the
requests that have arrived and that the handler was given. `Running` says that the process
has not begun to stop and that a worker is not kept by a handler; this picture of tokio's
multi-threaded runtime is external. `Stop` is the sleep of `--shutdown-after` winning the
`select!`: `run` is dropped and `main` returns; then the runtime drops the tasks that await
something, a write among it, and waits for the handlers that run.

`Cache`, `Harness`. The fields of a response that a cache looks at are a record: the list of
Cache-Control directives, Age, Expires, Date, Vary. `Served` is one request's way through
`HarnessService::handle` with `normalize_head_response`, `apply_request_preconditions` and
`write_response`'s field changes. A body is the representation, the second it was made in
where that matters, and its first and last byte.

`CachedHarness`. The caches are RFC 9111's and so external, but decide by what the helpers of
`src/cache/mod.rs` say. `Forward` and `Respond` are separate, so time passes and other
clients' answers are stored in between. `Respond` gives what the harness made now, or up to a
`Step` ago if another cache could have kept it; that cache's own use of `ensure_age_header`
decides which Age it comes with. `born` is history: when the harness made what the client gets.

## 3. Runs

| Run | Shows | Bounds |
|---|---|---|
| `connection` | Under every segmentation, read size, timeout, shutdown, reset and failing response: framing, exact bodies, ordered replies, size verdict, continue before body, nothing dropped, requests one at a time, refinement of `RequestServer`, and that every connection ends or hangs in a write. | 19 streams of at most 22 bytes and 3 requests, head limit 7 |
| `connection_answers` | Every complete request is answered and every waiting `Expect` client told to go on, without timers, if the client reads. | the same, without streams that stop yielding |
| `request_head` | Accepted exactly when the framing has one reading; the handler's headers have the same lines, in order. | every head of up to 4 lines of 12 kinds |
| `header_map` | Map and order agree; refinement of `FieldList`. | 3 names, one in two spellings, 2 values, 2 per name |
| `exchange` | Client and writer stay in step, replies are faithful, the last registration counts, HEAD mirrors GET, `Allow` is exact, ends are explained, requests are answered. | 13 kinds of response on one route of GET, HEAD or an unknown method, or 2 registrations of which the first is of GET or HEAD; a path with and one without routes, 2 pipelined requests that ask to close or not, 4 methods, one of them unknown |
| `validation` | A 304 on a tag is true; a valid copy is not resent; a guarded read sees its version; a replaced response can be framed. | 2 clients (symmetric), 3 versions, 2 seconds, 10 forms of conditions |
| `download` | The stored bytes are right, a 206 is as asked and a 416 has cause, the download completes. | 4 bytes, 2 broken connections, every range within or one past the end |
| `server` | Every client in the backlog is accepted, every request that arrives reaches the handler, the process exits; but for clients whose own task, or every descriptor, stays in a handler or a write. | 3 clients, one whose handler hangs and one that stops reading, 2 workers, 2 descriptors, 2 requests on a connection |
| `cached_harness` | Nothing is reused past its lifetime, each client gets what the harness makes for its own request, HEAD tells of GET. | 2 clients (symmetric), 8 kinds of request, steps of 30 s up to 60 s |

Three runs end in a violation, each a disagreement of code and documentation:

| Run | Property | What happens |
|---|---|---|
| `exchange_head_case` | `InStep` | The router takes `head` for HEAD, the writer does not: a Content-Length without a body. |
| `exchange_old_client` | `InStep` | An HTTP/1.0 client gets a chunked body. |
| `validation_edits` | `RefusalMeansUndone` | A PUT whose precondition fails is carried out, then refused with 412. |

Why the bounds are enough. *Connection*: three requests are one before, one at and one
after any effect of left-over bytes; the streams hold each kind of element in its good and
its bad form, heads just below, at and above the limit, and payload that looks like the end of a
head; every cut of 22 bytes is explored. *RequestHead*: the loop keeps one fact for each
framing field, so two lines of a kind and one of each other kind show every
interaction. *Exchange*: what the connection carries over from one reply is whether it goes on,
so two requests suffice. *Validation*: a stale copy takes one write, a same-second pair
two; the third version lets a second client interleave. *Download*: first, inner and last
byte, and one past the end. *Server*: with one handler stuck, one worker and one descriptor
are left to two clients, who contend for both; if the deaf one of them blocks, nothing is left
for the third, which is the exception that `Admitted` makes. No smaller number lets accept fail
and succeed again. *CachedHarness*: the lifetime of the validated page is 60 s, so 30 s on the way
and 30 s in the store are both within it, and together past it; two languages
share a target; the requests are those whose responses may be kept and one
of each kind that may not. The proofs lift the bounds of all safety properties;
liveness is checked within them.

`CHECK_DEADLOCK FALSE` is set where the modelled world may stop: a client need not send
again (`Exchange`, `Validation`), a download is over, a head is parsed, the process has exited
(`Server`). `Connection`, `HeaderMap` and `CachedHarness` are checked for deadlock.

### Fairness

`Connection!FairSpec` is weak fairness of the server's steps as a whole while the task is not
`Held`: tokio polls a task that can proceed, and armed timers elapse. Nothing is assumed of
the client. In particular it need not read, and the code has no timer for a write
(`write_continue`, `write_response`, `flush`, `respond_with_error`), nor for the next chunk of a
streamed body; so `Terminates` says that the connection ends or hangs in one write for ever, and
that nowhere else it can. It has the timers on, since without one a silent client holds the task
for ever; the header timer starts anew with each read, and the finite stream bounds how often.
`connection_answers` is about a client that does read and bodies that do yield: `TakenSpec` has
weak fairness of all the server's steps. It turns timers and resets off, so that answers are
not explained away by 408.
`Exchange!FairSpec` assumes the same as `TakenSpec` of the server, and that the client reads what
has arrived. `Download!FairSpec` is strong fairness of resuming, as the client may prefer
a probe any number of times, and weak fairness of the rest; broken connections are
bounded by `MaxBreaks`.

`Server!FairSpec`: fewer handlers hang than there are workers, so some worker polls time and
again, though it may be busy at any one moment; hence strong fairness of what a worker
polls: the listener, the pause of the loop, the tasks. A task that is `Blocked` in a write is
not among these: no fairness completes the write, and `Admitted` and `Served` except what can then
not happen (all descriptors held for ever; a request behind the write). TLC refutes both properties
without these exceptions. A handler that is not stuck returns or
panics, and the runtime drops tasks and exits, under weak fairness. That a connection on which
nothing more is asked ends (`End`) is what `Terminates` shows of `Connection`; a client that kept
asking for ever would keep its descriptor, and `MaxRequests` assumes that none does.
Clients and the moment of the shutdown are not fair.

## 4. Proofs

Theorems hold for every value of the constants under the named assumptions of the modules
(streams are well formed, limits are positive, and so on), which TLC evaluates in the runs.

**Connection** (`ConnectionProofs`). `FramingInv` is inductive: `Framing == Spec =>
[]FramingInv`. The properties that matter (`WireSync`, `ExactBodies`, `OrderedReplies`)
say nothing of the middle of a request, so they are not inductive. The strengthening says
what holds there: `InRequest` ties `cur`, `stage`, `remaining` and `pos` to the last element
consumed (`Place`), `Gathered` says that the bytes collected are the payload up to `pos`,
and `SoFar` that before the end every reply kept the connection. The proof has one lemma
for each action and lemmas on `Wire` for what may follow an element.
`ConnectionImplementsRequestServer` then maps `Handle` to `Invoke`, `WriteResponse` to
`Respond`, `WriteError` to `Refuse`, the broken ends to `Break`, and the rest to stuttering.
A second invariant, `Ends`, builds on the first: with `FramingInv` it is inductive, and it says
what `FramingInv` does not, which head was refused or served at which size (`SizesAreJudged`),
who got an interim response and when (`ContinueIsTimely`), and where the stream stood when the
connection ended without an error (`EndsAreClean`). `RequestsAreSerial` is an action property:
a step that passes the beginning of a head is `ParseHead` (`HeadSerial`) or one within a body
(`BodySerial`); the places before and after a step within a body, which `FramingInv` gives, leave
no head between them.

**RequestHead** (`RequestHeadProofs`). Each accumulator is shown to sum up the lines
read (`HostInv`, `LengthInv`, `CodingInv`), and the header collection to hold them
(`HeadersInv`: the values of a name are its lines, in order; from the lemmas `AppendFieldKeeps` and
`OneLineMore`). At the end the lines read are all lines:
`FramingHasOneReading` and `HandlersSeeTheFraming` follow, for any number of lines.
`VerdictIsRight` is the converse too, that no proper head is refused. Its invariant `CodingTail`
says what the codings of all lines, put together, tell of the single lines; `LastVerdict` reads
`determine_body_mode` by it, and `RefusedLine` names what is wrong with a head whose line is
refused.

**HeaderMap** (`RequestHeadProofs` too, as it is the collection that the parser fills; its variable
is `collection` and its specification `Life`). `CollectionAgrees` and `CollectionIsFieldList` hold
after any number of calls, for any names and values and any `Lower` from spellings to folded names
(`LowerAssumption`). `ListInv` says that the halves agree, each name once; then `iter` drops nothing
and is the `View` of the collection, and each call is the call of `FieldList` on that view
(`PutStep`, `RemoveView`). `remove` and `iter` filter `order`: `Retained` is a recursive function,
and its lemmas (`RetainedAll`, `RetainedOthers`) are by induction.

**ResponseWriter** (`MessageProofs`). `FramingIsRight`: for every sound response
and method the recipient's framing is the one written. Soundness asks of the handler
that a Content-Length it sets is right and that `chunked` is the last coding.

**Exchange** (`ExchangeProofs`). The theorems assume `SoundUse`: handlers are sound for the methods
they are registered for, an empty body has no pieces and only a stream fails, clients speak HTTP/1.1, and a
method that the router takes for HEAD, in any of its 16 spellings, is spelled HEAD. The constants of `exchange` satisfy it; `exchange_old_client`
and `exchange_head_case` show that neither of the last two can go. `AllowIsExact`
needs `NoRefusals` too: handlers leave 405 and 501 to the router. `InStep` speaks of the next item
only, so it is not inductive. The invariant `Inv` says with `Underway` that there is a `Path`: a
place of the client before and after each item that is underway, each following from the one
before, the first where the client is now (`Now`), the last where the server takes
it to be (`Expected`). A step of the server makes the path longer at one end
(`LongerPath`), a step of the client shorter at the other (`ShorterPath`), and
`FramingIsRight` gives the place after each head. `RouteInv` ties the table to the calls of the
builder, and `ReadInv` what was read to the answers that are due. For `FaithfulReplies` places
count bytes too: while a length is counted down, what is there and what is to come make the body
(`Within`), a last chunk comes only where all of it is there, and the end of the connection amid
chunks only where the stream fails (`Fits`). The server's end of the path is where it is because
`left` is the rest of the body (`IsRest`), and `Gone` what came before it. `Upto`, the
sum of the pieces, is a recursive function, unfolded by `UptoIs`. `DueIsSent` says that what the
table answers has the status and body that the calls of the builder make due. `HeadIsLikeGet` excepts the handler that
returns no body and sets no length (`Unsized`).

**Ranges, Download** (`MessageProofs`, `DownloadProofs`). `RangesAreExact`, for all
specifications and lengths, and from it `AnswerIsExact` for whole Range fields. `Inv` of
`DownloadProofs` adds to `StoredIsRight` that the reply underway is the one to the field that
was sent; `DownloadIsRight` and `PartsAreAsAsked` follow for every length and every number of
broken connections.

**Validation** (`ValidationProofs`). `ClientInv` ties each client's request to the copy it was
filled in from (`Mine`) and its response to what the handler gave (`FromHandler`) and the
preconditions made of it (`Conditioned`); other clients' steps only add versions (`OneClient`).
`Answers` then has three kinds of response, and each theorem goes through the four conditional
fields in their order: `NotModifiedHolds`, `ValidCopyStays`, `ReadsAreGuarded`, and
`AnswersAreFramed`, which ends in `FramingIsRight`.

**CachedHarness** (`CachedHarnessProofs`). `EntryInv` says of each stored response, `ReplyInv` of
each one on the way and `AnswerInv` of each one delivered what the harness would make for its request
when it was made, and that its Age is at least the time since then. What ties them are lemmas
about `Served`: an entry that is selected for a request serves it (`ServedAlike`: but for Vary,
language makes no difference), validation gives a 304 or what would have come without
(`ValidatedServed`), and HEAD has what GET has (`ServedHead`). `FreshIsFresh`,
`CachesAreTransparent` and `HeadIsHonest` hold for any number of clients, requests and delays.

**Server** (`ServerProofs`). `TypeCorrect`: `TypeOK` is inductive; the proof counts with the
library's theorems on finite sets.

Induction. The library's theorems on it, and on what a recursive definition computes, take an
operator, which the provers cannot instantiate. `MessageProofs` takes the one fact about the order
of the naturals that is stated with sets, that it is well founded, and proves from it that a set of
naturals that has 0 and with n also n + 1 is all of them (`Smallest`, `Induction`). `UptoIs` and
`RetainedIs` build, by this induction, a function that satisfies the recursion, so that the one
chosen by the definition does.

Only model-checked: liveness (`Terminates`, `RequestsAnswered`, `ContinueComes`, `Answered`,
`Completes`, `Admitted`, `Served`, `ShutsDown`), which is out of the prover's reach.

## 5. What is not modelled

- The text level of parsing and formatting (tokens, start line, targets, Host syntax, dates, status
  lines), and trailers of responses. Integer parsing is by Rust's `u64`, so sizes that
  overflow are parse errors (`ok` FALSE).
- `Server::bind` and the builders, `parse_args`, `usage` and the logging of the harness: they run
  before the first connection and keep no state.
- No model has a coding left behind by the preconditions: `write_response` would remove it.
- Caches are not part of the repository. The one on the way in `CachedHarness`, too, is external; it is
  there because `ensure_age_header` keeps an Age that is present, which only a cache sends.
- Branches that no caller reaches: `freshness_lifetime` by Expires is translated, but no route
  of the harness sends Expires; the `*` cases of targets that are not in origin form.
- Logging, dates, utilities, scripts, tests.

Departures from the RFCs that the models follow and no run reports:
If-Unmodified-Since is evaluated although If-Match is present; the strong comparison is
equality of text, so equal weak tags match; `100 Continue` is sent to HTTP/1.0 clients; only the first
Connection or If- line of a request is looked at; HTTP/1.0 requests need a Host;
a full body that its handler gave a Transfer-Encoding works for GET and ends the connection
for the HEAD that reuses the handler (`EndsExplained` names this case); a handler that leaves the
body empty gives GET a `Content-Length: 0` and HEAD none, though `src/response/mod.rs:152` promises to
preserve a known length (`HeadMirrorsGet` names this case, and RFC 9110 lets HEAD omit the field);
writes have no timeout (`Held`); only the first of several
ranges is served; the harness's Allow leaves out POST, which `/` serves.

## 6. Plan

Done, in this order: `Wire`, `Connection` with `RequestServer` and its proofs;
`ResponseWriter`, `Router`, `Exchange`; `Conditional`, `Validation`; `Ranges`,
`Download`; `Headers`, `HeaderMap`, `RequestHead` and its proofs; `Server`; `Cache`, `Harness`,
`CachedHarness`; `Verdict`; the proofs of `Download`, `Validation`, `CachedHarness`, `Server` and `Exchange`, the
remaining safety properties of `Connection`, the refinement of `FieldList`, and `FaithfulReplies`.

Left: the composition of `Server` with `Connection`, to replace the assumption on `End` by
`Terminates` itself; it needs a smaller instance of `Connection`.
