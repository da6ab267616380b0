------------------------------- MODULE Server -------------------------------
(***************************************************************************)
(* The accept loop (Server::run, src/server/mod.rs), the tasks it spawns,  *)
(* and the shutdown of the compliance harness.  What happens within one    *)
(* connection is the matter of Connection; here a connection waits, runs   *)
(* the application's handler, writes, or has ended.                        *)
(*                                                                         *)
(* Handler::handle is an ordinary function that Connection::run calls in   *)
(* its task, so a handler that runs keeps one worker thread of the runtime *)
(* to itself.  Sockets and timers are attended to by the workers that are  *)
(* not so kept.  A task that writes keeps no worker, but no timer either:  *)
(* it waits until the client reads, or the streamed body yields.           *)
(***************************************************************************)
EXTENDS Naturals, Sequences, FiniteSets

CONSTANTS
    Clients,        \* each opens one connection
    Stuck,          \* those whose requests the handler never returns from
    Deaf,           \* those that may stop reading, or whose streams may stop yielding
    Workers,        \* worker threads of the runtime
    Descriptors,    \* connections that the process may have open
    MaxRequests     \* bound: requests sent on one connection

\* Handlers may hang, but never all workers in them.
ASSUME StuckAssumption ==
    /\ IsFiniteSet(Clients) /\ Stuck \subseteq Clients /\ Deaf \subseteq Clients
    /\ Workers \in Nat /\ Cardinality(Stuck) < Workers
ASSUME BoundsAssumption == Descriptors \in Nat /\ MaxRequests \in Nat

VARIABLES
    backlog,    \* connections the kernel has set up and nobody has accepted
    aborted,    \* those of them that their clients have given up
    loop,       \* where Server::run is
    task,       \* the task of each client's connection
    asked,      \* requests that have arrived on each connection
    served,     \* requests handed to the handler
    process     \* the process of the harness

kernel  == <<backlog, aborted>>
tasks   == <<task, asked, served>>
vars    == <<kernel, loop, tasks, process>>

\* interim: "100 Continue" is written, then the body awaited;
\* writing, closing: a response is written, closing if it is the last one
States   == {"none", "waiting", "interim", "handling", "writing", "closing", "ended"}
Awaiting == {"waiting", "interim", "writing", "closing"}

In(state) == { c \in Clients : task[c] = state }
Open      == { c \in Clients : task[c] \notin {"none", "ended"} }
Queued    == { backlog[i] : i \in DOMAIN backlog }

TypeOK ==
    /\ backlog \in Seq(Clients)
    /\ \A i, j \in DOMAIN backlog : backlog[i] = backlog[j] => i = j
    /\ aborted \subseteq Queued
    /\ \A c \in Queued : task[c] = "none"
    /\ loop \in {"accepting", "pausing", "dropped"}
    /\ task \in [Clients -> States]
    /\ asked \in [Clients -> 0 .. MaxRequests]
    /\ served \in [Clients -> 0 .. MaxRequests]
    /\ \A c \in Clients : served[c] <= asked[c]
    /\ process \in {"running", "stopping", "exited"}
    /\ Cardinality(Open) <= Descriptors
    /\ Cardinality(In("handling")) <= Workers
    /\ process # "running" => backlog = <<>> /\ loop = "dropped"
    /\ process = "exited" => Open = {}

Init ==
    /\ backlog = <<>> /\ aborted = {}
    /\ loop = "accepting"
    /\ task = [c \in Clients |-> "none"]
    /\ asked = [c \in Clients |-> 0] /\ served = [c \in Clients |-> 0]
    /\ process = "running"

\* A worker that no handler keeps, which polls the tasks, sockets and timers.
Attended == Cardinality(In("handling")) < Workers
Running  == process = "running" /\ Attended

-----------------------------------------------------------------------------
\* The clients.

Connect(c) ==
    /\ process = "running" /\ task[c] = "none" /\ c \notin Queued
    /\ backlog' = Append(backlog, c)
    /\ UNCHANGED <<aborted, loop, tasks, process>>

Abort(c) ==
    /\ c \in Queued \ aborted
    /\ aborted' = aborted \cup {c}
    /\ UNCHANGED <<backlog, loop, tasks, process>>

Ask(c) ==
    /\ c \in Open /\ asked[c] < MaxRequests
    /\ asked' = [asked EXCEPT ![c] = @ + 1]
    /\ UNCHANGED <<kernel, loop, task, served, process>>

-----------------------------------------------------------------------------
\* Server::run.

\* listener.accept() has something to return.
Ready == Running /\ loop = "accepting" /\ backlog # <<>>

\* A connection is accepted and its task spawned.  A failure to set TCP_NODELAY is
\* only logged.
Accept ==
    /\ Ready /\ Head(backlog) \notin aborted
    /\ Cardinality(Open) < Descriptors
    /\ task' = [task EXCEPT ![Head(backlog)] = "waiting"]
    /\ backlog' = Tail(backlog)
    /\ UNCHANGED <<aborted, loop, asked, served, process>>

\* Mutant: an error of accept ends the loop, as it ends it in bind.
AcceptFailsForGood ==
    /\ Ready /\ Head(backlog) \notin aborted
    /\ Cardinality(Open) = Descriptors
    /\ loop' = "dropped"
    /\ UNCHANGED <<kernel, tasks, process>>

\* No descriptor is left: the connection stays where it is and the loop pauses.
AcceptFails ==
    /\ Ready /\ Head(backlog) \notin aborted
    /\ Cardinality(Open) = Descriptors
    /\ loop' = "pausing"
    /\ UNCHANGED <<kernel, tasks, process>>

\* The connection was given up before it was accepted.
AcceptAborted ==
    /\ Ready /\ Head(backlog) \in aborted
    /\ backlog' = Tail(backlog)
    /\ aborted' = aborted \ {Head(backlog)}
    /\ loop' = "pausing"
    /\ UNCHANGED <<tasks, process>>

\* The sleep of 100 ms is over.
Resume ==
    /\ Running /\ loop = "pausing"
    /\ loop' = "accepting"
    /\ UNCHANGED <<kernel, tasks, process>>

-----------------------------------------------------------------------------
\* A connection's task.

Become(c, state) == task' = [task EXCEPT ![c] = state]

\* A head with Expect: 100-continue has been read.
Interim(c) ==
    /\ Running /\ task[c] = "waiting"
    /\ Become(c, "interim")
    /\ UNCHANGED <<kernel, loop, asked, served, process>>

\* Mutant: the handler is called under a lock that the connections share.
BeginLocked(c) ==
    /\ Running /\ task[c] \in {"waiting", "interim"} /\ served[c] < asked[c]
    /\ In("handling") = {}
    /\ Become(c, "handling")
    /\ served' = [served EXCEPT ![c] = @ + 1]
    /\ UNCHANGED <<kernel, loop, asked, process>>

\* A request has been read, and the handler is called.
Begin(c) ==
    /\ Running /\ task[c] \in {"waiting", "interim"} /\ served[c] < asked[c]
    /\ Become(c, "handling")
    /\ served' = [served EXCEPT ![c] = @ + 1]
    /\ UNCHANGED <<kernel, loop, asked, process>>

\* The handler returns, and the task writes its response.
Return(c) ==
    /\ task[c] = "handling" /\ c \notin Stuck
    /\ \E state \in {"writing", "closing"} : Become(c, state)
    /\ UNCHANGED <<kernel, loop, asked, served, process>>

\* The handler panics, which ends its task and drops the socket.
Panic(c) ==
    /\ task[c] = "handling" /\ c \notin Stuck
    /\ Become(c, "ended")
    /\ UNCHANGED <<kernel, loop, asked, served, process>>

\* The response is written and flushed.
Written(c) ==
    /\ Running
    /\ \/ task[c] = "writing" /\ Become(c, "waiting")
       \/ task[c] = "closing" /\ Become(c, "ended")
    /\ UNCHANGED <<kernel, loop, asked, served, process>>

\* The client has reset the connection, or the streamed body fails.
WriteFails(c) ==
    /\ Running /\ task[c] \in {"interim", "writing", "closing"}
    /\ Become(c, "ended")
    /\ UNCHANGED <<kernel, loop, asked, served, process>>

\* No request comes: the end of the stream, an error, or a timer, which loses
\* against bytes that are there.  An error response may go out first.
End(c) ==
    /\ Running /\ task[c] \in {"waiting", "interim"} /\ served[c] = asked[c]
    /\ \E state \in {"closing", "ended"} : Become(c, state)
    /\ UNCHANGED <<kernel, loop, asked, served, process>>

\* The task awaits a write that nobody takes, or a chunk that does not come.
Blocked(c) == c \in Deaf /\ task[c] \in {"interim", "writing", "closing"}

-----------------------------------------------------------------------------
\* The end of the harness, with --shutdown-after.

\* Mutant: Server::run has a task of its own and outlives the select!.
StopDetached ==
    /\ Running
    /\ process' = "stopping"
    /\ UNCHANGED <<kernel, loop, tasks>>

\* The sleep wins the select!: Server::run is dropped with its listener, and main
\* returns.
Stop ==
    /\ Running
    /\ process' = "stopping"
    /\ loop' = "dropped" /\ backlog' = <<>> /\ aborted' = {}
    /\ UNCHANGED tasks

\* Mutant: a response that is being written is waited for.
DropIdle(c) ==
    /\ process = "stopping" /\ task[c] = "waiting"
    /\ Become(c, "ended")
    /\ UNCHANGED <<kernel, loop, asked, served, process>>

\* The runtime drops a task that awaits anything, and its socket.
Drop(c) ==
    /\ process = "stopping" /\ task[c] \in Awaiting
    /\ Become(c, "ended")
    /\ UNCHANGED <<kernel, loop, asked, served, process>>

\* It waits for the workers, and they for the handlers they are in.
Exit ==
    /\ process = "stopping" /\ Open = {}
    /\ process' = "exited"
    /\ UNCHANGED <<kernel, loop, tasks>>

-----------------------------------------------------------------------------
Listening == Accept \/ AcceptFails \/ AcceptAborted

Next ==
    \/ Listening \/ Resume \/ Stop \/ Exit
    \/ \E c \in Clients : \/ Connect(c) \/ Abort(c) \/ Ask(c)
                          \/ Interim(c) \/ Begin(c) \/ Return(c) \/ Panic(c)
                          \/ Written(c) \/ WriteFails(c) \/ End(c) \/ Drop(c)

Spec == Init /\ [][Next]_vars

\* What the task of a connection does of itself.
Proceed(c) == ~Blocked(c) /\ (Begin(c) \/ Written(c) \/ End(c))

\* A worker that is not kept by a handler polls the listener, the timers and every
\* task that can go on, time and again, though it may be busy at any one moment; a
\* handler returns, unless it is stuck; a write that is not blocked completes; and a
\* connection on which nothing more is asked ends at last, which is Connection's
\* Terminates.  Clients, and the moment of the shutdown, are not fair.  MaxRequests
\* bounds what a client asks: one that kept asking for ever would keep its
\* descriptor, and Admitted assumes that none does.
FairSpec ==
    /\ Spec
    /\ SF_vars(Listening) /\ SF_vars(Resume) /\ WF_vars(Exit)
    /\ \A c \in Clients : /\ SF_vars(Proceed(c))
                          /\ WF_vars(Return(c) \/ Panic(c)) /\ WF_vars(Drop(c))

-----------------------------------------------------------------------------
\* Properties.

\* Nobody is going to give a descriptor back: each is held by a handler that hangs,
\* or in a write that does not complete.
Exhausted ==
    Cardinality({ c \in Clients : \/ c \in Stuck /\ task[c] = "handling"
                                  \/ Blocked(c) }) = Descriptors

\* A client that waits in the backlog is accepted at last, though accepts fail for
\* want of descriptors again and again, other clients keep idle connections, handlers
\* panic, and some of them hang: only if every descriptor stays in a hanging handler
\* or a blocked write, it waits on.
Admitted ==
    \A c \in Clients :
        c \in Queued ~> \/ task[c] # "none"
                        \/ c \in aborted
                        \/ process # "running"
                        \/ []Exhausted

\* A request that arrives on a connection reaches the handler, whatever the handlers
\* and clients of other connections do, unless its own connection ends first, or stays
\* in a handler or a write before it.
Served ==
    \A c \in Clients, k \in 1 .. MaxRequests :
        asked[c] >= k ~> \/ served[c] >= k
                         \/ task[c] = "ended"
                         \/ c \in Stuck /\ task[c] = "handling"
                         \/ []Blocked(c)

\* The process exits when its time has come, however many connections are open,
\* requests underway and responses half written, as long as every handler returns.
ShutsDown ==
    process = "stopping" ~> \/ process = "exited"
                            \/ \E c \in Stuck : task[c] = "handling"
=============================================================================
