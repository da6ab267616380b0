---------------------------- MODULE RequestServer ----------------------------
(***************************************************************************)
(* What a connection of goose-http promises, told without a parser, a      *)
(* buffer or a timer: the requests of the stream go to the handler one at  *)
(* a time and in order, each with its own payload; each gets one reply;    *)
(* and after an error, a broken reply or a reply that closes, there is     *)
(* nothing more.  Connection is checked and proved to implement it.        *)
(***************************************************************************)
EXTENDS Wire, Sequences

VARIABLES
    wire,       \* the client's stream
    handled,    \* calls of the handler
    replies,    \* replies to the client
    open        \* the connection lasts

vars == <<wire, handled, replies, open>>

Init ==
    /\ wire \in Streams
    /\ handled = <<>>
    /\ replies = <<>>
    /\ open = TRUE

\* Every element of request m is acceptable, and none is missing.
Whole(m) ==
    /\ \E k \in Elements(wire) : HeadOf(wire, k, m) /\ Size(wire, k) <= HeaderLimit
    /\ \E k \in Elements(wire) : wire.msg[k] = m /\ wire.el[k].ok /\ Completes(wire.el[k])

\* The request itself asks for the connection to end after it.
LastRequest(m) ==
    \E k \in Elements(wire) :
        HeadOf(wire, k, m) /\ (wire.el[k].conn = "close" \/ wire.el[k].version = "1.0")

Waiting == Len(handled) = Len(replies) + 1

Reply(kind, status, m, close) ==
    replies' = Append(replies, [kind |-> kind, status |-> status,
                                msg |-> m, close |-> close])

\* The handler sees the next request.
Invoke ==
    /\ open /\ ~Waiting
    /\ Whole(Len(replies) + 1)
    /\ handled' = Append(handled, [msg  |-> Len(replies) + 1,
                                   body |-> Payload(wire, Len(replies) + 1)])
    /\ open' \in BOOLEAN                            \* FALSE: the handler panics
    /\ UNCHANGED <<wire, replies>>

\* Its response reaches the client.
Respond ==
    /\ open /\ Waiting
    /\ \E close \in BOOLEAN :
          /\ LastRequest(Len(handled)) => close
          /\ Reply("response", 0, Len(handled), close)
          /\ open' = ~close
    /\ UNCHANGED <<wire, handled>>

\* The server refuses what follows, or gives up waiting for it.
Refuse ==
    /\ open /\ ~Waiting
    /\ \E status \in {400, 408} : Reply("error", status, Len(replies) + 1, TRUE)
    /\ open' = FALSE
    /\ UNCHANGED <<wire, handled>>

\* The connection ends, perhaps within a response.
Break ==
    /\ open
    /\ \/ UNCHANGED replies
       \/ Waiting /\ Reply("partial", 0, Len(handled), TRUE)
    /\ open' = FALSE
    /\ UNCHANGED <<wire, handled>>

Next == Invoke \/ Respond \/ Refuse \/ Break

Spec == Init /\ [][Next]_vars
=============================================================================
