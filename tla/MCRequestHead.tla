--------------------------- MODULE MCRequestHead ---------------------------
(***************************************************************************)
(* An instance of RequestHead for TLC: every head of up to MaxLines field  *)
(* lines, each of the kinds that the loop tells apart.                     *)
(***************************************************************************)
EXTENDS RequestHead, SequencesExt

MaxLines == 4

L(name, good) == [name |-> name, formed |-> TRUE, good |-> good,
                  length |-> 0, codings |-> <<"other">>]
TE(cs)        == [L("transfer-encoding", TRUE) EXCEPT !.codings = cs]
CL(n)         == [L("content-length", TRUE) EXCEPT !.length = n]

Kinds == { L("host", TRUE), L("host", FALSE), CL(0), CL(5), L("content-length", FALSE),
           TE(<<"chunked">>), TE(<<"other">>), TE(<<"other", "chunked">>),
           TE(<<"chunked", "other">>), L("transfer-encoding", FALSE),
           L("other", FALSE), [L("other", TRUE) EXCEPT !.formed = FALSE] }

AllInputs == [start : {TRUE}, lines : BoundedSeq(Kinds, MaxLines)]
        \cup { [start |-> FALSE, lines |-> <<CL(5)>>] }
=============================================================================
