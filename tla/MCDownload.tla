----------------------------- MODULE MCDownload -----------------------------
(***************************************************************************)
(* Instances of Download for TLC: a representation of a few bytes, and     *)
(* Range fields that lie within it, across its end and outside it.         *)
(***************************************************************************)
EXTENDS Download

Bytes(parts) == [unit |-> "bytes", parts |-> parts]

AllProbes == { Bytes(<<FromTo(a, b)>>) : a \in 0 .. Total, b \in 0 .. (Total + 1) }
        \cup { Bytes(<<Suffix(n)>>) : n \in 0 .. (Total + 1) }
        \cup { Bytes(<<Onwards(Total)>>), Bytes(<<Blank, Suffix(1)>>), Bytes(<<Blank>>),
               Bytes(<<Onwards(Total), FromTo(1, 2)>>), Bytes(<<FromTo(0, 0), Garbled>>),
               [unit |-> "other", parts |-> <<Suffix(1)>>] }
=============================================================================
