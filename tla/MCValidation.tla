---------------------------- MODULE MCValidation ----------------------------
(***************************************************************************)
(* Instances of Validation for TLC: two clients, a few versions written    *)
(* within the same second or in different ones.                            *)
(***************************************************************************)
EXTENDS Validation, TLC

F(fields) == [fields |-> fields, weak |-> FALSE, star |-> FALSE]

AllForms == { F({}), F({"none"}), [F({"none"}) EXCEPT !.weak = TRUE],
              F({"modified"}), F({"none", "modified"}),
              F({"match"}), F({"match", "modified"}), F({"unmodified"}),
              [F({"match"}) EXCEPT !.star = TRUE], [F({"none"}) EXCEPT !.star = TRUE] }

\* Nothing tells the clients apart.
Symmetry == Permutations(Clients)

\* The forms of an edit.
EditForms == { F({}), F({"match"}), [F({"none"}) EXCEPT !.star = TRUE] }
=============================================================================
