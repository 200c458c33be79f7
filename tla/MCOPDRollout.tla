----------------------------- MODULE MCOPDRollout -------------------------------
(* Sessions of OPDRollout for model checking. *)
EXTENDS OPDRollout

\* Two sessions in the first batch, one in every later one.
BatchSessions == {<<1, 2>>} \cup {<<b, 1>> : b \in 1 .. (Steps + 1)}
===============================================================================
