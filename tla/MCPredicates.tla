------------------------------ MODULE MCPredicates ------------------------------
(* Small instances of Predicates.                                          *)
EXTENDS Predicates

\* A pattern that the store reads in another way than evaluate.
Patterns == {[evaluate |-> {m \in Obj : m.n = 1}, like |-> {}]}
===============================================================================
