------------------------------ MODULE MCLogin ------------------------------
(* Login on a small instance. *)
EXTENDS Login, Naturals

\* A hurried login that names nothing, and one that names and allows everything.
MCLogins == {[explicit |-> i, force |-> i, split |-> i] : i \in BOOLEAN}

\* Commands are interchangeable: they start in the order of their numbers.
InOrder == \A p, q \in Terminals : p < q /\ at[q] # "idle" => at[p] # "idle"
=============================================================================
