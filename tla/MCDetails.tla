------------------------------ MODULE MCDetails ------------------------------
(* A small instance of Details for TLC: two records, two titles. *)
EXTENDS Details
MCTitles == {"new", "other"}
=============================================================================
