------------------------------- MODULE MCAccess -------------------------------
(* A small instance of module Access for TLC. *)
EXTENDS Access
===============================================================================
