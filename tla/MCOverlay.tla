------------------------------ MODULE MCOverlay ------------------------------
(* A small instance of module Overlay for TLC. *)
EXTENDS Overlay

CONSTANTS r, a, b

\* One pod asks for the second address.
OneRequest == [p \in Pods |-> IF p = b THEN 102 ELSE NoRequest]

SmallCidr == [ip |-> 100, len |-> 30]
===============================================================================
