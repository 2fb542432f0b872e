---------------------------- MODULE MCPollenLoop ----------------------------
(* A small instance of the event loop for TLC. *)
EXTENDS PollenLoopProperties

CONSTANTS f1, t1, a, b, s1, s2

Priorities == [i \in Idles |-> IF i = a THEN 2 ELSE 1]
Numbers == [s \in Sigs |-> IF s = s1 THEN 1 ELSE 2]
=============================================================================
