----------------------------- MODULE MCSelection -----------------------------
(* A small instance of Selection for TLC. *)
EXTENDS SelectionProperties

(* NUL, newline, percent, a letter and a byte that is negative as a char. *)
OneOfEachKind == {0, 10, 37, 97, 233}
=============================================================================
