--------------------------- MODULE MCFilechooser ---------------------------
(* Small instances of the portal for TLC. *)
EXTENDS FilechooserProperties, TLC

CONSTANTS c1, c2, p1, p2

OneCall == {c1}
TwoCalls == {c1, c2}
OnePid == {p1}
TwoPids == {p1, p2}

(* Each call asks for an object path of its own. *)
OwnHandles == [c \in Calls |-> c]

(* All calls ask for the same object path. *)
OneHandle == {"handle"}
SharedHandle == [c \in Calls |-> "handle"]

(* Calls and process ids are interchangeable in runs without liveness. *)
Symmetry == Permutations(Calls) \cup Permutations(Pids)
=============================================================================
