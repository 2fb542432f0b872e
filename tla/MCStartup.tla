----------------------------- MODULE MCStartup -----------------------------
(* Small instances of start-up and name ownership for TLC. *)
EXTENDS StartupProperties

CONSTANTS i1, i2, c1, c2

TwoInstances == {i1, i2}
TwoCalls == {c1, c2}
OneCall == {c1}
ReplacingOne == {i2}
NoFolders == [c \in Calls |-> None]

Line(key, value) ==
  [short |-> FALSE, comment |-> FALSE, equals |-> TRUE, key |-> key, value |-> value]

(* One line of each kind the parser tells apart; those it skips would make *)
(* a difference if it did not.                                             *)
Lines ==
  {Line("picker_cmd", v) : v \in {"picker", "missing", None}}
    \cup {Line("default_dir", v) : v \in {"dir", "missing"}}
    \cup {Line("loglevel", v) : v \in {"debug", "loud"}}
    \cup {Line("unknown", "dir"), Line(None, "dir")}
    \cup {[Line("picker_cmd", "missing") EXCEPT !.comment = TRUE],
          [Line("loglevel", None) EXCEPT !.equals = FALSE],
          [Line(None, None) EXCEPT !.short = TRUE, !.equals = FALSE]}

(* All files of up to two lines. *)
ShortFiles == UNION {[1..n -> Lines] : n \in 0..2}

(* The one file with a picker and nothing else. *)
PickerOnly == {<<Line("picker_cmd", "picker")>>}
WithDefaultDir == {<<Line("picker_cmd", "picker"), Line("default_dir", "dir")>>}
=============================================================================
