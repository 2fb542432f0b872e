------------------------------ MODULE Selection ------------------------------
(***************************************************************************)
(* What Filechooser counts as selections, byte by byte: the picker writes  *)
(* a stream, the pipe callback appends what each read() returns to the     *)
(* dynamic string of src/ds.c, and get_uris_from_string of src/uri.c       *)
(* turns the string into percent-encoded file:// URIs.                     *)
(***************************************************************************)
EXTENDS Integers, Sequences, SequencesExt

CONSTANTS
  Bytes,       \* the bytes a picker writes
  ReadSize,    \* sizeof(buf) in request_fd_event_handler
  Memory,      \* the largest allocation realloc grants
  SizeLimit,   \* size_t counts modulo this
  MaxWritten   \* bound: bytes one picker writes

(* Adding the size of one read to that of an object cannot wrap.  (What    *)
(* malloc grants, PTRDIFF_MAX, is even below half of what size_t counts.)  *)
ASSUME SelectionAssumption ==
  /\ Bytes \subseteq 0..255
  /\ ReadSize \in Nat \ {0}
  /\ Memory \in Nat
  /\ SizeLimit \in Nat
  /\ Memory + ReadSize + 1 < SizeLimit
  /\ MaxWritten \in Nat

VARIABLES
  written,     \* all the picker has written, in order
  data,        \* ds->data up to ds->length; the terminating NUL follows
  capacity,    \* ds->capacity, 0 while ds->data is NULL
  uris,        \* what get_uris_from_string has returned
  stage        \* "reading", "answered", "aborted"

vars == <<written, data, capacity, uris, stage>>

Init ==
  /\ written = <<>>
  /\ data = <<>>
  /\ capacity = 0
  /\ uris = <<>>
  /\ stage = "reading"

-----------------------------------------------------------------------------
(* src/ds.c *)

(* A sum of two sizes as size_t keeps it. *)
Wrap(n) == IF n < SizeLimit THEN n ELSE n - SizeLimit

(* A wrong version: doubling is believed to be enough. *)
DoubledOnly(n) ==
  IF Len(data) + n + 1 <= capacity THEN capacity
  ELSE IF capacity = 0 THEN n + 1
  ELSE Wrap(capacity + capacity)

(* Capacity that ds_append_bytes asks for before it appends n bytes: twice *)
(* the old one, or as much as is needed when that is not enough.           *)
CapacityFor(n) ==
  LET needed == Wrap(Len(data) + n + 1)
      doubled == IF capacity = 0 THEN n + 1 ELSE Wrap(capacity + capacity)
  IN IF needed <= capacity THEN capacity
     ELSE IF needed <= doubled THEN doubled ELSE needed

(* A wrong version: appends from the start of the buffer. *)
AppendedAtStart(n) == SubSeq(written, Len(data) + 1, Len(data) + n)

(* data after the next n bytes of the pipe have been copied behind it. *)
Appended(n) == data \o SubSeq(written, Len(data) + 1, Len(data) + n)

(* read() returns n bytes, of which there may be fewer than asked for.     *)
(* xrealloc aborts the process when the capacity is not to be had.         *)
ds_append_bytes(n) ==
  /\ stage = "reading"
  /\ Len(data) + n <= Len(written)
  /\ \/ /\ CapacityFor(n) <= Memory
        /\ capacity' = CapacityFor(n)
        /\ data' = Appended(n)
        /\ UNCHANGED stage
     \/ /\ CapacityFor(n) # capacity
        /\ stage' = "aborted"
        /\ UNCHANGED <<capacity, data>>
  /\ UNCHANGED <<written, uris>>

-----------------------------------------------------------------------------
(* src/uri.c *)

NUL == 0
Newline == 10
Percent == 37

Unreserved ==
  (97..122) \cup (65..90) \cup (48..57) \cup {45, 95, 46, 126, 47}

(* A wrong version: a percent sign is kept as it is. *)
KeepsPercent(c) == c \notin Unreserved \cup {Percent}

needs_encoding(c) == c \notin Unreserved

(* A hexadecimal digit, '0' to '9' and 'A' to 'F'. *)
HexDigit(d) == IF d < 10 THEN 48 + d ELSE 65 + (d - 10)

Encoded(c) ==
  IF needs_encoding(c) THEN <<Percent, HexDigit(c \div 16), HexDigit(c % 16)>> ELSE <<c>>

(* One character of the scan: a newline ends a line and its URI; "line" is *)
(* the encoded part of the line begun last.  The prefix file:// is left    *)
(* out.                                                                    *)
ScanCharacter(found, c) ==
  IF c = Newline
  THEN [uris |-> Append(found.uris, found.line), line |-> <<>>]
  ELSE [found EXCEPT !.line = @ \o Encoded(c)]

(* What a C string function sees of s. *)
CString(s) ==
  LET end == SelectInSeq(s, LAMBDA c : c = NUL)
  IN IF end = 0 THEN s ELSE SubSeq(s, 1, end - 1)

get_uris_from_string(s) ==
  LET found[n \in 0..Len(CString(s))] ==
        IF n = 0 THEN [uris |-> <<>>, line |-> <<>>]
        ELSE ScanCharacter(found[n - 1], CString(s)[n])
  IN  found[Len(CString(s))].uris

(* The request is finalized: at end of file, or earlier by the reaper. *)
Finalize ==
  /\ stage = "reading"
  /\ uris' = get_uris_from_string(data)
  /\ stage' = "answered"
  /\ UNCHANGED <<written, data, capacity>>

-----------------------------------------------------------------------------
PickerWrites(c) ==
  /\ stage = "reading"
  /\ Len(written) < MaxWritten
  /\ written' = Append(written, c)
  /\ UNCHANGED <<data, capacity, uris, stage>>

Over == stage # "reading" /\ UNCHANGED vars

Next ==
  \/ \E c \in Bytes : PickerWrites(c)
  \/ \E n \in 1..ReadSize : ds_append_bytes(n)
  \/ Finalize
  \/ Over

Spec == Init /\ [][Next]_vars
=============================================================================
