------------------------- MODULE SelectionProperties -------------------------
(* What is claimed of the way from the picker's bytes to the URIs. *)
EXTENDS Selection

(* Every variable keeps its type. *)
SelectionTypeOK ==
  /\ written \in Seq(Bytes)
  /\ data \in Seq(Bytes)
  /\ capacity \in Nat
  /\ stage \in {"reading", "answered", "aborted"}

(* However the stream is cut into reads, and even if doubling the capacity *)
(* wraps around, the bytes and the NUL that ds_append_bytes puts behind    *)
(* them lie inside the allocation.                                         *)
TerminatorFits ==
  /\ data # <<>> => Len(data) < capacity
  /\ capacity <= Memory

(* The buffer is what the picker has written first, without a gap or a     *)
(* repetition where two reads meet.                                        *)
BufferIsPrefix ==
  /\ Len(data) <= Len(written)
  /\ data = SubSeq(written, 1, Len(data))

(* The parts of the buffer's invariant rely on each other. *)
BufferInv == SelectionTypeOK /\ TerminatorFits /\ BufferIsPrefix

-----------------------------------------------------------------------------
(* The value of a hexadecimal digit, and percent-decoding as RFC 3986 has  *)
(* it: the reference that uri_encode is compared with.                     *)
HexValue(c) == IF c >= 65 THEN c - 55 ELSE c - 48

Decoded(u) ==
  LET from[i \in 1..(Len(u) + 3)] ==
        IF i > Len(u) THEN <<>>
        ELSE IF u[i] = Percent /\ i + 2 <= Len(u)
             THEN <<16 * HexValue(u[i + 1]) + HexValue(u[i + 2])>> \o from[i + 3]
             ELSE <<u[i]>> \o from[i + 1]
  IN from[1]

(* s without its last line if that line has no newline. *)
CompleteLines(s) == SubSeq(s, 1, SelectLastInSeq(s, LAMBDA c : c = Newline))

(* Decoding the URIs of an answer gives back, line by line and byte by     *)
(* byte, what was read of the picker's output up to the first NUL and the  *)
(* last newline: nothing is merged, split, lost or encoded ambiguously.    *)
UrisDecodeToLines ==
  stage = "answered" =>
    LET lines == [k \in 1..Len(uris) |-> Decoded(uris[k])]
    IN /\ \A k \in 1..Len(uris) : Newline \notin Range(lines[k])
       /\ FlattenSeq([k \in 1..Len(uris) |-> Append(lines[k], Newline)])
            = CompleteLines(CString(SubSeq(written, 1, Len(data))))

(* The answer stays what get_uris_from_string made of the buffer. *)
AnswerIsOfBuffer == stage = "answered" => uris = get_uris_from_string(data)
=============================================================================
