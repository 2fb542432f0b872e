--------------------------- MODULE SelectionSafety ---------------------------
(***************************************************************************)
(* Proofs about the way from the picker's bytes to the URIs, for every     *)
(* stream, every cutting into reads and every width of size_t that leaves  *)
(* room for one read: ds_append_bytes stays inside its allocation and      *)
(* loses nothing, and decoding the URIs of an answer gives back the        *)
(* complete lines that were read.                                          *)
(*                                                                         *)
(* The scan, the decoding and FlattenSeq are recursive functions.  Each is *)
(* first shown to have a solution, and then followed by taking the least   *)
(* place at which it would be wrong.                                       *)
(***************************************************************************)
EXTENDS SelectionProperties, WellFoundedInduction, SequenceTheorems, TLAPS

-----------------------------------------------------------------------------
(* The buffer *)

(* A prefix followed by the next n elements is the longer prefix. *)
LEMMA PrefixExtends ==
  ASSUME NEW S, NEW w \in Seq(S), NEW k \in Nat, NEW n \in Nat, k + n <= Len(w)
  PROVE  /\ SubSeq(w, 1, k) \o SubSeq(w, k + 1, k + n) = SubSeq(w, 1, k + n)
         /\ SubSeq(w, k + 1, k + n) \in Seq(S)
         /\ Len(SubSeq(w, 1, k)) = k
         /\ Len(SubSeq(w, 1, k + n)) = k + n
  OBVIOUS

(* Appending to a sequence does not change its prefixes. *)
LEMMA PrefixStays ==
  ASSUME NEW S, NEW w \in Seq(S), NEW c \in S, NEW k \in Nat, k <= Len(w)
  PROVE  SubSeq(Append(w, c), 1, k) = SubSeq(w, 1, k)
  OBVIOUS

(* If the buffer is within its allocation, the capacity that is asked for  *)
(* holds n more bytes and the NUL, wrapping or not.                        *)
LEMMA CapacityHolds ==
  ASSUME SelectionTypeOK, TerminatorFits, NEW n \in 1..ReadSize
  PROVE  /\ CapacityFor(n) \in Nat
         /\ Len(data) + n < CapacityFor(n)
<1>1. Len(data) \in Nat /\ capacity \in Nat /\ capacity <= Memory
  BY DEF SelectionTypeOK, TerminatorFits
<1>2. Len(data) <= Memory
  <2>1. CASE data = <<>>
    BY <2>1, SelectionAssumption
  <2>2. CASE data # <<>>
    BY <2>2, <1>1, SelectionAssumption DEF TerminatorFits
  <2> QED BY <2>1, <2>2
<1>3. Wrap(Len(data) + n + 1) = Len(data) + n + 1
  BY <1>1, <1>2, SelectionAssumption DEF Wrap
<1>4. Wrap(capacity + capacity) \in Nat
  BY <1>1, SelectionAssumption DEF Wrap
<1>5. capacity = 0 => Len(data) = 0
  BY <1>1 DEF TerminatorFits, SelectionTypeOK
<1> QED
  BY <1>1, <1>3, <1>4, <1>5, SelectionAssumption DEF CapacityFor

(* Appending what was read keeps the invariant. *)
LEMMA AppendSafe ==
  ASSUME BufferInv, NEW n \in 1..ReadSize, ds_append_bytes(n)
  PROVE  BufferInv'
<1> USE DEF BufferInv
<1>1. n \in Nat \ {0} /\ Len(data) \in Nat /\ Len(data) + n <= Len(written)
  BY SelectionAssumption DEF ds_append_bytes, SelectionTypeOK
<1>2. UNCHANGED written
  BY DEF ds_append_bytes
<1>3. CASE UNCHANGED <<capacity, data>> /\ stage' \in {stage, "aborted"}
  BY <1>2, <1>3 DEF SelectionTypeOK, TerminatorFits, BufferIsPrefix
<1>4. CASE /\ CapacityFor(n) <= Memory
           /\ capacity' = CapacityFor(n)
           /\ data' = Appended(n)
           /\ stage' = stage
  <2>1. /\ data' = SubSeq(written, 1, Len(data) + n)
        /\ Len(data') = Len(data) + n
        /\ data' \in Seq(Bytes)
    <3>1. data' = SubSeq(written, 1, Len(data)) \o SubSeq(written, Len(data) + 1, Len(data) + n)
      BY <1>4 DEF Appended, BufferIsPrefix
    <3>2. data' = SubSeq(written, 1, Len(data) + n) /\ Len(data') = Len(data) + n
      <4> HIDE DEF BufferInv
      <4>1. written \in Seq(Bytes)
        BY DEF SelectionTypeOK, BufferInv
      <4>2. SubSeq(written, 1, Len(data)) \o SubSeq(written, Len(data) + 1, Len(data) + n)
              = SubSeq(written, 1, Len(data) + n)
        <5>1. n \in Nat /\ Len(data) \in Nat /\ Len(data) + n <= Len(written)
          BY <1>1
        <5> QED BY <5>1, <4>1, PrefixExtends, Zenon
      <4>3. Len(SubSeq(written, 1, Len(data) + n)) = Len(data) + n
        BY <4>1, <1>1, PrefixExtends
      <4> QED BY <3>1, <4>2, <4>3
    <3>3. data' \in Seq(Bytes)
      BY <1>4, <1>1, PrefixExtends DEF Appended, SelectionTypeOK
    <3> QED BY <3>2, <3>3
  <2>2. capacity' \in Nat /\ Len(data') < capacity' /\ capacity' <= Memory
    BY <1>4, <2>1, CapacityHolds
  <2> QED
    BY <1>1, <1>2, <1>4, <2>1, <2>2 DEF SelectionTypeOK, TerminatorFits, BufferIsPrefix
<1> QED
  BY <1>3, <1>4 DEF ds_append_bytes

(* The buffer never overflows and never differs from what was written:     *)
(* ds_append_bytes asks for enough whatever the picker writes and however  *)
(* read() cuts it.                                                         *)
LEMMA BufferCorrect == Spec => []BufferInv
<1>1. Init => BufferInv
  BY SelectionAssumption
     DEF Init, BufferInv, SelectionTypeOK, TerminatorFits, BufferIsPrefix
<1>2. BufferInv /\ [Next]_vars => BufferInv'
  <2> SUFFICES ASSUME BufferInv, [Next]_vars PROVE BufferInv'
    OBVIOUS
  <2> USE DEF BufferInv
  <2>1. ASSUME NEW c \in Bytes, PickerWrites(c) PROVE BufferInv'
    <3>1. written' \in Seq(Bytes) /\ Len(written') = Len(written) + 1
      BY <2>1 DEF PickerWrites, SelectionTypeOK
    <3>2. SubSeq(written', 1, Len(data)) = SubSeq(written, 1, Len(data))
      BY <2>1, PrefixStays DEF PickerWrites, SelectionTypeOK, BufferIsPrefix
    <3> QED
      BY <2>1, <3>1, <3>2
         DEF PickerWrites, SelectionTypeOK, TerminatorFits, BufferIsPrefix
  <2>2. ASSUME NEW n \in 1..ReadSize, ds_append_bytes(n) PROVE BufferInv'
    BY <2>2, AppendSafe
  <2>3. CASE Finalize
    BY <2>3 DEF Finalize, SelectionTypeOK, TerminatorFits, BufferIsPrefix
  <2>4. CASE UNCHANGED vars
    BY <2>4 DEF vars, SelectionTypeOK, TerminatorFits, BufferIsPrefix
  <2> QED
    BY <2>1, <2>2, <2>3, <2>4 DEF Next, Over
<1> QED
  BY <1>1, <1>2, PTL DEF Spec

(* What ds_append_bytes writes, the NUL included, is inside its allocation. *)
THEOREM NoOverflow == Spec => []TerminatorFits
<1>1. BufferInv => TerminatorFits
  BY DEF BufferInv
<1> QED
  BY <1>1, BufferCorrect, PTL

(* The string is the beginning of the picker's output, whole and in order. *)
THEOREM NothingLostBetweenReads == Spec => []BufferIsPrefix
<1>1. BufferInv => BufferIsPrefix
  BY DEF BufferInv
<1> QED
  BY <1>1, BufferCorrect, PTL

-----------------------------------------------------------------------------
(* Induction *)

(* A set of numbers that is not empty has a least one. *)
LEMMA LeastNumber ==
  ASSUME NEW T \in SUBSET Nat, T # {}
  PROVE  \E x \in T : \A y \in T : x <= y
<1>1. IsWellFoundedOn(OpToRel(<, Nat), Nat)
  BY NatLessThanWellFounded
<1>2. PICK x \in T : \A y \in T : ~(<<y, x>> \in OpToRel(<, Nat))
  BY <1>1, WFMin
<1>3. \A y \in T : ~(y < x)
  BY <1>2 DEF OpToRel
<1> QED BY <1>3

-----------------------------------------------------------------------------
(* The encoding of one byte *)

Octets == 0..255

(* The two digits of an escape give the byte back; what is not escaped is  *)
(* no percent sign.                                                        *)
LEMMA EncodedByte ==
  ASSUME NEW c \in Octets
  PROVE  /\ Encoded(c) \in Seq(Octets)
         /\ \/ /\ Len(Encoded(c)) = 3
               /\ Encoded(c)[1] = Percent
               /\ 16 * HexValue(Encoded(c)[2]) + HexValue(Encoded(c)[3]) = c
            \/ /\ Len(Encoded(c)) = 1
               /\ Encoded(c)[1] = c
               /\ c # Percent
<1>1. ASSUME NEW d \in 0..15
      PROVE  HexDigit(d) \in Octets /\ HexValue(HexDigit(d)) = d
  BY DEF HexDigit, HexValue, Octets
<1>2. c \div 16 \in 0..15 /\ c % 16 \in 0..15 /\ c = 16 * (c \div 16) + (c % 16)
  <2>1. c \in Int /\ c \in 0..255
    BY DEF Octets
  <2>2. c \div 16 \in 0..15 /\ c % 16 \in 0..15
    BY <2>1
  <2> HIDE DEF Octets
  <2>3. c = 16 * (c \div 16) + (c % 16)
    BY <2>1
  <2> QED BY <2>2, <2>3
<1>3. CASE needs_encoding(c)
  <2> DEFINE high == HexDigit(c \div 16)
             low == HexDigit(c % 16)
  <2>1. /\ high \in Octets /\ low \in Octets /\ Percent \in Octets
        /\ 16 * HexValue(high) + HexValue(low) = c
    BY <1>1, <1>2 DEF Percent, Octets
  <2>2. Encoded(c) = <<Percent, high, low>>
    BY <1>3 DEF Encoded
  <2> HIDE DEF high, low
  <2> QED BY <2>1, <2>2
<1>4. CASE ~needs_encoding(c)
  <2>1. Encoded(c) = <<c>>
    BY <1>4 DEF Encoded
  <2>2. c # Percent
    BY <1>4 DEF needs_encoding, Unreserved, Percent, Octets
  <2> QED BY <2>1, <2>2
<1> QED BY <1>3, <1>4

-----------------------------------------------------------------------------
(* The encoding of a line *)

(* The encoded bytes of t stand in u one after the other, the one of t[j]  *)
(* from start[j] on.                                                       *)
StartsAt(u, t, start) ==
  /\ start[1] = 1
  /\ start[Len(t) + 1] = Len(u) + 1
  /\ \A j \in 1..Len(t) :
       LET code == Encoded(t[j]) IN
         /\ start[j + 1] = start[j] + Len(code)
         /\ start[j + 1] <= Len(u) + 1
         /\ \A k \in 1..Len(code) : u[start[j] + k - 1] = code[k]

Encodes(u, t) ==
  /\ u \in Seq(Octets)
  /\ t \in Seq(Octets)
  /\ \E start \in [1..(Len(t) + 1) -> Nat \ {0}] : StartsAt(u, t, start)

(* An empty line. *)
LEMMA NothingEncoded == Encodes(<<>>, <<>>)
<1>1. StartsAt(<<>>, <<>>, [j \in 1..1 |-> 1])
  BY DEF StartsAt
<1> QED BY <1>1 DEF Encodes

(* The scan appends the encoded bytes one by one. *)
LEMMA ByteEncoded ==
  ASSUME NEW u, NEW t, Encodes(u, t), NEW c \in Octets
  PROVE  Encodes(u \o Encoded(c), Append(t, c))
<1> DEFINE code == Encoded(c)
           v == u \o code
           s == Append(t, c)
<1>1. /\ u \in Seq(Octets) /\ t \in Seq(Octets) /\ code \in Seq(Octets) /\ Len(code) \in {1, 3}
  BY EncodedByte DEF Encodes
<1>2. PICK start \in [1..(Len(t) + 1) -> Nat \ {0}] : StartsAt(u, t, start)
  BY DEF Encodes
<1>3. /\ v \in Seq(Octets) /\ Len(v) = Len(u) + Len(code)
      /\ \A k \in 1..Len(u) : v[k] = u[k]
      /\ \A k \in 1..Len(code) : v[Len(u) + k] = code[k]
  <2> HIDE DEF code
  <2> QED BY <1>1
<1>4. /\ s \in Seq(Octets) /\ Len(s) = Len(t) + 1
      /\ \A j \in 1..Len(t) : s[j] = t[j]
      /\ s[Len(t) + 1] = c
  BY <1>1
<1> HIDE DEF s, v
<1> DEFINE next == [j \in 1..(Len(s) + 1) |->
                     IF j = Len(s) + 1 THEN Len(v) + 1 ELSE start[j]]
<1>5. Len(t) \in Nat /\ Len(u) \in Nat /\ Len(v) \in Nat /\ Len(s) \in Nat
  BY <1>1, <1>3, <1>4
<1>6. /\ next \in [1..(Len(s) + 1) -> Nat \ {0}]
      /\ next[Len(s) + 1] = Len(v) + 1
      /\ \A j \in 1..(Len(t) + 1) : next[j] = start[j]
  BY <1>4, <1>5
<1> HIDE DEF next
<1>7. ASSUME NEW j \in 1..Len(s)
      PROVE  /\ next[j + 1] = next[j] + Len(Encoded(s[j]))
             /\ next[j + 1] <= Len(v) + 1
             /\ \A k \in 1..Len(Encoded(s[j])) : v[next[j] + k - 1] = Encoded(s[j])[k]
  <2>1. CASE j \in 1..Len(t)
    <3> DEFINE old == Encoded(t[j])
    <3>1. /\ start[j + 1] = start[j] + Len(old) /\ start[j + 1] <= Len(u) + 1
          /\ \A k \in 1..Len(old) : u[start[j] + k - 1] = old[k]
      BY <1>2, <2>1 DEF StartsAt
    <3>2. start[j] \in Nat \ {0} /\ next[j] = start[j] /\ next[j + 1] = start[j + 1] /\ Encoded(s[j]) = old
      BY <1>4, <1>5, <1>6, <2>1
    <3>3. Len(old) \in Nat
      <4>1. t[j] \in Octets
        BY <1>1, <2>1
      <4> QED BY <4>1, EncodedByte
    <3> HIDE DEF old
    <3>4. \A k \in 1..Len(old) : start[j] + k - 1 \in 1..Len(u)
      <4> DEFINE p == start[j]
                 n == Len(old)
                 end == Len(u)
      <4>1. p \in Nat \ {0} /\ n \in Nat /\ end \in Nat /\ p + n <= end + 1
        BY <1>5, <3>1, <3>2, <3>3
      <4> HIDE DEF p, n, end
      <4>2. \A k \in 1..n : p + k - 1 \in 1..end
        BY ONLY <4>1
      <4> QED BY <4>2 DEF p, n, end
    <3>5. \A k \in 1..Len(old) : v[next[j] + k - 1] = old[k]
      BY <1>3, <3>1, <3>2, <3>4
    <3>6. next[j + 1] <= Len(v) + 1
      <4>1. start[j + 1] \in Nat
        BY <3>1, <3>2, <3>3
      <4> QED BY <1>1, <1>3, <1>5, <3>1, <3>2, <4>1
    <3>7. next[j + 1] = next[j] + Len(old)
      BY <3>1, <3>2
    <3> QED BY <3>2, <3>5, <3>6, <3>7
  <2>2. CASE j = Len(t) + 1
    <3>1. next[j] = Len(u) + 1 /\ next[j + 1] = Len(v) + 1 /\ s[j] = c
      BY <1>2, <1>4, <1>5, <1>6, <2>2 DEF StartsAt
    <3> HIDE DEF code
    <3>2. \A k \in 1..Len(code) : v[next[j] + k - 1] = code[k]
      BY <1>1, <1>3, <1>5, <3>1
    <3> QED BY <1>1, <1>3, <1>5, <3>1, <3>2 DEF code
  <2> QED BY <1>4, <1>5, <2>1, <2>2
<1>8. next[1] = 1
  BY <1>2, <1>5, <1>6 DEF StartsAt
<1>9. StartsAt(v, s, next)
  BY <1>6, <1>7, <1>8 DEF StartsAt
<1> QED BY <1>3, <1>4, <1>6, <1>9 DEF Encodes, v, s

-----------------------------------------------------------------------------
(* Decoding *)

(* What is decoded of u from place i on, given what is from later places.  *)
DecodedAt(from, i, u) ==
  IF i > Len(u) THEN <<>>
  ELSE IF u[i] = Percent /\ i + 2 <= Len(u)
       THEN <<16 * HexValue(u[i + 1]) + HexValue(u[i + 2])>> \o from[i + 3]
       ELSE <<u[i]>> \o from[i + 1]

IsDecoding(from, m, u) == from = [i \in m..(Len(u) + 3) |-> DecodedAt(from, i, u)]

(* The recursion of Decoded has a solution. *)
LEMMA DecodingExists ==
  ASSUME NEW u, Len(u) \in Nat
  PROVE  \E from : IsDecoding(from, 1, u)
<1> DEFINE last == Len(u) + 3
           Bad == {n \in Nat : n < last /\ ~ \E from : IsDecoding(from, last - n, u)}
<1>1. last \in Nat \ {0}
  OBVIOUS
<1> HIDE DEF last
<1>2. SUFFICES ASSUME Bad # {}  PROVE FALSE
  <2>1. last - 1 \in Nat /\ last - 1 < last /\ last - (last - 1) = 1
    BY <1>1
  <2> QED BY <2>1
<1>3. PICK n \in Bad : \A m \in Bad : n <= m
  BY <1>2, LeastNumber
<1> DEFINE m == last - n
<1>4. m \in 1..last /\ n \in Nat /\ last = Len(u) + 3
  BY <1>1, <1>3 DEF last
<1>5. CASE n = 0
  <2> DEFINE from == [i \in last..last |-> <<>>]
  <2>1. from = [i \in last..last |-> DecodedAt(from, i, u)]
    BY <1>1, <1>4 DEF DecodedAt
  <2>2. IsDecoding(from, last - n, u)
    <3>1. last - n = last
      BY <1>1, <1>5
    <3> QED BY <1>4, <2>1, <3>1 DEF IsDecoding
  <2> QED BY <1>3, <2>2
<1>6. CASE n # 0
  <2>1. n - 1 \in Nat /\ n - 1 < last /\ n - 1 \notin Bad /\ last - (n - 1) = m + 1
    BY <1>1, <1>3, <1>4, <1>6
  <2>2. PICK later : IsDecoding(later, m + 1, u)
    BY <2>1
  <2> DEFINE from == [i \in m..last |-> IF i = m THEN DecodedAt(later, m, u) ELSE later[i]]
  <2> HIDE DEF m
  <2>3. ASSUME NEW i \in m..last  PROVE from[i] = DecodedAt(from, i, u)
    <3>1. \A k \in (m + 1)..last : from[k] = later[k]
      BY <1>4
    <3>2. DecodedAt(from, i, u) = DecodedAt(later, i, u)
      <4>1. CASE i > Len(u)
        BY <4>1 DEF DecodedAt
      <4>2. CASE ~(i > Len(u))
        <5>1. i + 3 \in (m + 1)..last /\ i + 1 \in (m + 1)..last
          BY <1>4, <4>2
        <5>2. from[i + 3] = later[i + 3] /\ from[i + 1] = later[i + 1]
          BY <3>1, <5>1
        <5> HIDE DEF from
        <5> QED BY <5>2 DEF DecodedAt
      <4> QED BY <4>1, <4>2
    <3>3. from[i] = DecodedAt(later, i, u)
      <4>1. CASE i = m
        BY <1>4, <4>1
      <4>2. CASE i # m
        <5>1. i \in (m + 1)..last
          BY <1>4, <4>2
        <5>2. later[i] = DecodedAt(later, i, u)
          BY <1>4, <2>2, <5>1 DEF IsDecoding
        <5> QED BY <3>1, <5>1, <5>2
      <4> QED BY <4>1, <4>2
    <3> QED BY <3>2, <3>3
  <2>4. from = [i \in m..last |-> from[i]]
    OBVIOUS
  <2> HIDE DEF from
  <2>5. IsDecoding(from, m, u)
    BY <1>4, <2>3, <2>4 DEF IsDecoding
  <2> QED BY <1>3, <2>5 DEF m
<1> QED BY <1>5, <1>6

(* Decoded follows its recursion. *)
LEMMA DecodingSteps ==
  ASSUME NEW u, Len(u) \in Nat
  PROVE  \E from : /\ Decoded(u) = from[1]
                   /\ \A i \in 1..(Len(u) + 3) : from[i] = DecodedAt(from, i, u)
<1> DEFINE solution == CHOOSE from : IsDecoding(from, 1, u)
<1>1. Decoded(u) = solution[1]
  BY DEF Decoded, IsDecoding, DecodedAt
<1>2. IsDecoding(solution, 1, u)
  BY DecodingExists
<1> HIDE DEF solution
<1>3. \A i \in 1..(Len(u) + 3) : solution[i] = DecodedAt(solution, i, u)
  BY <1>2 DEF IsDecoding
<1> QED BY <1>1, <1>3

(* Putting an element in front of the rest of a sequence. *)
LEMMA RestExtends ==
  ASSUME NEW S, NEW t \in Seq(S), NEW j \in 1..Len(t)
  PROVE  <<t[j]>> \o SubSeq(t, j + 1, Len(t)) = SubSeq(t, j, Len(t))
<1>1. /\ <<t[j]>> \in Seq(S) /\ Len(<<t[j]>>) = 1 /\ <<t[j]>>[1] = t[j]
      /\ SubSeq(t, j + 1, Len(t)) \in Seq(S) /\ Len(SubSeq(t, j + 1, Len(t))) = Len(t) - j
      /\ \A k \in 1..(Len(t) - j) : SubSeq(t, j + 1, Len(t))[k] = t[j + k]
  OBVIOUS
<1>2. /\ SubSeq(t, j, Len(t)) \in Seq(S) /\ Len(SubSeq(t, j, Len(t))) = Len(t) - j + 1
      /\ \A k \in 1..(Len(t) - j + 1) : SubSeq(t, j, Len(t))[k] = t[j + k - 1]
  OBVIOUS
<1> QED BY <1>1, <1>2

(* Decoding what encodes a line gives the line. *)
LEMMA DecodeInverts ==
  ASSUME NEW u, NEW t, Encodes(u, t)
  PROVE  Decoded(u) = t
<1>1. u \in Seq(Octets) /\ t \in Seq(Octets) /\ Len(u) \in Nat /\ Len(t) \in Nat
  BY DEF Encodes
<1>2. PICK start \in [1..(Len(t) + 1) -> Nat \ {0}] : StartsAt(u, t, start)
  BY DEF Encodes
<1>3. PICK from : /\ Decoded(u) = from[1]
                  /\ \A i \in 1..(Len(u) + 3) : from[i] = DecodedAt(from, i, u)
  BY <1>1, DecodingSteps
<1> DEFINE Right(j) == from[start[j]] = SubSeq(t, j, Len(t))
           Bad == {n \in 0..Len(t) : ~Right(Len(t) + 1 - n)}
<1>4. SUFFICES ASSUME Bad # {}  PROVE FALSE
  <2>1. Len(t) \in 0..Len(t) /\ Len(t) + 1 - Len(t) = 1
    BY <1>1
  <2>2. Right(1) => Decoded(u) = t
    <3>1. SubSeq(t, 1, Len(t)) = t
      BY <1>1
    <3> QED BY <1>2, <1>3, <3>1 DEF StartsAt
  <2> QED BY <2>1, <2>2
<1>5. PICK n \in Bad : \A m \in Bad : n <= m
  <2>1. Bad \in SUBSET Nat
    BY <1>1
  <2> HIDE DEF Bad
  <2> QED BY <1>4, <2>1, LeastNumber
<1> DEFINE j == Len(t) + 1 - n
<1>6. j \in 1..(Len(t) + 1) /\ ~Right(j) /\ n \in 0..Len(t)
  BY <1>1, <1>5
<1>7. CASE n = 0
  <2>1. start[j] = Len(u) + 1 /\ j = Len(t) + 1
    BY <1>1, <1>2, <1>7 DEF StartsAt
  <2>2. from[start[j]] = <<>>
    <3>1. Len(u) + 1 \in 1..(Len(u) + 3) /\ Len(u) + 1 > Len(u)
      BY <1>1
    <3> QED BY <1>3, <2>1, <3>1 DEF DecodedAt
  <2>3. SubSeq(t, Len(t) + 1, Len(t)) = <<>>
    BY <1>1
  <2> QED BY <1>6, <2>1, <2>2, <2>3
<1>8. CASE n # 0
  <2>1. j \in 1..Len(t) /\ n - 1 \in 0..Len(t) /\ ~(n <= n - 1) /\ Len(t) + 1 - (n - 1) = j + 1
    BY <1>1, <1>6, <1>8
  <2>2. Right(j + 1)
    BY <1>5, <2>1
  <2> DEFINE code == Encoded(t[j])
             i == start[j]
             rest == SubSeq(t, j + 1, Len(t))
  <2>3. /\ start[j + 1] = i + Len(code) /\ start[j + 1] <= Len(u) + 1
        /\ \A k \in 1..Len(code) : u[i + k - 1] = code[k]
        /\ i \in Nat \ {0}
    <3>1. i \in Nat \ {0}
      BY <1>2, <1>6
    <3> HIDE DEF j
    <3> QED BY <1>2, <2>1, <3>1 DEF StartsAt
  <2>4. /\ t[j] \in Octets
        /\ \/ /\ Len(code) = 3 /\ code[1] = Percent
              /\ 16 * HexValue(code[2]) + HexValue(code[3]) = t[j]
           \/ Len(code) = 1 /\ code[1] = t[j] /\ t[j] # Percent
    BY <1>1, <2>1, EncodedByte
  <2> HIDE DEF code, i, rest, j
  <2>5. i \in 1..(Len(u) + 3) /\ ~(i > Len(u))
    BY <1>1, <2>3, <2>4
  <2>6. DecodedAt(from, i, u) = <<t[j]>> \o rest
    <3>1. CASE Len(code) = 3
      <4>1. i + 2 <= Len(u) /\ i + 3 = start[j + 1]
        BY <1>1, <2>3, <3>1
      <4>2. u[i] = code[1] /\ u[i + 1] = code[2] /\ u[i + 2] = code[3]
        <5>1. u[i + 1 - 1] = code[1] /\ u[i + 2 - 1] = code[2] /\ u[i + 3 - 1] = code[3]
          BY <2>3, <3>1
        <5>2. i + 1 - 1 = i /\ i + 2 - 1 = i + 1 /\ i + 3 - 1 = i + 2
          BY <2>3
        <5> QED BY <5>1, <5>2
      <4>3. code[1] = Percent /\ 16 * HexValue(code[2]) + HexValue(code[3]) = t[j]
        BY <2>4, <3>1
      <4> QED BY <2>2, <2>5, <4>1, <4>2, <4>3 DEF DecodedAt, rest
    <3>2. CASE Len(code) = 1
      <4>1. i + 1 = start[j + 1]
        BY <1>1, <2>3, <3>2
      <4>2. u[i] = t[j] /\ t[j] # Percent
        <5>1. u[i + 1 - 1] = code[1]
          BY <2>3, <3>2
        <5>2. i + 1 - 1 = i
          BY <2>3
        <5> QED BY <2>4, <3>2, <5>1, <5>2
      <4> QED BY <2>2, <2>5, <4>1, <4>2 DEF DecodedAt, rest
    <3> QED BY <2>4, <3>1, <3>2
  <2>7. <<t[j]>> \o rest = SubSeq(t, j, Len(t))
    BY <1>1, <2>1, RestExtends DEF rest
  <2>8. from[start[j]] = SubSeq(t, j, Len(t))
    BY <1>3, <2>5, <2>6, <2>7 DEF i
  <2> QED BY <1>6, <2>8
<1> QED BY <1>6, <1>7, <1>8

-----------------------------------------------------------------------------
(* Flattening *)

IsFlattening(flat, k, ss) ==
  flat = [i \in 1..k |-> IF i = 1 THEN ss[i] ELSE flat[i - 1] \o ss[i]]

(* The recursion of FlattenSeq has a solution. *)
LEMMA FlatteningExists ==
  ASSUME NEW ss, NEW k \in Nat
  PROVE  \E flat : IsFlattening(flat, k, ss)
<1> DEFINE Bad == {n \in Nat : ~ \E flat : IsFlattening(flat, n, ss)}
<1>1. SUFFICES ASSUME Bad # {}  PROVE FALSE
  OBVIOUS
<1>2. PICK n \in Bad : \A m \in Bad : n <= m
  BY <1>1, LeastNumber
<1>3. CASE n = 0
  <2>1. IsFlattening([i \in 1..0 |-> <<>>], 0, ss)
    BY DEF IsFlattening
  <2> QED BY <1>3, <2>1
<1>4. CASE n # 0
  <2>1. n \in Nat /\ n - 1 \in Nat /\ n - 1 \notin Bad
    BY <1>2, <1>4
  <2>2. PICK before : IsFlattening(before, n - 1, ss)
    BY <2>1
  <2> DEFINE last == IF n = 1 THEN ss[n] ELSE before[n - 1] \o ss[n]
             flat == [i \in 1..n |-> IF i = n THEN last ELSE before[i]]
  <2>3. \A i \in 1..(n - 1) : flat[i] = before[i]
    BY <2>1
  <2>4. flat[n] = last
    BY <1>4, <2>1
  <2>5. flat = [i \in 1..n |-> flat[i]]
    OBVIOUS
  <2> HIDE DEF flat
  <2>6. ASSUME NEW i \in 1..n
        PROVE  flat[i] = IF i = 1 THEN ss[i] ELSE flat[i - 1] \o ss[i]
    <3>1. i # 1 => i - 1 \in 1..(n - 1)
      BY <2>1
    <3>2. CASE i = n
      BY <2>3, <2>4, <3>1, <3>2
    <3>3. CASE i # n
      <4>1. i \in 1..(n - 1)
        BY <2>1, <3>3
      <4>2. before[i] = IF i = 1 THEN ss[i] ELSE before[i - 1] \o ss[i]
        BY <2>2, <4>1 DEF IsFlattening
      <4> QED BY <2>3, <3>1, <4>1, <4>2
    <3> QED BY <3>2, <3>3
  <2>7. IsFlattening(flat, n, ss)
    BY <2>5, <2>6 DEF IsFlattening
  <2> QED BY <2>7
<1> QED BY <1>3, <1>4

(* FlattenSeq follows its recursion. *)
LEMMA FlatteningSteps ==
  ASSUME NEW ss, Len(ss) \in Nat \ {0}
  PROVE  \E flat : /\ FlattenSeq(ss) = flat[Len(ss)]
                   /\ \A i \in 1..Len(ss) :
                        flat[i] = IF i = 1 THEN ss[i] ELSE flat[i - 1] \o ss[i]
<1> DEFINE solution == CHOOSE flat : IsFlattening(flat, Len(ss), ss)
<1>1. FlattenSeq(ss) = solution[Len(ss)]
  BY DEF FlattenSeq, IsFlattening
<1>2. IsFlattening(solution, Len(ss), ss)
  BY FlatteningExists
<1> HIDE DEF solution
<1>3. \A i \in 1..Len(ss) :
        solution[i] = IF i = 1 THEN ss[i] ELSE solution[i - 1] \o ss[i]
  BY <1>2 DEF IsFlattening
<1> QED BY <1>1, <1>3

(* One more sequence is flattened to what follows the others. *)
LEMMA FlattenAppend ==
  ASSUME NEW S, NEW ss \in Seq(Seq(S)), NEW s \in Seq(S)
  PROVE  FlattenSeq(Append(ss, s)) = FlattenSeq(ss) \o s
<1> DEFINE tt == Append(ss, s)
<1>1. /\ Len(ss) \in Nat /\ Len(tt) = Len(ss) + 1 /\ tt[Len(ss) + 1] = s
      /\ \A i \in 1..Len(ss) : tt[i] = ss[i]
  OBVIOUS
<1> HIDE DEF tt
<1>2. PICK more : /\ FlattenSeq(tt) = more[Len(tt)]
                  /\ \A i \in 1..Len(tt) :
                       more[i] = IF i = 1 THEN tt[i] ELSE more[i - 1] \o tt[i]
  <2>1. Len(tt) \in Nat \ {0}
    BY <1>1
  <2> QED BY <2>1, FlatteningSteps
<1>3. CASE ss = <<>>
  <2>1. FlattenSeq(ss) = <<>> /\ Len(ss) = 0
    BY <1>3 DEF FlattenSeq
  <2>2. FlattenSeq(tt) = s
    BY <1>1, <1>2, <2>1
  <2> QED BY <2>1, <2>2 DEF tt
<1>4. CASE ss # <<>>
  <2>1. Len(ss) \in Nat \ {0}
    BY <1>4
  <2>2. PICK flat : /\ FlattenSeq(ss) = flat[Len(ss)]
                    /\ \A i \in 1..Len(ss) :
                         flat[i] = IF i = 1 THEN ss[i] ELSE flat[i - 1] \o ss[i]
    BY <2>1, FlatteningSteps
  <2> DEFINE Bad == {i \in 1..Len(ss) : more[i] # flat[i]}
  <2>3. Bad = {}
    <3>1. SUFFICES ASSUME Bad # {}  PROVE FALSE
      OBVIOUS
    <3>2. PICK n \in Bad : \A m \in Bad : n <= m
      <4>1. Bad \in SUBSET Nat
        BY <1>1
      <4> HIDE DEF Bad
      <4> QED BY <3>1, <4>1, LeastNumber
    <3>3. n \in 1..Len(ss) /\ n \in 1..Len(tt) /\ tt[n] = ss[n]
      BY <1>1, <3>2
    <3>4. CASE n = 1
      BY <1>2, <2>2, <3>2, <3>3, <3>4
    <3>5. CASE n # 1
      <4>1. n - 1 \in 1..Len(ss) /\ ~(n <= n - 1)
        BY <3>3, <3>5
      <4>2. more[n - 1] = flat[n - 1]
        BY <3>2, <4>1
      <4> QED BY <1>2, <2>2, <3>2, <3>3, <3>5, <4>2
    <3> QED BY <3>4, <3>5
  <2>4. more[Len(ss)] = flat[Len(ss)]
    BY <2>1, <2>3
  <2>5. more[Len(tt)] = more[Len(ss)] \o s
    <3>1. Len(tt) \in 1..Len(tt) /\ Len(tt) # 1 /\ Len(tt) - 1 = Len(ss)
      BY <1>1, <2>1
    <3> QED BY <1>1, <1>2, <3>1
  <2> QED BY <1>2, <2>2, <2>4, <2>5 DEF tt
<1> QED BY <1>3, <1>4

-----------------------------------------------------------------------------
(* The scan *)

IsScan(found, k, str) ==
  found = [n \in 0..k |-> IF n = 0 THEN [uris |-> <<>>, line |-> <<>>]
                          ELSE ScanCharacter(found[n - 1], str[n])]

(* The recursion of get_uris_from_string has a solution. *)
LEMMA ScanExists ==
  ASSUME NEW str, NEW k \in Nat
  PROVE  \E found : IsScan(found, k, str)
<1> DEFINE Bad == {n \in Nat : ~ \E found : IsScan(found, n, str)}
<1>1. SUFFICES ASSUME Bad # {}  PROVE FALSE
  OBVIOUS
<1>2. PICK n \in Bad : \A m \in Bad : n <= m
  BY <1>1, LeastNumber
<1>3. CASE n = 0
  <2>1. IsScan([m \in 0..0 |-> [uris |-> <<>>, line |-> <<>>]], 0, str)
    BY DEF IsScan
  <2> QED BY <1>3, <2>1
<1>4. CASE n # 0
  <2>1. n - 1 \in Nat /\ n - 1 \notin Bad
    BY <1>2, <1>4
  <2>2. PICK before : IsScan(before, n - 1, str)
    BY <2>1
  <2> DEFINE found == [m \in 0..n |-> IF m = n THEN ScanCharacter(before[n - 1], str[n])
                                      ELSE before[m]]
  <2>3. ASSUME NEW m \in 0..n
        PROVE  found[m] = IF m = 0 THEN [uris |-> <<>>, line |-> <<>>]
                          ELSE ScanCharacter(found[m - 1], str[m])
    <3>1. CASE m = n
      <4>1. found[n - 1] = before[n - 1]
        BY <2>1, <1>2
      <4> QED BY <1>4, <3>1, <4>1
    <3>2. CASE m # n
      <4>1. m \in 0..(n - 1) /\ (m # 0 => m - 1 \in 0..n /\ m - 1 # n)
        BY <2>1, <3>2
      <4>2. found[m] = before[m] /\ (m # 0 => found[m - 1] = before[m - 1])
        BY <4>1, <3>2
      <4>3. before[m] = IF m = 0 THEN [uris |-> <<>>, line |-> <<>>]
                        ELSE ScanCharacter(before[m - 1], str[m])
        BY <2>2, <4>1 DEF IsScan
      <4> QED BY <4>2, <4>3
    <3> QED BY <3>1, <3>2
  <2>4. IsScan(found, n, str)
    BY <2>3 DEF IsScan
  <2> QED BY <2>4
<1> QED BY <1>3, <1>4

(* get_uris_from_string returns what it has after the last character. *)
LEMMA ScanSteps ==
  ASSUME NEW s, Len(CString(s)) \in Nat
  PROVE  \E found : /\ get_uris_from_string(s) = found[Len(CString(s))].uris
                    /\ found[0] = [uris |-> <<>>, line |-> <<>>]
                    /\ \A n \in 1..Len(CString(s)) :
                         found[n] = ScanCharacter(found[n - 1], CString(s)[n])
<1> DEFINE str == CString(s)
           solution == CHOOSE found : IsScan(found, Len(str), str)
<1>1. get_uris_from_string(s) = solution[Len(str)].uris
  BY DEF get_uris_from_string, IsScan
<1>2. IsScan(solution, Len(str), str)
  BY ScanExists
<1> HIDE DEF solution, str
<1>3. \A n \in 0..Len(str) :
        solution[n] = IF n = 0 THEN [uris |-> <<>>, line |-> <<>>]
                      ELSE ScanCharacter(solution[n - 1], str[n])
  BY <1>2 DEF IsScan
<1>4. Len(str) \in Nat
  BY DEF str
<1>5. solution[0] = [uris |-> <<>>, line |-> <<>>]
  <2>1. 0 \in 0..Len(str)
    BY <1>4
  <2> QED BY <1>3, <2>1
<1>6. ASSUME NEW n \in 1..Len(str)
      PROVE  solution[n] = ScanCharacter(solution[n - 1], str[n])
  <2>1. n \in 0..Len(str) /\ n # 0
    BY <1>4
  <2> QED BY <1>3, <2>1
<1> QED BY <1>1, <1>5, <1>6 DEF str

(* The lines of some URIs, with their newlines. *)
Terminated(us) == [k \in 1..Len(us) |-> Append(Decoded(us[k]), Newline)]

(* After n characters, the URIs hold the lines up to the last newline, at  *)
(* place m, and line encodes the characters behind it.                     *)
Scanned(found, n, str) ==
  \E m \in 0..n :
    /\ m = 0 \/ str[m] = Newline
    /\ \A k \in (m + 1)..n : str[k] # Newline
    /\ found = [uris |-> found.uris, line |-> found.line]
    /\ found.uris \in Seq(Seq(Octets))
    /\ \A k \in 1..Len(found.uris) :
         /\ Decoded(found.uris[k]) \in Seq(Octets)
         /\ Newline \notin Range(Decoded(found.uris[k]))
    /\ FlattenSeq(Terminated(found.uris)) = SubSeq(str, 1, m)
    /\ Encodes(found.line, SubSeq(str, m + 1, n))

(* Adding one line to what came before it. *)
LEMMA TerminatedAppend ==
  ASSUME NEW us \in Seq(Seq(Octets)), NEW u \in Seq(Octets), NEW t, Encodes(u, t),
         \A k \in 1..Len(us) : Decoded(us[k]) \in Seq(Octets)
  PROVE  /\ Terminated(us) \in Seq(Seq(Octets))
         /\ Terminated(Append(us, u)) = Append(Terminated(us), Append(t, Newline))
         /\ FlattenSeq(Terminated(Append(us, u)))
              = FlattenSeq(Terminated(us)) \o Append(t, Newline)
<1>1. Decoded(u) = t /\ t \in Seq(Octets) /\ Newline \in Octets
  BY DecodeInverts DEF Encodes, Newline, Octets
<1>2. Len(us) \in Nat /\ \A k \in 1..Len(us) : Append(Decoded(us[k]), Newline) \in Seq(Octets)
  BY <1>1
<1>3. /\ Terminated(us) \in Seq(Seq(Octets)) /\ Len(Terminated(us)) = Len(us)
      /\ \A k \in 1..Len(us) : Terminated(us)[k] = Append(Decoded(us[k]), Newline)
  <2> DEFINE at == [k \in 1..Len(us) |-> Append(Decoded(us[k]), Newline)]
  <2>1. at \in [1..Len(us) -> Seq(Octets)]
    BY <1>2
  <2> HIDE DEF at
  <2>2. at \in Seq(Seq(Octets))
    <3> DEFINE S == Seq(Octets)
    <3> HIDE DEF S
    <3>1. \E n \in Nat : at \in [1..n -> S]
      BY <1>2, <2>1 DEF S
    <3>2. Seq(S) = UNION {[1..n -> S] : n \in Nat}
      BY SeqDef, Zenon
    <3>3. at \in Seq(S)
      BY <3>1, <3>2, Zenon
    <3> QED BY <3>3 DEF S
  <2>3. 1..Len(at) = 1..Len(us) /\ Len(at) \in Nat
    BY <2>1, <2>2, LenProperties
  <2>4. Len(at) = Len(us)
    BY <1>2, <2>3
  <2>5. \A k \in 1..Len(us) : at[k] = Append(Decoded(us[k]), Newline)
    BY DEF at
  <2> QED BY <2>2, <2>4, <2>5 DEF at, Terminated
<1>4. /\ Len(Append(us, u)) = Len(us) + 1 /\ Append(us, u)[Len(us) + 1] = u
      /\ \A k \in 1..Len(us) : Append(us, u)[k] = us[k]
  OBVIOUS
<1>5. Terminated(Append(us, u)) = Append(Terminated(us), Append(t, Newline))
  <2> DEFINE new == Append(Terminated(us), Append(t, Newline))
             vs == Append(us, u)
  <2>1. Append(t, Newline) \in Seq(Octets)
    BY <1>1
  <2>2. /\ DOMAIN new = 1..(Len(us) + 1) /\ new = [k \in 1..(Len(us) + 1) |-> new[k]]
        /\ new[Len(us) + 1] = Append(t, Newline)
        /\ \A k \in 1..Len(us) : new[k] = Append(Decoded(us[k]), Newline)
    <3> DEFINE old == Terminated(us)
               line == Append(t, Newline)
    <3>1. old \in Seq(Seq(Octets)) /\ line \in Seq(Octets) /\ Len(old) = Len(us)
      BY <1>3, <2>1
    <3> HIDE DEF old, line
    <3>2. /\ DOMAIN Append(old, line) = 1..(Len(us) + 1)
          /\ Append(old, line) = [k \in 1..(Len(us) + 1) |-> Append(old, line)[k]]
          /\ Append(old, line)[Len(us) + 1] = line
          /\ \A k \in 1..Len(us) : Append(old, line)[k] = old[k]
      <4> DEFINE S == Seq(Octets)
                 joined == Append(old, line)
      <4> HIDE DEF S
      <4>1. old \in Seq(S) /\ line \in S
        BY <3>1 DEF S
      <4>2. /\ joined \in Seq(S) /\ Len(joined) = Len(us) + 1 /\ joined[Len(us) + 1] = line
            /\ \A k \in 1..Len(us) : joined[k] = old[k]
        <5>1. /\ joined \in Seq(S)
              /\ Len(joined) = Len(old) + 1
              /\ \A k \in 1..Len(old) : joined[k] = old[k]
              /\ joined[Len(old) + 1] = line
          BY ONLY <4>1, AppendProperties
        <5> HIDE DEF joined
        <5> QED BY <3>1, <5>1
      <4> HIDE DEF joined
      <4>3. joined \in [1..(Len(us) + 1) -> S]
        BY <4>2, LenProperties
      <4> QED BY <4>2, <4>3 DEF joined
    <3> QED BY <1>3, <3>2 DEF old, line
  <2> HIDE DEF new, vs
  <2>3. \A k \in 1..(Len(us) + 1) : new[k] = Append(Decoded(vs[k]), Newline)
    <3>1. Decoded(vs[Len(us) + 1]) = t
      BY <1>1, <1>4 DEF vs
    <3>2. \A k \in 1..Len(us) : vs[k] = us[k]
      BY <1>4 DEF vs
    <3>3. \A k \in 1..(Len(us) + 1) : k \in 1..Len(us) \/ k = Len(us) + 1
      BY <1>2
    <3> QED BY <2>2, <3>1, <3>2, <3>3
  <2>4. Terminated(vs) = new
    BY <1>4, <2>2, <2>3 DEF Terminated, vs
  <2> QED BY <2>4 DEF new, vs
<1>6. FlattenSeq(Append(Terminated(us), Append(t, Newline)))
        = FlattenSeq(Terminated(us)) \o Append(t, Newline)
  <2>1. Append(t, Newline) \in Seq(Octets)
    BY <1>1
  <2> QED BY <1>3, <2>1, FlattenAppend
<1> QED BY <1>3, <1>5, <1>6

(* A sequence in two parts, of which the second grows. *)
LEMMA PartsGrow ==
  ASSUME NEW S, NEW str \in Seq(S), NEW n \in 1..Len(str), NEW m \in 0..(n - 1)
  PROVE  /\ Append(SubSeq(str, m + 1, n - 1), str[n]) = SubSeq(str, m + 1, n)
         /\ SubSeq(str, 1, m) \o SubSeq(str, m + 1, n) = SubSeq(str, 1, n)
         /\ SubSeq(str, n + 1, n) = <<>>
         /\ Range(SubSeq(str, m + 1, n - 1)) \subseteq {str[k] : k \in (m + 1)..(n - 1)}
<1>1. Append(SubSeq(str, m + 1, n - 1), str[n]) = SubSeq(str, m + 1, n)
  <2> DEFINE t == SubSeq(str, m + 1, n - 1)
             s == SubSeq(str, m + 1, n)
  <2>1. t \in Seq(S) /\ Len(t) = n - 1 - m /\ \A k \in 1..(n - 1 - m) : t[k] = str[m + k]
    OBVIOUS
  <2>2. s \in Seq(S) /\ Len(s) = n - m /\ \A k \in 1..(n - m) : s[k] = str[m + k]
    OBVIOUS
  <2>3. str[n] \in S /\ n - 1 - m \in Nat
    OBVIOUS
  <2> HIDE DEF t, s
  <2>4. /\ Append(t, str[n]) \in Seq(S) /\ Len(Append(t, str[n])) = n - m
        /\ \A k \in 1..(n - 1 - m) : Append(t, str[n])[k] = str[m + k]
        /\ Append(t, str[n])[n - m] = str[n]
    BY <2>1, <2>3
  <2>5. \A k \in 1..(n - m) : Append(t, str[n])[k] = s[k]
    BY <2>2, <2>4
  <2> QED BY <2>2, <2>4, <2>5 DEF t, s
<1>2. SubSeq(str, 1, m) \o SubSeq(str, m + 1, n) = SubSeq(str, 1, n)
  OBVIOUS
<1>3. SubSeq(str, n + 1, n) = <<>>
  OBVIOUS
<1>4. Range(SubSeq(str, m + 1, n - 1)) \subseteq {str[k] : k \in (m + 1)..(n - 1)}
  <2> DEFINE t == SubSeq(str, m + 1, n - 1)
  <2>1. DOMAIN t = 1..(n - 1 - m) /\ \A k \in 1..(n - 1 - m) : t[k] = str[m + k]
    OBVIOUS
  <2>2. \A k \in 1..(n - 1 - m) : m + k \in (m + 1)..(n - 1)
    OBVIOUS
  <2> HIDE DEF t
  <2> QED BY <2>1, <2>2 DEF Range, t
<1> QED BY <1>1, <1>2, <1>3, <1>4

(* One round of the scan. *)
LEMMA CharacterScanned ==
  ASSUME NEW str \in Seq(Octets), NEW n \in 1..Len(str), NEW found, Scanned(found, n - 1, str)
  PROVE  Scanned(ScanCharacter(found, str[n]), n, str)
<1> DEFINE next == ScanCharacter(found, str[n])
<1>1. PICK m \in 0..(n - 1) :
        /\ m = 0 \/ str[m] = Newline
        /\ \A k \in (m + 1)..(n - 1) : str[k] # Newline
        /\ found = [uris |-> found.uris, line |-> found.line]
        /\ found.uris \in Seq(Seq(Octets))
        /\ \A k \in 1..Len(found.uris) :
             /\ Decoded(found.uris[k]) \in Seq(Octets)
             /\ Newline \notin Range(Decoded(found.uris[k]))
        /\ FlattenSeq(Terminated(found.uris)) = SubSeq(str, 1, m)
        /\ Encodes(found.line, SubSeq(str, m + 1, n - 1))
  BY DEF Scanned
<1> DEFINE t == SubSeq(str, m + 1, n - 1)
<1>2. /\ n \in Nat \ {0} /\ str[n] \in Octets /\ m \in 0..n /\ n \in 0..n
      /\ Append(t, str[n]) = SubSeq(str, m + 1, n)
      /\ SubSeq(str, 1, m) \o SubSeq(str, m + 1, n) = SubSeq(str, 1, n)
      /\ SubSeq(str, n + 1, n) = <<>>
  <2>1. n \in Nat \ {0} /\ str[n] \in Octets /\ m \in 0..n /\ n \in 0..n
    OBVIOUS
  <2> QED BY <2>1, PartsGrow
<1>3. CASE str[n] = Newline
  <2>1. /\ next = [uris |-> next.uris, line |-> next.line]
        /\ next.uris = Append(found.uris, found.line) /\ next.line = <<>>
    BY <1>3 DEF ScanCharacter
  <2>2. found.line \in Seq(Octets) /\ Decoded(found.line) = t /\ t \in Seq(Octets)
    BY <1>1, DecodeInverts DEF Encodes
  <2>3. Newline \notin Range(t)
    <3>1. Range(t) \subseteq {str[k] : k \in (m + 1)..(n - 1)}
      BY PartsGrow
    <3> QED BY <1>1, <3>1
  <2> HIDE DEF next, t
  <2>4. FlattenSeq(Terminated(next.uris)) = SubSeq(str, 1, n)
    <3>1. FlattenSeq(Terminated(next.uris)) = FlattenSeq(Terminated(found.uris)) \o Append(t, Newline)
      <4> DEFINE us == found.uris
                 u == found.line
      <4>1. /\ us \in Seq(Seq(Octets)) /\ u \in Seq(Octets) /\ Encodes(u, t)
            /\ \A k \in 1..Len(us) : Decoded(us[k]) \in Seq(Octets)
        BY <1>1, <2>2 DEF t
      <4> HIDE DEF us, u
      <4>2. FlattenSeq(Terminated(Append(us, u))) = FlattenSeq(Terminated(us)) \o Append(t, Newline)
        BY <4>1, TerminatedAppend
      <4> QED BY <2>1, <4>2 DEF us, u
    <3> QED BY <1>1, <1>2, <1>3, <3>1
  <2>5. next.uris \in Seq(Seq(Octets))
    BY <1>1, <2>1, <2>2
  <2>6. ASSUME NEW k \in 1..Len(next.uris)
        PROVE  /\ Decoded(next.uris[k]) \in Seq(Octets)
               /\ Newline \notin Range(Decoded(next.uris[k]))
    <3>1. \/ k \in 1..Len(found.uris) /\ next.uris[k] = found.uris[k]
          \/ next.uris[k] = found.line
      BY <1>1, <2>1, <2>2
    <3> QED BY <1>1, <2>2, <2>3, <3>1
  <2>7. Encodes(next.line, SubSeq(str, n + 1, n))
    BY <1>2, <2>1, NothingEncoded
  <2>8. \A k \in (n + 1)..n : str[k] # Newline
    BY <1>2
  <2>9. Scanned(next, n, str)
    BY <1>2, <1>3, <2>1, <2>4, <2>5, <2>6, <2>7, <2>8 DEF Scanned
  <2> QED BY <2>9 DEF next
<1>4. CASE str[n] # Newline
  <2>1. /\ next = [uris |-> next.uris, line |-> next.line]
        /\ next.uris = found.uris /\ next.line = found.line \o Encoded(str[n])
    BY <1>1, <1>4 DEF ScanCharacter
  <2>2. Encodes(next.line, SubSeq(str, m + 1, n))
    BY <1>1, <1>2, <2>1, ByteEncoded
  <2>3. \A k \in (m + 1)..n : str[k] # Newline
    BY <1>1, <1>2, <1>4
  <2> HIDE DEF next
  <2>4. Scanned(next, n, str)
    BY <1>1, <1>2, <2>1, <2>2, <2>3 DEF Scanned
  <2> QED BY <2>4 DEF next
<1> QED BY <1>3, <1>4

-----------------------------------------------------------------------------
(* What get_uris_from_string returns *)

(* Up to the first NUL, a string is a string. *)
LEMMA CStringTyped ==
  ASSUME NEW s \in Seq(Octets)
  PROVE  CString(s) \in Seq(Octets)
<1> DEFINE I == {i \in 1..Len(s) : s[i] = NUL}
           end == IF I # {} THEN Min(I) ELSE 0
<1>1. CString(s) = IF end = 0 THEN s ELSE SubSeq(s, 1, end - 1)
  BY DEF CString, SelectInSeq
<1>2. CASE I = {}
  BY <1>1, <1>2
<1>3. CASE I # {}
  <2>1. I \in SUBSET Nat
    OBVIOUS
  <2>2. PICK n \in I : \A m \in I : n <= m
    <3> HIDE DEF I
    <3> QED BY <1>3, <2>1, LeastNumber
  <2>3. end \in I
    <3>1. end = CHOOSE i \in I : \A m \in I : i <= m
      BY <1>3 DEF Min
    <3> HIDE DEF I, end
    <3> QED BY <2>2, <3>1
  <2>4. SubSeq(s, 1, end - 1) \in Seq(Octets)
    <3>1. end \in 1..Len(s)
      BY <2>3
    <3> HIDE DEF end
    <3> QED BY <3>1
  <2> QED BY <1>1, <2>4
<1> QED BY <1>2, <1>3

(* The complete lines end with the last newline. *)
LEMMA LinesEndAt ==
  ASSUME NEW str \in Seq(Octets), NEW m \in 0..Len(str), m = 0 \/ str[m] = Newline,
         \A k \in (m + 1)..Len(str) : str[k] # Newline
  PROVE  CompleteLines(str) = SubSeq(str, 1, m)
<1> DEFINE I == {i \in 1..Len(str) : str[i] = Newline}
           end == IF I # {} THEN Max(I) ELSE 0
<1>1. CompleteLines(str) = SubSeq(str, 1, end)
  BY DEF CompleteLines, SelectLastInSeq
<1>2. /\ \A i \in I : i \in Nat /\ i <= m
      /\ m # 0 => m \in I
  <2>1. Len(str) \in Nat
    OBVIOUS
  <2>2. ASSUME NEW i \in I  PROVE i \in Nat /\ i <= m
    <3>1. i \in 1..Len(str) /\ str[i] = Newline
      OBVIOUS
    <3>2. i \notin (m + 1)..Len(str)
      BY <3>1
    <3> QED BY <2>1, <3>1, <3>2
  <2>3. m # 0 => m \in I
    BY <2>1
  <2> QED BY <2>2, <2>3
<1>3. CASE m = 0
  <2>1. I = {}
    BY <1>2, <1>3
  <2> QED BY <1>1, <1>3, <2>1
<1>4. CASE m # 0
  <2>1. end = CHOOSE n \in I : \A i \in I : n >= i
    BY <1>2, <1>4 DEF Max
  <2> HIDE DEF I, end
  <2>2. end \in I /\ \A i \in I : end >= i
    BY <1>2, <1>4, <2>1
  <2>3. end = m
    BY <1>2, <1>4, <2>2
  <2> QED BY <1>1, <2>3
<1> QED BY <1>3, <1>4

(* Decoding the URIs gives back the complete lines. *)
LEMMA LinesGivenBack ==
  ASSUME NEW s \in Seq(Octets)
  PROVE  LET us == get_uris_from_string(s) IN
           /\ \A k \in 1..Len(us) : Newline \notin Range(Decoded(us[k]))
           /\ FlattenSeq(Terminated(us)) = CompleteLines(CString(s))
<1> DEFINE str == CString(s)
<1>1. str \in Seq(Octets) /\ Len(str) \in Nat
  BY CStringTyped
<1>2. PICK found : /\ get_uris_from_string(s) = found[Len(str)].uris
                   /\ found[0] = [uris |-> <<>>, line |-> <<>>]
                   /\ \A n \in 1..Len(str) : found[n] = ScanCharacter(found[n - 1], str[n])
  BY <1>1, ScanSteps
<1> HIDE DEF str
<1> DEFINE Bad == {n \in 0..Len(str) : ~Scanned(found[n], n, str)}
<1>3. Bad = {}
  <2> SUFFICES ASSUME Bad # {}  PROVE FALSE
    OBVIOUS
  <2>1. PICK n \in Bad : \A m \in Bad : n <= m
    <3>1. Bad \in SUBSET Nat
      BY <1>1
    <3> HIDE DEF Bad
    <3> QED BY <3>1, LeastNumber
  <2>2. CASE n = 0
    <3> DEFINE first == [uris |-> <<>>, line |-> <<>>]
    <3>1. /\ SubSeq(str, 1, 0) = <<>> /\ 0 \in 0..0 /\ 0 + 1 = 1
          /\ FlattenSeq(Terminated(<<>>)) = <<>>
      BY <1>1 DEF FlattenSeq, Terminated
    <3>2. /\ first = [uris |-> first.uris, line |-> first.line]
          /\ first.uris = <<>> /\ first.line = <<>> /\ <<>> \in Seq(Seq(Octets))
      OBVIOUS
    <3>3. \A k \in 1..0 : str[k] # Newline
      OBVIOUS
    <3> HIDE DEF first
    <3>4. /\ \A k \in 1..Len(first.uris) : Decoded(first.uris[k]) \in Seq(Octets)
                                            /\ Newline \notin Range(Decoded(first.uris[k]))
          /\ FlattenSeq(Terminated(first.uris)) = SubSeq(str, 1, 0)
          /\ Encodes(first.line, SubSeq(str, 1, 0))
      <4>1. 1..Len(first.uris) = {}
        BY <3>2
      <4> QED BY <3>1, <3>2, <4>1, NothingEncoded
    <3>5. Scanned(first, 0, str)
      <4>1. /\ 0 = 0 \/ str[0] = Newline
            /\ \A k \in (0 + 1)..0 : str[k] # Newline
            /\ first.uris \in Seq(Seq(Octets))
            /\ Encodes(first.line, SubSeq(str, 0 + 1, 0))
        BY <3>1, <3>2, <3>3, <3>4
      <4> QED BY <3>1, <3>2, <3>4, <4>1 DEF Scanned
    <3> QED BY <1>2, <2>1, <2>2, <3>5 DEF first
  <2>3. CASE n # 0
    <3>1. n \in 1..Len(str) /\ n - 1 \in 0..Len(str) /\ ~(n <= n - 1)
      BY <1>1, <2>1, <2>3
    <3>2. Scanned(found[n - 1], n - 1, str)
      BY <2>1, <3>1
    <3>3. Scanned(ScanCharacter(found[n - 1], str[n]), n, str)
      BY <1>1, <3>1, <3>2, CharacterScanned
    <3> QED BY <1>2, <2>1, <3>1, <3>3
  <2> QED BY <2>2, <2>3
<1>4. Scanned(found[Len(str)], Len(str), str)
  BY <1>1, <1>3
<1>5. PICK m \in 0..Len(str) :
        /\ m = 0 \/ str[m] = Newline
        /\ \A k \in (m + 1)..Len(str) : str[k] # Newline
        /\ \A k \in 1..Len(found[Len(str)].uris) :
             Newline \notin Range(Decoded(found[Len(str)].uris[k]))
        /\ FlattenSeq(Terminated(found[Len(str)].uris)) = SubSeq(str, 1, m)
  BY <1>4 DEF Scanned
<1>6. CompleteLines(str) = SubSeq(str, 1, m)
  BY <1>1, <1>5, LinesEndAt
<1> QED BY <1>2, <1>5, <1>6 DEF str

(* The answer is made of the buffer as it was read.                        *)
THEOREM AnswerMadeOfBuffer == Spec => []AnswerIsOfBuffer
<1>1. Init => AnswerIsOfBuffer
  BY DEF Init, AnswerIsOfBuffer
<1>2. AnswerIsOfBuffer /\ [Next]_vars => AnswerIsOfBuffer'
  BY DEF AnswerIsOfBuffer, Next, vars, PickerWrites, ds_append_bytes, Finalize, Over
<1> QED BY <1>1, <1>2, PTL DEF Spec

(* Decoding the URIs of an answer gives back the complete lines that were  *)
(* read, for every stream, cutting into reads and moment of the answer.    *)
THEOREM UrisDecode == Spec => []UrisDecodeToLines
<1>1. BufferInv /\ AnswerIsOfBuffer => UrisDecodeToLines
  <2> SUFFICES ASSUME BufferInv, AnswerIsOfBuffer, stage = "answered"
               PROVE  /\ \A k \in 1..Len(uris) : Newline \notin Range(Decoded(uris[k]))
                      /\ FlattenSeq(Terminated(uris))
                           = CompleteLines(CString(SubSeq(written, 1, Len(data))))
    <3> DEFINE lines == [k \in 1..Len(uris) |-> Decoded(uris[k])]
    <3>1. \A k \in 1..Len(uris) : lines[k] = Decoded(uris[k])
      OBVIOUS
    <3> HIDE DEF lines
    <3>2. [k \in 1..Len(uris) |-> Append(lines[k], Newline)] = Terminated(uris)
      BY <3>1 DEF Terminated
    <3> QED BY <3>1, <3>2 DEF UrisDecodeToLines, lines
  <2>1. data \in Seq(Octets) /\ data = SubSeq(written, 1, Len(data))
    <3>1. data \in Seq(Bytes) /\ data = SubSeq(written, 1, Len(data))
      BY DEF BufferInv, SelectionTypeOK, BufferIsPrefix
    <3>2. Bytes \subseteq Octets
      BY SelectionAssumption DEF Octets
    <3>3. data \in Seq(Octets)
      BY <3>1, <3>2, SeqMonotonic
    <3> QED BY <3>1, <3>3
  <2>2. uris = get_uris_from_string(data)
    BY DEF AnswerIsOfBuffer
  <2> QED BY <2>1, <2>2, LinesGivenBack
<1> QED BY <1>1, BufferCorrect, AnswerMadeOfBuffer, PTL
=============================================================================
