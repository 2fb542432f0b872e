---------------------------- MODULE StartupCalls ----------------------------
(***************************************************************************)
(* Proofs about the calls that arrive while instances start, run and       *)
(* leave, for any number of instances and calls: a call that has been sent *)
(* waits in exactly one place, and an instance handles the calls sent to   *)
(* it in their order, whatever sd-bus sets aside during start-up.          *)
(*                                                                         *)
(* Of a queue, the proofs only look at which calls wait in it (CallsIn)    *)
(* and in which order (Before).  Most steps move messages that are no      *)
(* calls, and keep both.                                                   *)
(***************************************************************************)
EXTENDS StartupSafety, FiniteSetTheorems, SequenceTheorems

-----------------------------------------------------------------------------
(* The calls of a queue *)

(* The same calls wait in q and in r, in the same order. *)
SameCalls(q, r) ==
  /\ CallsIn(q) = CallsIn(r)
  /\ \A c, d \in Calls : Before(q, c, d) <=> Before(r, c, d)

(* Messages that are not calls. *)
Others == Messages \ {Call(c) : c \in Calls}

LEMMA CallsDiffer == \A c, d \in Calls : Call(c) = Call(d) => c = d
<1>1. \A c \in Calls : Call(c).call = c
  BY DEF Call
<1> QED BY <1>1

LEMMA OthersTyped ==
  /\ {NameAcquired, NameLost, OwnerChanged, Granted, Refused, MatchAdded} \subseteq Others
  /\ \A m \in Others, c \in Calls : m # Call(c)
BY MessagesDiffer, MessagesTyped DEF Others

(* A call that waits before another waits, and so does the other. *)
LEMMA BeforeWaits ==
  ASSUME NEW q \in Seq(Messages), NEW c \in Calls, NEW d \in Calls, Before(q, c, d)
  PROVE  c \in CallsIn(q) /\ d \in CallsIn(q)
BY DEF Before, CallsIn

(* A message that is no call is taken from somewhere in a queue. *)
LEMMA OtherTaken ==
  ASSUME NEW q \in Seq(Messages), NEW r \in Seq(Messages), NEW p \in DOMAIN q, q[p] \in Others,
         Len(r) = Len(q) - 1,
         \A k \in DOMAIN r : r[k] = IF k < p THEN q[k] ELSE q[k + 1]
  PROVE  SameCalls(r, q)
<1>1. \A c \in Calls : q[p] # Call(c)
  BY OthersTyped
<1>2. ASSUME NEW k \in DOMAIN q, k # p
      PROVE  \E j \in DOMAIN r : r[j] = q[k] /\ j = IF k < p THEN k ELSE k - 1
  <2>1. CASE k < p
    BY <2>1
  <2>2. CASE k > p
    <3>1. k - 1 \in DOMAIN r /\ ~(k - 1 < p) /\ (k - 1) + 1 = k
      BY <2>2
    <3> QED BY <2>2, <3>1
  <2> QED BY <1>2, <2>1, <2>2
<1>3. ASSUME NEW k \in DOMAIN r
      PROVE  \E j \in DOMAIN q : q[j] = r[k] /\ j = IF k < p THEN k ELSE k + 1
  <2>1. CASE k < p
    BY <2>1
  <2>2. CASE ~(k < p)
    BY <2>2
  <2> QED BY <2>1, <2>2
<1>4. \A c \in Calls : (\E k \in DOMAIN r : r[k] = Call(c)) <=> (\E k \in DOMAIN q : q[k] = Call(c))
  BY <1>1, <1>2, <1>3
<1>5. ASSUME NEW c \in Calls, NEW d \in Calls, Before(q, c, d)  PROVE Before(r, c, d)
  <2>1. PICK k \in DOMAIN q, l \in DOMAIN q : k < l /\ q[k] = Call(c) /\ q[l] = Call(d)
    BY <1>5 DEF Before
  <2>2. k # p /\ l # p
    BY <1>1, <2>1
  <2>3. PICK i \in DOMAIN r : r[i] = q[k] /\ i = IF k < p THEN k ELSE k - 1
    BY <1>2, <2>2
  <2>4. PICK j \in DOMAIN r : r[j] = q[l] /\ j = IF l < p THEN l ELSE l - 1
    BY <1>2, <2>2
  <2>5. i < j
    BY <2>1, <2>2, <2>3, <2>4
  <2> QED BY <2>1, <2>3, <2>4, <2>5 DEF Before
<1>6. ASSUME NEW c \in Calls, NEW d \in Calls, Before(r, c, d)  PROVE Before(q, c, d)
  <2>1. PICK k \in DOMAIN r, l \in DOMAIN r : k < l /\ r[k] = Call(c) /\ r[l] = Call(d)
    BY <1>6 DEF Before
  <2>2. PICK i \in DOMAIN q : q[i] = r[k] /\ i = IF k < p THEN k ELSE k + 1
    BY <1>3
  <2>3. PICK j \in DOMAIN q : q[j] = r[l] /\ j = IF l < p THEN l ELSE l + 1
    BY <1>3
  <2>4. i < j
    BY <2>1, <2>2, <2>3
  <2> QED BY <2>1, <2>2, <2>3, <2>4 DEF Before
<1> QED BY <1>4, <1>5, <1>6 DEF SameCalls, CallsIn

(* Messages that are no calls arrive behind a queue. *)
LEMMA OthersAdded ==
  ASSUME NEW q \in Seq(Messages), NEW r \in Seq(Others)
  PROVE  q \o r \in Seq(Messages) /\ SameCalls(q \o r, q)
<1>1. /\ q \o r \in Seq(Messages)
      /\ Len(q \o r) = Len(q) + Len(r)
      /\ \A k \in DOMAIN q : k \in DOMAIN (q \o r) /\ (q \o r)[k] = q[k]
  BY DEF Others
<1>2. ASSUME NEW k \in DOMAIN (q \o r), NEW c \in Calls, (q \o r)[k] = Call(c)
      PROVE  k \in DOMAIN q /\ q[k] = Call(c)
  <2>1. CASE k <= Len(q)
    BY <1>1, <1>2, <2>1
  <2>2. CASE k > Len(q)
    <3>1. k - Len(q) \in DOMAIN r /\ r[k - Len(q)] = (q \o r)[k]
      BY <1>1, <2>2
    <3>2. r[k - Len(q)] \in Others
      BY <3>1
    <3> QED BY <1>2, <3>1, <3>2, OthersTyped
  <2> QED BY <1>1, <2>1, <2>2
<1> QED BY <1>1, <1>2 DEF SameCalls, CallsIn, Before

(* A call arrives behind a queue. *)
LEMMA CallAdded ==
  ASSUME NEW q \in Seq(Messages), NEW c \in Calls
  PROVE  /\ CallsIn(Append(q, Call(c))) = CallsIn(q) \cup {c}
         /\ \A d, e \in Calls : Before(Append(q, Call(c)), d, e)
                                  <=> Before(q, d, e) \/ (e = c /\ d \in CallsIn(q))
<1> DEFINE r == Append(q, Call(c))
<1>1. /\ DOMAIN r = DOMAIN q \cup {Len(q) + 1}
      /\ \A k \in DOMAIN q : r[k] = q[k] /\ k < Len(q) + 1
      /\ r[Len(q) + 1] = Call(c)
  <2>1. Call(c) \in Messages
    BY MessagesTyped
  <2> QED BY <2>1
<1>2. \A k, l \in DOMAIN r : k < l => k \in DOMAIN q
  BY <1>1
<1> HIDE DEF r
<1>3. CallsIn(r) = CallsIn(q) \cup {c}
  BY <1>1, CallsDiffer DEF CallsIn
<1>4. ASSUME NEW d \in Calls, NEW e \in Calls
      PROVE  Before(r, d, e) <=> Before(q, d, e) \/ (e = c /\ d \in CallsIn(q))
  <2>1. ASSUME Before(r, d, e)  PROVE Before(q, d, e) \/ (e = c /\ d \in CallsIn(q))
    <3>1. PICK k \in DOMAIN r, l \in DOMAIN r : k < l /\ r[k] = Call(d) /\ r[l] = Call(e)
      BY <2>1 DEF Before
    <3>2. k \in DOMAIN q /\ q[k] = Call(d)
      BY <1>1, <1>2, <3>1
    <3>3. CASE l \in DOMAIN q
      BY <1>1, <3>1, <3>2, <3>3 DEF Before
    <3>4. CASE l = Len(q) + 1
      BY <1>1, <3>1, <3>2, <3>4, CallsDiffer DEF CallsIn
    <3> QED BY <1>1, <3>3, <3>4
  <2>2. ASSUME Before(q, d, e)  PROVE Before(r, d, e)
    BY <1>1, <2>2 DEF Before
  <2>3. ASSUME d \in CallsIn(q)  PROVE Before(r, d, c)
    BY <1>1, <2>3 DEF Before, CallsIn
  <2> QED BY <2>1, <2>2, <2>3
<1> QED BY <1>3, <1>4 DEF r

(* The oldest message of a queue is taken, and it is a call. *)
LEMMA CallTaken ==
  ASSUME NEW q \in Seq(Messages), q # <<>>, NEW c \in Calls, Head(q) = Call(c), ~Before(q, c, c)
  PROVE  /\ CallsIn(Tail(q)) = CallsIn(q) \ {c}
         /\ c \in CallsIn(q)
         /\ \A d \in Calls : ~Before(q, d, c)
         /\ \A d, e \in Calls : Before(Tail(q), d, e) => Before(q, d, e)
         /\ \A d, e \in Calls : d # c /\ Before(q, d, e) => Before(Tail(q), d, e)
<1>1. /\ 1 \in DOMAIN q /\ q[1] = Call(c)
      /\ \A k \in DOMAIN Tail(q) : Tail(q)[k] = q[k + 1] /\ k + 1 \in DOMAIN q /\ 1 < k + 1
      /\ \A k \in DOMAIN q : k = 1 \/ (1 < k /\ k - 1 \in DOMAIN Tail(q) /\ Tail(q)[k - 1] = q[k])
  OBVIOUS
<1>2. \A k \in DOMAIN q : 1 < k => q[k] # Call(c)
  BY <1>1 DEF Before
<1>3. CallsIn(Tail(q)) = CallsIn(q) \ {c}
  <2>1. ASSUME NEW d \in CallsIn(Tail(q))  PROVE d \in CallsIn(q) \ {c}
    BY <1>1, <1>2, <2>1 DEF CallsIn
  <2>2. ASSUME NEW d \in CallsIn(q), d # c  PROVE d \in CallsIn(Tail(q))
    BY <1>1, <2>2, CallsDiffer DEF CallsIn
  <2> QED BY <2>1, <2>2
<1>4. ASSUME NEW d \in Calls  PROVE ~Before(q, d, c)
  BY <1>1, <1>2 DEF Before
<1>5. ASSUME NEW d \in Calls, NEW e \in Calls, Before(Tail(q), d, e)  PROVE Before(q, d, e)
  <2>1. PICK k \in DOMAIN Tail(q), l \in DOMAIN Tail(q) :
          k < l /\ Tail(q)[k] = Call(d) /\ Tail(q)[l] = Call(e)
    BY <1>5 DEF Before
  <2>2. k + 1 < l + 1
    BY <2>1
  <2> QED BY <1>1, <2>1, <2>2 DEF Before
<1>6. ASSUME NEW d \in Calls, NEW e \in Calls, d # c, Before(q, d, e)  PROVE Before(Tail(q), d, e)
  <2>1. PICK k \in DOMAIN q, l \in DOMAIN q : k < l /\ q[k] = Call(d) /\ q[l] = Call(e)
    BY <1>6 DEF Before
  <2>2. k # 1 /\ l # 1
    BY <1>1, <1>6, <2>1, CallsDiffer
  <2>3. k - 1 < l - 1
    BY <2>1
  <2> QED BY <1>1, <2>1, <2>2, <2>3 DEF Before
<1>7. c \in CallsIn(q)
  BY <1>1 DEF CallsIn
<1> QED BY <1>3, <1>4, <1>5, <1>6, <1>7

-----------------------------------------------------------------------------
(* The invariant, and the steps that leave the calls alone *)

LEMMA QueuesTyped ==
  ASSUME NameInv
  PROVE  \A j \in Instances : Queued(j) \in Seq(Messages)
BY DEF NameInv, TypeOK, Queued

LEMMA CallsInit == Init => CallsInv
<1> SUFFICES ASSUME Init  PROVE CallsInv
  OBVIOUS
<1>1. /\ \A i \in Instances : Queued(i) = <<>> /\ DOMAIN Queued(i) = {} /\ delivered[i] = <<>>
                              /\ DOMAIN delivered[i] = {}
      /\ \A c \in Calls : status[c] = "new"
      /\ activation = <<>> /\ DOMAIN activation = {}
  BY DEF Init, Queued
<1>2. SentCallsWait
  BY <1>1 DEF SentCallsWait, Before, CallsIn, Range
<1>3. SentOnce /\ PendingCallsWait
  BY <1>1 DEF SentOnce, PendingCallsWait, IsInjective, Range
<1>4. \A i \in Instances : InOrder(i)
  BY <1>1 DEF InOrder
<1> QED BY <1>1, <1>2, <1>3, <1>4 DEF CallsInv

(* What keeps the order of the calls sent to one instance. *)
LEMMA OrderKept ==
  ASSUME NameInv, CallsInv, NEW i \in Instances,
         delivered'[i] = delivered[i],
         \A c \in Range(delivered[i]) : status'[c] = status[c],
         SameCalls(Queued(i)', Queued(i)),
         stage[i] = "gone" => stage'[i] = "gone"
  PROVE  InOrder(i)'
<1>1. delivered[i] \in Seq(Calls)
  BY DEF NameInv, TypeOK
<1>2. \A n \in DOMAIN delivered[i] :
        /\ delivered[i][n] \in Calls /\ status'[delivered[i][n]] = status[delivered[i][n]]
        /\ \A m \in 1..(n - 1) : m \in DOMAIN delivered[i]
  BY <1>1 DEF Range
<1>3. \A c, d \in Calls : Before(Queued(i)', c, d) <=> Before(Queued(i), c, d)
  BY DEF SameCalls
<1>4. InOrder(i)
  BY DEF CallsInv
<1> QED BY <1>2, <1>3, <1>4 DEF InOrder

(* Only messages that are no calls move. *)
LEMMA CallsUntouched ==
  ASSUME NameInv, CallsInv, UNCHANGED <<activation, status, delivered>>,
         \A j \in Instances :
           /\ SameCalls(Queued(j)', Queued(j))
           /\ stage'[j] \in {"new", "configured"} => stage[j] \in {"new", "configured"}
           /\ stage[j] = "gone" => stage'[j] = "gone"
  PROVE  CallsInv'
<1>1. \A j \in Instances :
        /\ CallsIn(Queued(j)') = CallsIn(Queued(j))
        /\ \A c, d \in Calls : Before(Queued(j)', c, d) <=> Before(Queued(j), c, d)
  BY DEF SameCalls
<1>2. \A j \in Instances : stage'[j] \in {"new", "configured"} => delivered'[j] = <<>>
  BY DEF CallsInv
<1>3. SentCallsWait'
  BY <1>1 DEF CallsInv, SentCallsWait
<1>4. SentOnce' /\ PendingCallsWait'
  BY DEF CallsInv, SentOnce, PendingCallsWait
<1>5. \A i \in Instances : InOrder(i)'
  BY OrderKept
<1> QED BY <1>2, <1>3, <1>4, <1>5 DEF CallsInv

(* What does not touch a queue keeps its calls. *)
LEMMA SameQueue ==
  ASSUME NEW j \in Instances, socket'[j] = socket[j], rqueue'[j] = rqueue[j]
  PROVE  SameCalls(Queued(j)', Queued(j))
BY DEF SameCalls, Queued

(* Joining queues is associative. *)
LEMMA Joining ==
  ASSUME NEW q \in Seq(Messages), NEW r \in Seq(Messages), NEW t \in Seq(Messages)
  PROVE  (q \o r) \o t = q \o (r \o t)
BY ConcatAssociative

(* The bus writes something other than a call to a socket. *)
LEMMA SocketPosted ==
  ASSUME NameInv, NEW j \in Instances, NEW r \in Seq(Others),
         rqueue'[j] = rqueue[j], socket'[j] = socket[j] \o r
  PROVE  SameCalls(Queued(j)', Queued(j))
<1>1. rqueue[j] \in Seq(Messages) /\ socket[j] \in Seq(Messages) /\ r \in Seq(Messages)
  BY DEF NameInv, TypeOK, Others
<1>2. (rqueue[j] \o socket[j]) \o r = rqueue[j] \o (socket[j] \o r)
  BY <1>1, Joining
<1>3. Queued(j)' = Queued(j) \o r
  BY <1>2 DEF Queued
<1> QED BY <1>3, QueuesTyped, OthersAdded

LEMMA OnePosted ==
  ASSUME NameInv, NEW j \in Instances, NEW m \in Others,
         rqueue'[j] = rqueue[j], socket'[j] = Append(socket[j], m)
  PROVE  SameCalls(Queued(j)', Queued(j))
<1>1. socket[j] \in Seq(Messages)
  BY DEF NameInv, TypeOK
<1>2. Append(socket[j], m) = socket[j] \o <<m>> /\ <<m>> \in Seq(Others)
  BY <1>1
<1> QED BY <1>2, SocketPosted

(* Where the messages of two queues are when the queues are joined. *)
LEMMA JoinedItems ==
  ASSUME NEW q \in Seq(Messages), NEW r \in Seq(Messages)
  PROVE  /\ q \o r \in Seq(Messages) /\ Len(q \o r) = Len(q) + Len(r)
         /\ \A k \in 1..Len(q) : (q \o r)[k] = q[k]
         /\ \A k \in 1..Len(r) : (q \o r)[Len(q) + k] = r[k]
<1>1. /\ q \o r \in Seq(Messages) /\ Len(q \o r) = Len(q) + Len(r)
      /\ \A k \in 1..Len(q) : (q \o r)[k] = q[k]
  OBVIOUS
<1>2. ASSUME NEW k \in 1..Len(r)
      PROVE  (q \o r)[Len(q) + k] = r[k]
  BY <1>2
<1> QED BY <1>1, <1>2

(* What follows a message of a queue. *)
LEMMA QueueRest ==
  ASSUME NEW q \in Seq(Messages), NEW n \in DOMAIN q
  PROVE  /\ SubSeq(q, n + 1, Len(q)) \in Seq(Messages)
         /\ Len(SubSeq(q, n + 1, Len(q))) = Len(q) - n
         /\ \A k \in 1..(Len(q) - n) : SubSeq(q, n + 1, Len(q))[k] = q[n + k]
<1>1. Len(q) - n \in Nat
  OBVIOUS
<1>2. /\ SubSeq(q, n + 1, Len(q)) \in Seq(Messages)
      /\ DOMAIN SubSeq(q, n + 1, Len(q)) = 1..(Len(q) - n)
      /\ \A k \in 1..(Len(q) - n) : SubSeq(q, n + 1, Len(q))[k] = q[n + k]
  OBVIOUS
<1> QED BY <1>1, <1>2

(* A synchronous call takes its reply and sets aside what precedes it.     *)
LEMMA ReplyTakenOnly ==
  ASSUME NameInv, NEW i \in Instances, NEW reply \in Others, TakesReply(i, reply)
  PROVE  \A j \in Instances : SameCalls(Queued(j)', Queued(j))
<1>1. PICK n \in DOMAIN socket[i] :
        /\ socket[i][n] = reply
        /\ rqueue' = [rqueue EXCEPT ![i] = @ \o SubSeq(socket[i], 1, n - 1)]
        /\ socket' = [socket EXCEPT ![i] = SubSeq(@, n + 1, Len(@))]
  BY DEF TakesReply
<1>2. /\ socket \in [Instances -> Seq(Messages)] /\ rqueue \in [Instances -> Seq(Messages)]
      /\ socket[i] \in Seq(Messages) /\ rqueue[i] \in Seq(Messages)
  BY DEF NameInv, TypeOK
<1>3. \A j \in Instances \ {i} : SameCalls(Queued(j)', Queued(j))
  BY <1>1, <1>2, SameQueue
<1> DEFINE s == rqueue[i]
           q == socket[i]
           before == SubSeq(q, 1, n - 1)
           after == SubSeq(q, n + 1, Len(q))
<1>4. Queued(i) = s \o q /\ Queued(i)' = (s \o before) \o after /\ q[n] = reply /\ n \in DOMAIN q
      /\ s \in Seq(Messages) /\ q \in Seq(Messages)
  BY <1>1, <1>2 DEF Queued
<1> HIDE DEF s, q
<1>5. /\ before \in Seq(Messages) /\ Len(before) = n - 1
      /\ \A k \in 1..(n - 1) : before[k] = q[k]
  BY <1>4
<1>6. /\ after \in Seq(Messages) /\ Len(after) = Len(q) - n
      /\ \A k \in 1..(Len(q) - n) : after[k] = q[n + k]
  BY <1>4, QueueRest
<1> HIDE DEF before, after
<1>7. /\ s \o before \in Seq(Messages) /\ Len(s \o before) = Len(s) + (n - 1)
      /\ \A k \in 1..Len(s) : (s \o before)[k] = s[k]
      /\ \A k \in 1..(n - 1) : (s \o before)[Len(s) + k] = q[k]
  <2>1. s \in Seq(Messages) /\ before \in Seq(Messages)
    BY <1>4, <1>5
  <2>2. /\ s \o before \in Seq(Messages) /\ Len(s \o before) = Len(s) + Len(before)
        /\ \A k \in 1..Len(s) : (s \o before)[k] = s[k]
        /\ \A k \in 1..Len(before) : (s \o before)[Len(s) + k] = before[k]
    BY <2>1, JoinedItems, Zenon
  <2> QED BY <1>5, <2>2
<1>11. Len(s) \in Nat /\ Len(q) \in Nat /\ n \in 1..Len(q)
  BY <1>4
<1> DEFINE old == s \o q
           first == s \o before
           new == first \o after
           p == Len(s) + n
<1>8. /\ old \in Seq(Messages) /\ Len(old) = Len(s) + Len(q)
      /\ p \in DOMAIN old /\ old[p] = reply
      /\ \A k \in 1..Len(s) : old[k] = s[k]
      /\ \A k \in 1..Len(q) : old[Len(s) + k] = q[k]
  BY <1>4
<1> HIDE DEF first
<1>9. first \in Seq(Messages) /\ Len(first) = p - 1
  BY <1>4, <1>7 DEF first
<1> HIDE DEF old
<1>10. /\ new \in Seq(Messages) /\ Len(new) = Len(old) - 1
       /\ \A k \in 1..Len(first) : new[k] = first[k]
       /\ \A k \in 1..Len(after) : new[Len(first) + k] = after[k]
  <2>1. /\ new \in Seq(Messages) /\ Len(new) = Len(first) + Len(after)
        /\ \A k \in 1..Len(first) : new[k] = first[k]
        /\ \A k \in 1..Len(after) : new[Len(first) + k] = after[k]
    <3>1. new \in Seq(Messages) /\ Len(new) = Len(first) + Len(after)
      BY <1>6, <1>9
    <3>2. \A k \in 1..Len(first) : new[k] = first[k]
      BY <1>6, <1>9
    <3>3. \A k \in 1..Len(after) : new[Len(first) + k] = after[k]
      BY <1>6, <1>9
    <3> QED BY <3>1, <3>2, <3>3
  <2>2. Len(first) + Len(after) = Len(old) - 1
    BY <1>6, <1>8, <1>9, <1>11
  <2> QED BY <2>1, <2>2
<1> HIDE DEF new
<1>12. ASSUME NEW k \in DOMAIN new  PROVE new[k] = IF k < p THEN old[k] ELSE old[k + 1]
  <2>1. k \in 1..(Len(s) + Len(q) - 1) /\ Len(first) = Len(s) + n - 1
    BY <1>4, <1>8, <1>9, <1>10, <1>11
  <2>2. CASE k < p
    <3>1. k \in 1..Len(first) /\ new[k] = first[k]
      BY <1>10, <1>11, <2>1, <2>2
    <3>2. CASE k <= Len(s)
      <4>1. k \in 1..Len(s)
        BY <1>11, <2>1, <3>2
      <4>2. first[k] = s[k] /\ old[k] = s[k]
        BY <1>7, <1>8, <4>1 DEF first
      <4> QED BY <2>2, <3>1, <4>2
    <3>3. CASE k > Len(s)
      <4>1. k - Len(s) \in 1..(n - 1) /\ k - Len(s) \in 1..Len(q) /\ Len(s) + (k - Len(s)) = k
        BY <1>11, <2>1, <2>2, <3>3
      <4>2. first[Len(s) + (k - Len(s))] = q[k - Len(s)] /\ old[Len(s) + (k - Len(s))] = q[k - Len(s)]
        BY <1>7, <1>8, <4>1 DEF first
      <4> QED BY <2>2, <3>1, <4>1, <4>2
    <3> QED BY <1>11, <2>1, <3>2, <3>3
  <2>3. CASE ~(k < p)
    <3>1. k - Len(first) \in 1..Len(after) /\ Len(first) + (k - Len(first)) = k
      BY <1>6, <1>11, <2>1, <2>3
    <3>2. new[k] = after[k - Len(first)] /\ after[k - Len(first)] = q[n + (k - Len(first))]
      BY <1>6, <1>10, <3>1
    <3>3. n + (k - Len(first)) \in 1..Len(q) /\ Len(s) + (n + (k - Len(first))) = k + 1
      <4>1. k \in Int /\ k - Len(first) = k - Len(s) - n + 1
        BY <1>11, <2>1
      <4>2. k - Len(first) >= 1 /\ k - Len(first) <= Len(q) - n
        BY <1>6, <1>11, <3>1
      <4> QED BY <1>11, <4>1, <4>2
    <3>4. old[k + 1] = q[n + (k - Len(first))]
      BY <1>8, <3>3
    <3> QED BY <2>3, <3>2, <3>4
  <2> QED BY <2>2, <2>3
<1>13. SameCalls(new, old)
  <2>1. p \in DOMAIN old /\ old[p] \in Others
    BY <1>8
  <2> HIDE DEF p
  <2> QED BY <1>8, <1>10, <1>12, <2>1, OtherTaken
<1>14. SameCalls(Queued(i)', Queued(i))
  BY <1>4, <1>13 DEF old, new, first
<1> QED BY <1>3, <1>14

(* sd_bus_process takes the oldest message. *)
LEMMA HeadTaken ==
  ASSUME NameInv, NEW i \in Instances, NEW m, dbus_event_handler(i, m)
  PROVE  /\ Queued(i) # <<>>
         /\ Head(Queued(i)) = m
         /\ Queued(i)' = Tail(Queued(i))
         /\ \A j \in Instances \ {i} : Queued(j)' = Queued(j)
<1> DEFINE s == rqueue[i]
           q == socket[i]
<1>1. /\ socket \in [Instances -> Seq(Messages)] /\ rqueue \in [Instances -> Seq(Messages)]
      /\ s \in Seq(Messages) /\ q \in Seq(Messages)
  BY DEF NameInv, TypeOK
<1>2. Queued(i) = s \o q /\ q # <<>> /\ m = Head(s \o q)
  BY DEF dbus_event_handler, Queued
<1>3. \A j \in Instances \ {i} : Queued(j)' = Queued(j)
  BY <1>1 DEF dbus_event_handler, Queued
<1>4. CASE s # <<>>
  <2>1. Queued(i)' = Tail(s) \o q
    BY <1>1, <1>4 DEF dbus_event_handler, Queued
  <2> HIDE DEF s, q
  <2>2. Tail(s \o q) = Tail(s) \o q
    BY <1>1, <1>4
  <2>3. s \o q # <<>>
    BY <1>1, <1>4
  <2> QED BY <1>2, <1>3, <2>1, <2>2, <2>3
<1>5. CASE s = <<>>
  <2>1. Queued(i)' = <<>> \o Tail(q)
    BY <1>1, <1>5 DEF dbus_event_handler, Queued
  <2> HIDE DEF s, q
  <2>2. Tail(s \o q) = <<>> \o Tail(q)
    BY <1>1, <1>2, <1>5
  <2>3. s \o q # <<>>
    BY <1>1, <1>2, <1>5
  <2> QED BY <1>2, <1>3, <2>1, <2>2, <2>3
<1> QED BY <1>4, <1>5

(* A message that is no call has no effect on the calls behind it. *)
LEMMA OtherHandled ==
  ASSUME NameInv, NEW i \in Instances, NEW m \in Others, dbus_event_handler(i, m)
  PROVE  \A j \in Instances : SameCalls(Queued(j)', Queued(j))
<1> DEFINE q == Queued(i)
           r == Tail(q)
<1>1. /\ q \in Seq(Messages) /\ q # <<>> /\ Head(q) = m /\ Queued(i)' = r
      /\ \A j \in Instances \ {i} : Queued(j)' = Queued(j)
  BY HeadTaken, QueuesTyped
<1> HIDE DEF q
<1>2. /\ r \in Seq(Messages) /\ 1 \in DOMAIN q /\ q[1] \in Others
      /\ Len(r) = Len(q) - 1
      /\ \A k \in DOMAIN r : r[k] = IF k < 1 THEN q[k] ELSE q[k + 1]
  BY <1>1
<1> HIDE DEF r
<1>3. SameCalls(r, q)
  BY <1>1, <1>2, OtherTaken
<1>4. \A j \in Instances \ {i} : SameCalls(Queued(j)', Queued(j))
  BY <1>1 DEF SameCalls
<1> QED BY <1>1, <1>3, <1>4 DEF q

(* Start-up, the signals of the bus and the end of the loop. *)
LEMMA CallsStay ==
  ASSUME NameInv, CallsInv, NEW i \in Instances,
         \/ config_init(i) \/ NameGranted(i) \/ sd_bus_add_match(i) \/ pollen_loop_run(i)
         \/ handle_name_lost(i) \/ OtherSignal(i)
         \/ sd_bus_request_name(i) /\ RefuseName(i)
  PROVE  CallsInv'
<1>1. UNCHANGED <<activation, status, delivered>>
  BY DEF config_init, NameGranted, sd_bus_add_match, pollen_loop_run, handle_name_lost,
         OtherSignal, sd_bus_request_name, RefuseName, busVars, callVars
<1>2. \A j \in Instances :
        /\ stage'[j] \in {"new", "configured"} => stage[j] \in {"new", "configured"}
        /\ stage[j] = "gone" => stage'[j] = "gone"
  <2>1. stage \in [Instances -> Stages]
    BY DEF NameInv, TypeOK
  <2> QED BY <2>1 DEF config_init, NameGranted, sd_bus_add_match, pollen_loop_run,
             handle_name_lost, OtherSignal, sd_bus_request_name, dbus_event_handler, Enters
<1>3. \A j \in Instances : SameCalls(Queued(j)', Queued(j))
  <2>1. /\ socket \in [Instances -> Seq(Messages)]
        /\ {NameAcquired, NameLost, OwnerChanged, Granted, Refused, MatchAdded} \subseteq Others
    BY OthersTyped DEF NameInv, TypeOK
  <2>2. CASE config_init(i)
    BY <2>2, SameQueue DEF config_init, busVars
  <2>3. CASE NameGranted(i) \/ pollen_loop_run(i)
    BY <2>1, <2>3, ReplyTakenOnly DEF NameGranted, pollen_loop_run
  <2>4. CASE handle_name_lost(i) \/ OtherSignal(i)
    BY <2>1, <2>4, OtherHandled DEF handle_name_lost, OtherSignal
  <2>5. ASSUME NEW m \in Others, socket' = [socket EXCEPT ![i] = Append(@, m)], rqueue' = rqueue
        PROVE  \A j \in Instances : SameCalls(Queued(j)', Queued(j))
    <3>1. \A j \in Instances \ {i} : SameCalls(Queued(j)', Queued(j))
      BY <2>1, <2>5, SameQueue
    <3>2. SameCalls(Queued(i)', Queued(i))
      BY <2>1, <2>5, OnePosted
    <3> QED BY <3>1, <3>2
  <2>6. CASE sd_bus_add_match(i)
    BY <2>1, <2>5, <2>6 DEF sd_bus_add_match
  <2>7. CASE sd_bus_request_name(i) /\ RefuseName(i)
    BY <2>1, <2>5, <2>7 DEF sd_bus_request_name, RefuseName
  <2> QED BY <2>2, <2>3, <2>4, <2>6, <2>7
<1> QED BY <1>1, <1>2, <1>3, CallsUntouched

-----------------------------------------------------------------------------
(* The steps that move calls *)

(* The picker of the oldest call is started. *)
LEMMA MethodCallOnce ==
  ASSUME NameInv, CallsInv, NEW i \in Instances, NEW c \in Calls, MethodCall(i, c)
  PROVE  CallsInv'
<1>1. /\ dbus_event_handler(i, Call(c))
      /\ status' = [status EXCEPT ![c] = "handled"]
      /\ UNCHANGED <<stage, activation, delivered>>
  BY DEF MethodCall
<1>2. /\ status \in [Calls -> CallStates]
      /\ \A j \in Instances : delivered[j] \in Seq(Calls)
  BY DEF NameInv, TypeOK
<1> DEFINE q == Queued(i)
<1>3. /\ q \in Seq(Messages) /\ q # <<>> /\ Head(q) = Call(c) /\ Queued(i)' = Tail(q)
      /\ \A j \in Instances \ {i} : Queued(j)' = Queued(j)
  BY <1>1, HeadTaken, QueuesTyped
<1>4. ~Before(q, c, c)
  BY DEF CallsInv, SentCallsWait
<1>5. /\ CallsIn(Tail(q)) = CallsIn(q) \ {c}
      /\ c \in CallsIn(q)
      /\ \A d \in Calls : ~Before(q, d, c)
      /\ \A d, e \in Calls : Before(Tail(q), d, e) => Before(q, d, e)
      /\ \A d, e \in Calls : d # c /\ Before(q, d, e) => Before(Tail(q), d, e)
  <2> HIDE DEF q
  <2> QED BY <1>3, <1>4, CallTaken
<1>6. /\ c \in Range(delivered[i]) /\ status[c] = "sent"
      /\ \A j \in Instances : c \in Range(delivered[j]) => j = i
  BY <1>5 DEF CallsInv, SentCallsWait, SentOnce
<1>7. \A d \in Calls : status'[d] = IF d = c THEN "handled" ELSE status[d]
  BY <1>1, <1>2
<1>8. ASSUME NEW j \in Instances
      PROVE  /\ CallsIn(Queued(j)') = CallsIn(Queued(j)) \ {c}
             /\ \A d, e \in Calls : Before(Queued(j)', d, e) => Before(Queued(j), d, e)
             /\ \A d, e \in Calls : d # c /\ Before(Queued(j), d, e) => Before(Queued(j)', d, e)
  <2>1. CASE j = i
    BY <1>3, <1>5, <2>1
  <2>2. CASE j # i
    <3>1. c \notin CallsIn(Queued(j)) /\ Queued(j)' = Queued(j)
      BY <1>3, <1>6, <2>2 DEF CallsInv, SentCallsWait
    <3> QED BY <3>1
  <2> QED BY <2>1, <2>2
<1>9. SentCallsWait'
  <2>1. ASSUME NEW j \in Instances, NEW d \in Calls  PROVE ~Before(Queued(j)', d, d)
    BY <1>8 DEF CallsInv, SentCallsWait
  <2>2. ASSUME NEW j \in Instances, NEW d \in Calls
        PROVE  d \in CallsIn(Queued(j)') <=> d \in Range(delivered'[j]) /\ status'[d] = "sent"
    BY <1>1, <1>7, <1>8 DEF CallsInv, SentCallsWait
  <2>3. ASSUME NEW d \in Calls, status'[d] = "sent"
        PROVE  \E j \in Instances : d \in CallsIn(Queued(j)')
    BY <1>7, <1>8, <2>3 DEF CallsInv, SentCallsWait
  <2> QED BY <2>1, <2>2, <2>3 DEF SentCallsWait
<1>10. SentOnce' /\ PendingCallsWait'
  <2>1. \A j \in Instances : \A d \in Range(delivered[j]) : d \in Calls
    BY <1>2 DEF Range
  <2> QED BY <1>1, <1>6, <1>7, <2>1 DEF CallsInv, SentOnce, PendingCallsWait
<1>11. \A j \in Instances : InOrder(j)'
  <2> SUFFICES ASSUME NEW j \in Instances, NEW n \in DOMAIN delivered[j]
               PROVE  /\ status'[delivered[j][n]] = "failed" => stage[j] = "gone"
                      /\ \A m \in 1..(n - 1) :
                           /\ status'[delivered[j][n]] = "handled"
                                => status'[delivered[j][m]] = "handled"
                           /\ status'[delivered[j][n]] = "sent" =>
                                \/ status'[delivered[j][m]] = "handled"
                                \/ /\ status'[delivered[j][m]] = "sent"
                                   /\ Before(Queued(j)', delivered[j][m], delivered[j][n])
    BY <1>1 DEF InOrder
  <2>1. /\ delivered[j][n] \in Calls
        /\ \A m \in 1..(n - 1) : delivered[j][m] \in Calls /\ m \in DOMAIN delivered[j]
    BY <1>2
  <2>2. /\ status[delivered[j][n]] = "failed" => stage[j] = "gone"
        /\ \A m \in 1..(n - 1) :
             /\ status[delivered[j][n]] = "handled" => status[delivered[j][m]] = "handled"
             /\ status[delivered[j][n]] = "sent" =>
                  \/ status[delivered[j][m]] = "handled"
                  \/ /\ status[delivered[j][m]] = "sent"
                     /\ Before(Queued(j), delivered[j][m], delivered[j][n])
    BY DEF CallsInv, InOrder
  <2>3. status'[delivered[j][n]] = "failed" => stage[j] = "gone"
    BY <1>7, <2>1, <2>2
  <2>4. ASSUME NEW m \in 1..(n - 1), status'[delivered[j][n]] = "handled"
        PROVE  status'[delivered[j][m]] = "handled"
    <3>1. CASE delivered[j][n] # c
      BY <1>7, <2>1, <2>2, <2>4, <3>1
    <3>2. CASE delivered[j][n] = c
      <4>1. j = i
        BY <1>6, <3>2 DEF Range
      <4>2. ~Before(Queued(j), delivered[j][m], c)
        BY <1>5, <2>1, <4>1
      <4> QED BY <1>6, <1>7, <2>1, <2>2, <3>2, <4>2
    <3> QED BY <3>1, <3>2
  <2>5. ASSUME NEW m \in 1..(n - 1), status'[delivered[j][n]] = "sent"
        PROVE  \/ status'[delivered[j][m]] = "handled"
               \/ /\ status'[delivered[j][m]] = "sent"
                  /\ Before(Queued(j)', delivered[j][m], delivered[j][n])
    <3>1. delivered[j][n] # c /\ status[delivered[j][n]] = "sent"
      BY <1>7, <2>1, <2>5
    <3>2. CASE delivered[j][m] = c
      BY <1>7, <2>1, <3>2
    <3>3. CASE delivered[j][m] # c
      BY <1>7, <1>8, <2>1, <2>2, <3>1, <3>3
    <3> QED BY <3>2, <3>3
  <2> QED BY <2>3, <2>4, <2>5
<1>12. \A j \in Instances : stage'[j] \in {"new", "configured"} => delivered'[j] = <<>>
  BY <1>1 DEF CallsInv
<1> QED BY <1>9, <1>10, <1>11, <1>12 DEF CallsInv

(* The queue of an instance that is given the name: the calls that waited  *)
(* for an owner, between the signal and the reply.                         *)
LEMMA GrantedQueue ==
  ASSUME NEW a \in Seq(Calls)
  PROVE  LET r == ((<<>> \o <<NameAcquired>>) \o [n \in DOMAIN a |-> Call(a[n])]) \o <<Granted>>
         IN
         /\ CallsIn(r) = Range(a)
         /\ \A c, d \in Calls : Before(r, c, d)
                                  <=> \E m, n \in DOMAIN a : m < n /\ a[m] = c /\ a[n] = d
<1> DEFINE b == [n \in DOMAIN a |-> Call(a[n])]
           first == (<<>> \o <<NameAcquired>>) \o b
           r == first \o <<Granted>>
<1>1. b \in Seq(Messages) /\ Len(b) = Len(a) /\ \A n \in DOMAIN a : b[n] = Call(a[n])
  <2>1. DOMAIN b = 1..Len(a) /\ Len(a) \in Nat /\ \A n \in 1..Len(a) : a[n] \in Calls
    OBVIOUS
  <2>2. \A n \in 1..Len(a) : b[n] \in Messages
    BY <2>1, MessagesTyped
  <2>3. b \in Seq(Messages)
    BY <2>1, <2>2
  <2> QED BY <2>1, <2>3
<1>2. NameAcquired \in Messages /\ Granted \in Messages
  BY MessagesTyped
<1> HIDE DEF b
<1>3. /\ first \in Seq(Messages) /\ Len(first) = Len(a) + 1 /\ first[1] = NameAcquired
      /\ \A n \in 1..Len(a) : first[1 + n] = b[n]
  BY <1>1, <1>2
<1> HIDE DEF first
<1>4. r = Append(first, Granted)
  BY <1>2, <1>3, AppendIsConcat
<1> HIDE DEF r
<1>5. /\ r \in Seq(Messages) /\ Len(r) = Len(a) + 2
      /\ r[1] = NameAcquired /\ r[Len(a) + 2] = Granted
      /\ \A n \in 1..Len(a) : r[1 + n] = Call(a[n])
  <2>1. /\ r \in Seq(Messages) /\ Len(r) = Len(first) + 1 /\ r[Len(first) + 1] = Granted
        /\ \A k \in 1..Len(first) : r[k] = first[k]
    BY <1>2, <1>3, <1>4, AppendProperties
  <2>2. Len(a) \in Nat
    OBVIOUS
  <2>3. ASSUME NEW n \in 1..Len(a)  PROVE r[1 + n] = Call(a[n])
    <3>1. 1 + n \in 1..Len(first)
      BY <1>3, <2>2
    <3>2. first[1 + n] = b[n] /\ b[n] = Call(a[n])
      BY <1>1, <1>3
    <3> QED BY <2>1, <3>1, <3>2
  <2>4. r[1] = NameAcquired /\ Len(first) + 1 = Len(a) + 2
    BY <1>3, <2>1, <2>2
  <2> QED BY <2>1, <2>3, <2>4
<1>6. \A c \in Calls : NameAcquired # Call(c) /\ Granted # Call(c)
  BY MessagesDiffer
<1>7. ASSUME NEW k \in DOMAIN r, NEW c \in Calls, r[k] = Call(c)
      PROVE  k - 1 \in DOMAIN a /\ a[k - 1] = c
  <2>1. k # 1 /\ k # Len(a) + 2
    BY <1>5, <1>6, <1>7
  <2>2. k - 1 \in 1..Len(a) /\ 1 + (k - 1) = k
    BY <1>5, <2>1
  <2>3. Call(a[k - 1]) = Call(c) /\ a[k - 1] \in Calls
    BY <1>5, <1>7, <2>2
  <2> QED BY <2>2, <2>3, CallsDiffer
<1>8. \A n \in DOMAIN a : 1 + n \in DOMAIN r /\ r[1 + n] = Call(a[n]) /\ a[n] \in Calls
  BY <1>5
<1>9. CallsIn(r) = Range(a)
  BY <1>7, <1>8 DEF CallsIn, Range
<1>10. ASSUME NEW c \in Calls, NEW d \in Calls, Before(r, c, d)
       PROVE  \E m, n \in DOMAIN a : m < n /\ a[m] = c /\ a[n] = d
  <2>1. PICK k \in DOMAIN r, l \in DOMAIN r : k < l /\ r[k] = Call(c) /\ r[l] = Call(d)
    BY <1>10 DEF Before
  <2>2. k - 1 \in DOMAIN a /\ a[k - 1] = c /\ l - 1 \in DOMAIN a /\ a[l - 1] = d
    BY <1>7, <2>1
  <2>3. k - 1 < l - 1
    BY <1>5, <2>1
  <2> QED BY <2>2, <2>3
<1>11. ASSUME NEW c \in Calls, NEW d \in Calls, NEW m \in DOMAIN a, NEW n \in DOMAIN a,
              m < n, a[m] = c, a[n] = d
       PROVE  Before(r, c, d)
  <2>1. 1 + m < 1 + n
    BY <1>11
  <2> QED BY <1>8, <1>11, <2>1 DEF Before
<1> QED BY <1>9, <1>10, <1>11 DEF r, first, b

(* The name changes hands: the calls that waited go to the new owner.      *)
LEMMA GrantNameOnce ==
  ASSUME NameInv, CallsInv, NEW i \in Instances, sd_bus_request_name(i), GrantName(i)
  PROVE  CallsInv'
<1>1. /\ stage[i] = "configured"
      /\ stage' = [stage EXCEPT ![i] = "requesting"]
      /\ activation' = <<>>
      /\ rqueue' = rqueue
  BY DEF sd_bus_request_name, Enters, GrantName
<1>2. /\ stage \in [Instances -> Stages] /\ activation \in Seq(Calls)
      /\ delivered \in [Instances -> Seq(Calls)]
  BY DEF NameInv, TypeOK
<1>3. socket[i] = <<>> /\ rqueue[i] = <<>> /\ delivered[i] = <<>> /\ i # owner
  BY <1>1 DEF NameInv, UntoldUntilAsking, OwnerIsConnected, CallsInv
<1>4. /\ delivered'[i] = activation
      /\ \A j \in Instances \ {i} : delivered'[j] = delivered[j]
  <2>1. delivered' = [delivered EXCEPT ![i] = @ \o activation]
    BY DEF GrantName
  <2>2. <<>> \o activation = activation
    BY <1>2, ConcatEmptySeq
  <2> QED BY <1>2, <1>3, <2>1, <2>2
<1>5. \A c \in Calls : status'[c] = IF status[c] = "pending" THEN "sent" ELSE status[c]
  BY DEF GrantName
<1>6. /\ CallsIn(Queued(i)') = Range(activation)
      /\ \A c, d \in Calls : Before(Queued(i)', c, d)
           <=> \E m, n \in DOMAIN activation : m < n /\ activation[m] = c /\ activation[n] = d
  <2> DEFINE r == ((<<>> \o <<NameAcquired>>) \o [n \in DOMAIN activation |-> Call(activation[n])])
                     \o <<Granted>>
  <2>1. socket'[i] = r
    BY <1>3 DEF GrantName
  <2>2. /\ CallsIn(r) = Range(activation)
        /\ \A c, d \in Calls : Before(r, c, d)
             <=> \E m, n \in DOMAIN activation : m < n /\ activation[m] = c /\ activation[n] = d
    BY <1>2, GrantedQueue
  <2>3. r \in Seq(Messages)
    BY <1>3, <2>1, GrantedSockets
  <2> HIDE DEF r
  <2>4. Queued(i)' = r
    BY <1>1, <1>3, <2>1, <2>3 DEF Queued
  <2> QED BY <2>2, <2>4
<1>7. ASSUME NEW j \in Instances \ {i}  PROVE SameCalls(Queued(j)', Queued(j))
  <2>1. CASE j # owner
    BY <1>1, <2>1, SameQueue DEF GrantName
  <2>2. CASE j = owner
    <3> DEFINE told == IF j \in matched THEN <<OwnerChanged>> ELSE <<>>
               lost == <<NameLost>>
               s == socket[j]
    <3>1. socket'[j] = (s \o lost) \o told /\ s \in Seq(Messages)
      BY <2>2 DEF GrantName, NameInv, TypeOK
    <3>2. told \in Seq(Others) /\ lost \in Seq(Others)
      BY OthersTyped
    <3> HIDE DEF told, lost, s
    <3>3. /\ lost \o told \in Seq(Others)
          /\ told \in Seq(Messages) /\ lost \in Seq(Messages)
      BY <3>2 DEF Others
    <3>4. socket'[j] = s \o (lost \o told)
      BY <3>1, <3>3, Joining
    <3> QED BY <1>1, <3>3, <3>4, SocketPosted DEF s
  <2> QED BY <2>1, <2>2
<1>8. /\ IsInjective(activation)
      /\ \A c \in Calls : c \in Range(activation) <=> status[c] = "pending"
      /\ \A j \in Instances : \A c \in Range(delivered[j]) : c \in Calls /\ status[c] # "pending"
      /\ \A c \in Range(activation) : c \in Calls
  BY <1>2 DEF CallsInv, SentOnce, PendingCallsWait, Range
<1>9. SentCallsWait'
  <2>1. ASSUME NEW j \in Instances, NEW c \in Calls
        PROVE  /\ ~Before(Queued(j)', c, c)
               /\ c \in CallsIn(Queued(j)') <=> c \in Range(delivered'[j]) /\ status'[c] = "sent"
    <3>1. CASE j = i
      <4>1. ~Before(Queued(j)', c, c)
        BY <1>2, <1>6, <1>8, <3>1 DEF IsInjective
      <4> QED BY <1>4, <1>5, <1>6, <1>8, <3>1, <4>1
    <3>2. CASE j # i
      <4>1. /\ CallsIn(Queued(j)') = CallsIn(Queued(j))
            /\ Before(Queued(j)', c, c) <=> Before(Queued(j), c, c)
            /\ delivered'[j] = delivered[j]
        BY <1>4, <1>7, <3>2 DEF SameCalls
      <4> QED BY <1>5, <1>8, <4>1 DEF CallsInv, SentCallsWait
    <3> QED BY <3>1, <3>2
  <2>2. ASSUME NEW c \in Calls, status'[c] = "sent"
        PROVE  \E j \in Instances : c \in CallsIn(Queued(j)')
    <3>1. CASE status[c] = "pending"
      BY <1>6, <1>8, <3>1
    <3>2. CASE status[c] # "pending"
      <4>1. PICK j \in Instances : c \in CallsIn(Queued(j))
        BY <1>5, <2>2, <3>2 DEF CallsInv, SentCallsWait
      <4>2. j # i
        <5>1. Queued(i) = <<>> \o <<>> /\ DOMAIN (<<>> \o <<>>) = {}
          BY <1>3 DEF Queued
        <5> QED BY <4>1, <5>1 DEF CallsIn
      <4> QED BY <1>7, <4>1, <4>2 DEF SameCalls
    <3> QED BY <3>1, <3>2
  <2> QED BY <2>1, <2>2 DEF SentCallsWait
<1>10. SentOnce' /\ PendingCallsWait'
  <2>1. \A j, k \in Instances : j # k => Range(delivered'[j]) \cap Range(delivered'[k]) = {}
    BY <1>4, <1>8 DEF CallsInv, SentOnce
  <2>2. \A j \in Instances : IsInjective(delivered'[j])
    BY <1>4, <1>8 DEF CallsInv, SentOnce
  <2>3. ASSUME NEW j \in Instances, NEW c \in Range(delivered'[j])
        PROVE  status'[c] \notin {"new", "pending"}
    BY <1>4, <1>5, <1>8, <2>3 DEF CallsInv, SentOnce
  <2>4. IsInjective(activation') /\ Range(activation') = {}
    BY <1>1 DEF IsInjective, Range
  <2>5. \A c \in Calls : status'[c] = "pending" <=> c \in Range(activation')
    BY <1>5, <2>4
  <2> QED BY <2>1, <2>2, <2>3, <2>4, <2>5 DEF SentOnce, PendingCallsWait
<1>11. \A j \in Instances \ {i} : InOrder(j)'
  BY <1>1, <1>2, <1>4, <1>5, <1>7, <1>8, OrderKept
<1>12. InOrder(i)'
  <2> SUFFICES ASSUME NEW n \in DOMAIN activation
               PROVE  /\ status'[activation[n]] = "sent"
                      /\ \A m \in 1..(n - 1) : /\ status'[activation[m]] = "sent"
                                               /\ Before(Queued(i)', activation[m], activation[n])
    BY <1>4 DEF InOrder
  <2>1. \A m \in DOMAIN activation : activation[m] \in Calls /\ status'[activation[m]] = "sent"
    BY <1>2, <1>5, <1>8 DEF Range
  <2>2. \A m \in 1..(n - 1) : m \in DOMAIN activation /\ m < n
    BY <1>2
  <2> QED BY <1>6, <2>1, <2>2
<1>13. \A j \in Instances : stage'[j] \in {"new", "configured"} => delivered'[j] = <<>>
  BY <1>1, <1>2, <1>4 DEF CallsInv
<1> QED BY <1>9, <1>10, <1>11, <1>12, <1>13 DEF CallsInv

(* An instance leaves: the bus fails the calls that wait for it. *)
LEMMA LeavesOnce ==
  ASSUME NameInv, CallsInv, NEW i \in Instances, Leaves(i)
  PROVE  CallsInv'
<1>1. /\ stage' = [stage EXCEPT ![i] = "gone"]
      /\ rqueue' = [rqueue EXCEPT ![i] = <<>>]
      /\ socket' = [socket EXCEPT ![i] = <<>>]
      /\ status' = [c \in Calls |-> IF c \in CallsIn(Queued(i)) THEN "failed" ELSE status[c]]
      /\ UNCHANGED <<activation, delivered>>
  BY DEF Leaves, Enters
<1>2. /\ stage \in [Instances -> Stages] /\ delivered \in [Instances -> Seq(Calls)]
      /\ socket \in [Instances -> Seq(Messages)] /\ rqueue \in [Instances -> Seq(Messages)]
  BY DEF NameInv, TypeOK
<1>3. /\ \A j \in Instances \ {i} : Queued(j)' = Queued(j)
      /\ CallsIn(Queued(i)') = {}
      /\ \A c, d \in Calls : ~Before(Queued(i)', c, d)
  <2>1. \A j \in Instances \ {i} : Queued(j)' = Queued(j)
    BY <1>1, <1>2 DEF Queued
  <2>2. Queued(i)' = <<>> \o <<>> /\ DOMAIN (<<>> \o <<>>) = {}
    BY <1>1, <1>2 DEF Queued
  <2> QED BY <2>1, <2>2 DEF CallsIn, Before
<1>4. \A c \in Calls : status'[c] = IF c \in CallsIn(Queued(i)) THEN "failed" ELSE status[c]
  BY <1>1
<1>5. \A c \in Calls : c \in CallsIn(Queued(i)) <=> c \in Range(delivered[i]) /\ status[c] = "sent"
  BY DEF CallsInv, SentCallsWait
<1>6. \A j \in Instances \ {i} : \A c \in Range(delivered[j]) :
        c \in Calls /\ c \notin CallsIn(Queued(i)) /\ status'[c] = status[c]
  <2> SUFFICES ASSUME NEW j \in Instances \ {i}, NEW c \in Range(delivered[j])
               PROVE  c \in Calls /\ c \notin Range(delivered[i])
    BY <1>4, <1>5
  <2>1. Range(delivered[i]) \cap Range(delivered[j]) = {}
    BY DEF CallsInv, SentOnce
  <2>2. Range(delivered[j]) \subseteq Calls
    BY <1>2 DEF Range
  <2> QED BY <2>1, <2>2
<1>7. SentCallsWait'
  <2>1. ASSUME NEW j \in Instances, NEW c \in Calls
        PROVE  /\ ~Before(Queued(j)', c, c)
               /\ c \in CallsIn(Queued(j)') <=> c \in Range(delivered[j]) /\ status'[c] = "sent"
    <3>1. CASE j = i
      BY <1>3, <1>4, <1>5, <3>1
    <3>2. CASE j # i
      BY <1>3, <1>4, <1>6, <3>2 DEF CallsInv, SentCallsWait
    <3> QED BY <3>1, <3>2
  <2>2. ASSUME NEW c \in Calls, status'[c] = "sent"
        PROVE  \E j \in Instances : c \in CallsIn(Queued(j)')
    <3>1. status[c] = "sent" /\ c \notin CallsIn(Queued(i))
      BY <1>4, <2>2
    <3>2. PICK j \in Instances : c \in CallsIn(Queued(j))
      BY <3>1 DEF CallsInv, SentCallsWait
    <3> QED BY <1>3, <3>1, <3>2
  <2> QED BY <1>1, <2>1, <2>2 DEF SentCallsWait
<1>8. SentOnce' /\ PendingCallsWait'
  <2>1. \A j \in Instances : \A c \in Range(delivered[j]) : c \in Calls
    BY <1>2 DEF Range
  <2>2. \A j \in Instances : \A c \in Range(delivered[j]) : status'[c] \notin {"new", "pending"}
    BY <1>4, <2>1 DEF CallsInv, SentOnce
  <2>3. \A c \in Calls : status'[c] = "pending" <=> status[c] = "pending"
    BY <1>4, <1>5
  <2> QED BY <1>1, <2>2, <2>3 DEF CallsInv, SentOnce, PendingCallsWait
<1>9. \A j \in Instances \ {i} : InOrder(j)'
  <2> SUFFICES ASSUME NEW j \in Instances \ {i}  PROVE InOrder(j)'
    OBVIOUS
  <2>1. SameCalls(Queued(j)', Queued(j))
    BY <1>3 DEF SameCalls
  <2> QED BY <1>1, <1>2, <1>6, <2>1, OrderKept
<1>10. InOrder(i)'
  <2> SUFFICES ASSUME NEW n \in DOMAIN delivered[i]
               PROVE  /\ status'[delivered[i][n]] = "failed" => stage'[i] = "gone"
                      /\ \A m \in 1..(n - 1) :
                           /\ status'[delivered[i][n]] = "handled"
                                => status'[delivered[i][m]] = "handled"
                           /\ status'[delivered[i][n]] # "sent"
    BY <1>1 DEF InOrder
  <2>1. \A m \in 1..n : /\ delivered[i][m] \in Calls
                        /\ delivered[i][m] \in Range(delivered[i])
    BY <1>2 DEF Range
  <2>2. n \in 1..n /\ \A m \in 1..(n - 1) : m \in 1..n
    BY <1>2
  <2>3. \A m \in 1..(n - 1) :
          status[delivered[i][n]] = "handled" => status[delivered[i][m]] = "handled"
    BY DEF CallsInv, InOrder
  <2>4. stage'[i] = "gone"
    BY <1>1, <1>2
  <2> QED BY <1>4, <1>5, <2>1, <2>2, <2>3, <2>4
<1>11. \A j \in Instances : stage'[j] \in {"new", "configured"} => delivered'[j] = <<>>
  BY <1>1, <1>2 DEF CallsInv
<1> QED BY <1>7, <1>8, <1>9, <1>10, <1>11 DEF CallsInv

(* A call on a free name waits at the bus, and may be given up. *)
LEMMA PendingOnce ==
  ASSUME NameInv, CallsInv,
         (\E c \in Calls : ClientCall(c) /\ owner = Nobody) \/ ActivationFails
  PROVE  CallsInv'
<1>1. UNCHANGED <<stage, rqueue, socket, delivered>>
  BY DEF ClientCall, ActivationFails
<1>2. /\ \A j \in Instances : SameCalls(Queued(j)', Queued(j)) /\ Queued(j)' = Queued(j)
      /\ delivered \in [Instances -> Seq(Calls)] /\ activation \in Seq(Calls)
      /\ status \in [Calls -> CallStates]
  BY <1>1, SameQueue DEF NameInv, TypeOK, Queued
<1>3. /\ \A j \in Instances : \A c \in Range(delivered[j]) :
           c \in Calls /\ status[c] \notin {"new", "pending"}
      /\ \A c \in Calls : status[c] = "pending" <=> c \in Range(activation)
      /\ IsInjective(activation)
  BY <1>2 DEF CallsInv, SentOnce, PendingCallsWait, Range
<1>4. /\ \A c \in Calls : status[c] \notin {"new", "pending"} => status'[c] = status[c]
      /\ \A c \in Calls : status[c] \in {"new", "pending"} => status'[c] \in {"new", "pending", "failed"}
      /\ IsInjective(activation')
      /\ \A c \in Calls : status'[c] = "pending" <=> c \in Range(activation')
  <2>1. ASSUME NEW c \in Calls, ClientCall(c), owner = Nobody
        PROVE  <1>4!:
    <3>1. activation' = Append(activation, c) /\ status' = [status EXCEPT ![c] = "pending"]
          /\ status[c] = "new"
      BY <2>1 DEF ClientCall
    <3>2. /\ DOMAIN activation' = DOMAIN activation \cup {Len(activation) + 1}
          /\ \A n \in DOMAIN activation : activation'[n] = activation[n]
          /\ activation'[Len(activation) + 1] = c
      BY <1>2, <3>1
    <3>3. Range(activation') = Range(activation) \cup {c} /\ c \notin Range(activation)
      BY <1>3, <3>1, <3>2 DEF Range
    <3>4. IsInjective(activation')
      BY <1>3, <3>2, <3>3 DEF IsInjective, Range
    <3> QED BY <1>2, <1>3, <3>1, <3>3, <3>4
  <2>2. CASE ActivationFails
    <3>1. /\ activation' = <<>>
          /\ status' = [c \in Calls |-> IF status[c] = "pending" THEN "failed" ELSE status[c]]
      BY <2>2 DEF ActivationFails
    <3> QED BY <3>1 DEF IsInjective, Range
  <2> QED BY <2>1, <2>2
<1>5. \A c \in Calls : status'[c] = "sent" <=> status[c] = "sent"
  BY <1>4
<1>6. SentCallsWait'
  BY <1>1, <1>2, <1>5 DEF CallsInv, SentCallsWait
<1>7. SentOnce' /\ PendingCallsWait'
  BY <1>1, <1>3, <1>4 DEF CallsInv, SentOnce, PendingCallsWait
<1>8. \A j \in Instances : InOrder(j)'
  BY <1>1, <1>2, <1>3, <1>4, OrderKept
<1>9. \A j \in Instances : stage'[j] \in {"new", "configured"} => delivered'[j] = <<>>
  BY <1>1 DEF CallsInv
<1> QED BY <1>6, <1>7, <1>8, <1>9 DEF CallsInv

(* A call is sent to the owner of the name. *)
LEMMA SentCallOnce ==
  ASSUME NameInv, CallsInv, NEW c \in Calls, NEW i \in Instances, owner = i, ClientCall(c)
  PROVE  CallsInv'
<1> DEFINE q == Queued(i)
           log == delivered[i]
<1>1. /\ status[c] = "new"
      /\ socket' = [socket EXCEPT ![i] = Append(@, Call(c))]
      /\ status' = [status EXCEPT ![c] = "sent"]
      /\ delivered' = [delivered EXCEPT ![i] = Append(@, c)]
      /\ UNCHANGED <<stage, rqueue, activation>>
  BY StartupAssumption DEF ClientCall
<1>2. /\ status \in [Calls -> CallStates]
      /\ delivered \in [Instances -> Seq(Calls)] /\ log \in Seq(Calls)
      /\ socket \in [Instances -> Seq(Messages)] /\ rqueue \in [Instances -> Seq(Messages)]
      /\ q \in Seq(Messages)
      /\ stage[i] \notin {"new", "configured", "gone"}
  BY QueuesTyped DEF NameInv, TypeOK, OwnerIsConnected
<1>3. \A j \in Instances \ {i} : /\ Queued(j)' = Queued(j) /\ SameCalls(Queued(j)', Queued(j))
                                /\ delivered'[j] = delivered[j]
  BY <1>1, <1>2, SameQueue DEF Queued
<1>4. Queued(i)' = Append(q, Call(c))
  <2> DEFINE a == rqueue[i]
             b == socket[i]
  <2>1. a \in Seq(Messages) /\ b \in Seq(Messages) /\ Call(c) \in Messages
    BY <1>2, MessagesTyped
  <2>2. Queued(i)' = a \o Append(b, Call(c)) /\ q = a \o b
    BY <1>1, <1>2 DEF Queued
  <2> HIDE DEF a, b
  <2>3. a \o Append(b, Call(c)) = Append(a \o b, Call(c))
    BY <2>1
  <2> QED BY <2>2, <2>3
<1>5. /\ CallsIn(Queued(i)') = CallsIn(q) \cup {c}
      /\ \A d, e \in Calls : Before(Queued(i)', d, e) <=> Before(q, d, e) \/ (e = c /\ d \in CallsIn(q))
  BY <1>2, <1>4, CallAdded
<1>6. /\ \A d \in Calls : status'[d] = IF d = c THEN "sent" ELSE status[d]
      /\ \A j \in Instances : \A d \in Range(delivered[j]) : d \in Calls /\ d # c
      /\ \A j \in Instances : c \notin CallsIn(Queued(j))
      /\ c \notin Range(activation)
  <2>1. \A j \in Instances : Range(delivered[j]) \subseteq Calls
    BY <1>2 DEF Range
  <2> QED BY <1>1, <1>2, <2>1 DEF CallsInv, SentOnce, PendingCallsWait, SentCallsWait
<1>7. /\ delivered'[i] = Append(log, c)
      /\ DOMAIN delivered'[i] = DOMAIN log \cup {Len(log) + 1}
      /\ \A n \in DOMAIN log : delivered'[i][n] = log[n]
      /\ delivered'[i][Len(log) + 1] = c
  <2>1. delivered'[i] = Append(log, c)
    BY <1>1, <1>2
  <2> HIDE DEF log
  <2> QED BY <1>2, <2>1
<1>8. Range(delivered'[i]) = Range(log) \cup {c}
  BY <1>7 DEF Range
<1>9. SentCallsWait'
  <2>1. ASSUME NEW j \in Instances, NEW d \in Calls
        PROVE  /\ ~Before(Queued(j)', d, d)
               /\ d \in CallsIn(Queued(j)') <=> d \in Range(delivered'[j]) /\ status'[d] = "sent"
    <3>1. CASE j = i
      BY <1>5, <1>6, <1>8, <3>1 DEF CallsInv, SentCallsWait
    <3>2. CASE j # i
      BY <1>3, <1>6, <3>2 DEF CallsInv, SentCallsWait
    <3> QED BY <3>1, <3>2
  <2>2. ASSUME NEW d \in Calls, status'[d] = "sent"
        PROVE  \E j \in Instances : d \in CallsIn(Queued(j)')
    <3>1. CASE d = c
      BY <1>2, <1>5, <3>1
    <3>2. CASE d # c
      <4>1. PICK j \in Instances : d \in CallsIn(Queued(j))
        BY <1>6, <2>2, <3>2 DEF CallsInv, SentCallsWait
      <4>2. d \in CallsIn(Queued(j)')
        BY <1>3, <1>5, <4>1
      <4> QED BY <4>2
    <3> QED BY <3>1, <3>2
  <2> QED BY <2>1, <2>2 DEF SentCallsWait
<1>10. SentOnce' /\ PendingCallsWait'
  <2>1. \A j, k \in Instances : j # k => Range(delivered'[j]) \cap Range(delivered'[k]) = {}
    BY <1>3, <1>6, <1>8 DEF CallsInv, SentOnce
  <2>2. IsInjective(delivered'[i])
    <3>1. \A n \in DOMAIN log : log[n] # c
      BY <1>2, <1>6 DEF Range
    <3>2. IsInjective(log)
      BY <1>2 DEF CallsInv, SentOnce
    <3> HIDE DEF log
    <3> QED BY <1>7, <3>1, <3>2 DEF IsInjective
  <2>3. \A j \in Instances : IsInjective(delivered'[j])
    BY <1>3, <2>2 DEF CallsInv, SentOnce
  <2>4. \A j \in Instances : \A d \in Range(delivered'[j]) : status'[d] \notin {"new", "pending"}
    <3>1. \A j \in Instances : \A d \in Range(delivered[j]) : status'[d] \notin {"new", "pending"}
      BY <1>6 DEF CallsInv, SentOnce
    <3> QED BY <1>2, <1>3, <1>6, <1>8, <3>1
  <2>5. \A d \in Calls : status'[d] = "pending" <=> d \in Range(activation)
    BY <1>1, <1>6 DEF CallsInv, PendingCallsWait
  <2> QED BY <1>1, <2>1, <2>3, <2>4, <2>5 DEF CallsInv, SentOnce, PendingCallsWait
<1>11. \A j \in Instances \ {i} : InOrder(j)'
  BY <1>1, <1>3, <1>6, OrderKept
<1>12. InOrder(i)'
  <2>1. \A n \in DOMAIN log : /\ log[n] \in Calls /\ log[n] \in Range(log)
                              /\ status'[log[n]] = status[log[n]]
    BY <1>2, <1>6 DEF Range
  <2>2. \A n \in DOMAIN log : status[log[n]] \in {"handled", "sent"}
    BY <1>2, <2>1 DEF CallsInv, SentOnce, InOrder, CallStates
  <2>3. \A n \in DOMAIN log : status[log[n]] = "sent" => Before(Queued(i)', log[n], c)
    BY <1>2, <1>5, <2>1 DEF CallsInv, SentCallsWait
  <2>4. InOrder(i)
    BY <1>2 DEF CallsInv
  <2> SUFFICES ASSUME NEW n \in DOMAIN delivered'[i], NEW m \in 1..(n - 1)
               PROVE  /\ status'[delivered'[i][n]] # "failed"
                      /\ status'[delivered'[i][n]] = "handled"
                           => status'[delivered'[i][m]] = "handled"
                      /\ status'[delivered'[i][n]] = "sent" =>
                           \/ status'[delivered'[i][m]] = "handled"
                           \/ /\ status'[delivered'[i][m]] = "sent"
                              /\ Before(Queued(i)', delivered'[i][m], delivered'[i][n])
    <3>1. \A n \in DOMAIN delivered'[i] : status'[delivered'[i][n]] # "failed"
      BY <1>6, <1>7, <2>1, <2>2
    <3> QED BY <3>1 DEF InOrder
  <2>5. CASE n \in DOMAIN log
    <3>1. m \in DOMAIN log
      BY <1>2, <2>5
    <3>2. /\ status[log[n]] = "handled" => status[log[m]] = "handled"
          /\ status[log[n]] = "sent" =>
               \/ status[log[m]] = "handled"
               \/ status[log[m]] = "sent" /\ Before(q, log[m], log[n])
      BY <2>4, <2>5 DEF InOrder
    <3>3. /\ delivered'[i][n] = log[n] /\ delivered'[i][m] = log[m]
          /\ log[m] \in Calls /\ log[n] \in Calls
          /\ status'[log[n]] = status[log[n]] /\ status'[log[m]] = status[log[m]]
      BY <1>7, <2>1, <2>5, <3>1
    <3>4. Before(q, log[m], log[n]) => Before(Queued(i)', log[m], log[n])
      BY <1>5, <3>3
    <3> HIDE DEF log, q
    <3>5. status[log[n]] # "failed"
      BY <2>2, <2>5
    <3> QED BY <3>2, <3>3, <3>4, <3>5
  <2>6. CASE n = Len(log) + 1
    <3>1. m \in DOMAIN log
      BY <1>2, <2>6
    <3> QED BY <1>6, <1>7, <2>1, <2>2, <2>3, <2>6, <3>1
  <2> QED BY <1>7, <2>5, <2>6
<1>13. \A j \in Instances : stage'[j] \in {"new", "configured"} => delivered'[j] = <<>>
  BY <1>1, <1>2, <1>3 DEF CallsInv
<1> QED BY <1>9, <1>10, <1>11, <1>12, <1>13 DEF CallsInv

-----------------------------------------------------------------------------
(* The theorems *)

(* The invariant of the calls holds always. *)
THEOREM CallsInvariance == Spec => [](NameInv /\ CallsInv)
<1>1. NameInv /\ CallsInv /\ [Next]_vars => CallsInv'
  <2> SUFFICES ASSUME NameInv, CallsInv, [Next]_vars  PROVE CallsInv'
    OBVIOUS
  <2>1. CASE UNCHANGED vars
    <3>1. /\ UNCHANGED <<stage, socket, rqueue, activation, status, delivered>>
      BY <2>1 DEF vars, busVars, callVars
    <3>2. \A j \in Instances : SameCalls(Queued(j)', Queued(j))
      BY <3>1, SameQueue
    <3> QED BY <3>1, <3>2, CallsUntouched
  <2>2. ASSUME NEW i \in Instances, config_init(i) \/ Proceed(i)  PROVE CallsInv'
    <3>1. CASE sd_bus_request_name(i)
      BY <3>1, CallsStay, GrantNameOnce DEF sd_bus_request_name
    <3>2. CASE \/ config_init(i) \/ NameGranted(i) \/ sd_bus_add_match(i) \/ pollen_loop_run(i)
               \/ handle_name_lost(i) \/ OtherSignal(i)
      BY <3>2, CallsStay
    <3>3. CASE \E c \in Calls : MethodCall(i, c)
      BY <3>3, MethodCallOnce
    <3>4. CASE NameRefused(i) \/ Exit(i)
      BY <3>4, LeavesOnce DEF NameRefused, Exit
    <3> QED BY <2>2, <3>1, <3>2, <3>3, <3>4 DEF Proceed
  <2>3. ASSUME NEW i \in Instances, StartFails(i) \/ Terminate(i)  PROVE CallsInv'
    <3>1. CASE Leaves(i)
      BY <3>1, LeavesOnce
    <3>2. CASE /\ stage[i] = "running"
               /\ Enters(i, "quitting")
               /\ UNCHANGED <<rqueue, busVars, callVars>>
      <4>1. UNCHANGED <<socket, rqueue, activation, status, delivered>>
        BY <3>2 DEF busVars, callVars
      <4>2. \A j \in Instances : SameCalls(Queued(j)', Queued(j))
        BY <4>1, SameQueue
      <4>3. stage \in [Instances -> Stages]
        BY DEF NameInv, TypeOK
      <4> QED BY <3>2, <4>1, <4>2, <4>3, CallsUntouched DEF Enters
    <3> QED BY <2>3, <3>1, <3>2 DEF StartFails, Terminate
  <2>4. ASSUME (\E c \in Calls : ClientCall(c)) \/ ActivationFails  PROVE CallsInv'
    <3>1. owner \in Instances \cup {Nobody}
      BY DEF NameInv, TypeOK
    <3> QED BY <2>4, <3>1, PendingOnce, SentCallOnce
  <2> QED BY <2>1, <2>2, <2>3, <2>4 DEF Next, Idle
<1>2. Init => CallsInv
  BY CallsInit
<1> QED BY <1>1, <1>2, NameInvariance, PTL DEF Spec

(* A call that has been sent waits in exactly one place of one instance,   *)
(* and no other call waits anywhere: none is lost or dispatched twice.     *)
THEOREM SentCallsConserved == Spec => []CallsConserved
<1>1. NameInv /\ CallsInv => CallsConserved
  <2> SUFFICES ASSUME NameInv, CallsInv, NEW c \in Calls
               PROVE  Cardinality(Positions(c)) = IF status[c] = "sent" THEN 1 ELSE 0
    BY DEF CallsConserved, CallsInv, PendingCallsWait
  <2>1. \A x : x \in Positions(c) <=>
          \E j \in Instances : \E l \in DOMAIN Queued(j) : Queued(j)[l] = Call(c) /\ x = <<j, l>>
    BY DEF Positions
  <2>2. CASE status[c] = "sent"
    <3>1. PICK i \in Instances : c \in CallsIn(Queued(i))
      BY <2>2 DEF CallsInv, SentCallsWait
    <3>2. PICK k \in DOMAIN Queued(i) : Queued(i)[k] = Call(c)
      BY <3>1 DEF CallsIn
    <3>3. ASSUME NEW j \in Instances, NEW l \in DOMAIN Queued(j), Queued(j)[l] = Call(c)
          PROVE  j = i /\ l = k
      <4>1. c \in CallsIn(Queued(j))
        BY <3>3 DEF CallsIn
      <4>2. j = i
        BY <3>1, <4>1 DEF CallsInv, SentCallsWait, SentOnce
      <4>3. ~(k < l) /\ ~(l < k)
        BY <3>2, <3>3, <4>2 DEF CallsInv, SentCallsWait, Before
      <4>4. DOMAIN Queued(i) \subseteq Int
        BY QueuesTyped
      <4> QED BY <4>2, <4>3, <4>4
    <3>4. Positions(c) = {<<i, k>>}
      BY <2>1, <3>2, <3>3
    <3> QED BY <2>2, <3>4, FS_Singleton
  <2>3. CASE status[c] # "sent"
    <3>1. \A i \in Instances : c \notin CallsIn(Queued(i))
      BY <2>3 DEF CallsInv, SentCallsWait
    <3>2. Positions(c) = {}
      BY <2>1, <3>1 DEF CallsIn
    <3> QED BY <2>3, <3>2, FS_EmptySet
  <2> QED BY <2>2, <2>3
<1> QED BY <1>1, CallsInvariance, PTL

(* An instance handles the calls sent to it in their order. *)
THEOREM CallsHandledInOrder == Spec => []HandledInOrder
<1>1. CallsInv => HandledInOrder
  BY DEF CallsInv, InOrder, HandledInOrder
<1> QED BY <1>1, CallsInvariance, PTL
=============================================================================
