--------------------------- MODULE StartupSafety ---------------------------
(***************************************************************************)
(* Proofs about the competition for the bus name, for any number of        *)
(* instances, calls and configuration files: an instance that runs owns    *)
(* the name or is on record as having lost it, and one that loses it after *)
(* its match is installed has the signal that ends it waiting in its       *)
(* socket.                                                                 *)
(***************************************************************************)
EXTENDS StartupProperties, TLAPS

-----------------------------------------------------------------------------
(* Queues of messages *)

(* Joining two queues joins what they hold. *)
LEMMA JoinedQueues ==
  ASSUME NEW q \in Seq(Messages), NEW r \in Seq(Messages)
  PROVE  /\ q \o r \in Seq(Messages)
         /\ Range(q \o r) = Range(q) \cup Range(r)
<1>1. q \o r \in Seq(Messages) /\ Len(q \o r) = Len(q) + Len(r)
  OBVIOUS
<1>2. ASSUME NEW x \in Range(q \o r)  PROVE x \in Range(q) \cup Range(r)
  <2>1. PICK n \in DOMAIN (q \o r) : x = (q \o r)[n]
    BY <1>2 DEF Range
  <2>2. CASE n <= Len(q)
    BY <1>1, <2>1, <2>2 DEF Range
  <2>3. CASE n > Len(q)
    <3>1. n - Len(q) \in DOMAIN r /\ x = r[n - Len(q)]
      BY <1>1, <2>1, <2>3
    <3> QED BY <3>1 DEF Range
  <2> QED BY <1>1, <2>1, <2>2, <2>3
<1>3. ASSUME NEW x \in Range(q)  PROVE x \in Range(q \o r)
  <2>1. PICK n \in DOMAIN q : x = q[n]
    BY <1>3 DEF Range
  <2>2. n \in DOMAIN (q \o r) /\ x = (q \o r)[n]
    BY <1>1, <2>1
  <2> QED BY <2>2 DEF Range
<1>4. ASSUME NEW x \in Range(r)  PROVE x \in Range(q \o r)
  <2>1. PICK n \in DOMAIN r : x = r[n]
    BY <1>4 DEF Range
  <2>2. Len(q) + n \in DOMAIN (q \o r) /\ x = (q \o r)[Len(q) + n]
    BY <1>1, <2>1
  <2> QED BY <2>2 DEF Range
<1> QED BY <1>1, <1>2, <1>3, <1>4

(* What comes before or after a message of a queue. *)
LEMMA SplitQueue ==
  ASSUME NEW q \in Seq(Messages), NEW n \in DOMAIN q
  PROVE  /\ SubSeq(q, 1, n - 1) \in Seq(Messages)
         /\ SubSeq(q, n + 1, Len(q)) \in Seq(Messages)
         /\ \A x : x \in Range(SubSeq(q, 1, n - 1)) <=> \E k \in 1..(n - 1) : x = q[k]
         /\ \A x : x \in Range(SubSeq(q, n + 1, Len(q)))
                     <=> \E k \in (n + 1)..Len(q) : x = q[k]
<1> DEFINE before == SubSeq(q, 1, n - 1)
           after == SubSeq(q, n + 1, Len(q))
<1>1. /\ before \in Seq(Messages)
      /\ DOMAIN before = 1..(n - 1)
      /\ \A k \in 1..(n - 1) : before[k] = q[k]
  OBVIOUS
<1>2. /\ after \in Seq(Messages)
      /\ DOMAIN after = 1..(Len(q) - n)
      /\ \A k \in 1..(Len(q) - n) : after[k] = q[n + k]
  OBVIOUS
<1>3. ASSUME NEW x  PROVE x \in Range(before) <=> \E k \in 1..(n - 1) : x = q[k]
  BY <1>1 DEF Range
<1>4. ASSUME NEW x, x \in Range(after)  PROVE \E k \in (n + 1)..Len(q) : x = q[k]
  <2>1. PICK k \in 1..(Len(q) - n) : x = q[n + k]
    BY <1>2, <1>4 DEF Range
  <2>2. n + k \in (n + 1)..Len(q)
    OBVIOUS
  <2> QED BY <2>1, <2>2
<1>5. ASSUME NEW x, NEW k \in (n + 1)..Len(q), x = q[k]  PROVE x \in Range(after)
  <2>1. k - n \in DOMAIN after /\ after[k - n] = x
    BY <1>2, <1>5
  <2> QED BY <2>1 DEF Range
<1> HIDE DEF before, after
<1>6. /\ before \in Seq(Messages) /\ after \in Seq(Messages)
      /\ \A x : x \in Range(before) <=> \E k \in 1..(n - 1) : x = q[k]
      /\ \A x : x \in Range(after) <=> \E k \in (n + 1)..Len(q) : x = q[k]
  BY <1>1, <1>2, <1>3, <1>4, <1>5
<1> QED BY <1>6 DEF before, after

(* The tail of a queue holds all but its head. *)
LEMMA TailOfQueue ==
  ASSUME NEW q \in Seq(Messages), q # <<>>
  PROVE  /\ Tail(q) \in Seq(Messages)
         /\ Range(Tail(q)) \subseteq Range(q)
         /\ Range(q) \subseteq Range(Tail(q)) \cup {Head(q)}
<1>1. /\ Tail(q) \in Seq(Messages)
      /\ Len(q) > 0
      /\ DOMAIN Tail(q) = 1..(Len(q) - 1)
      /\ \A k \in DOMAIN Tail(q) : Tail(q)[k] = q[k + 1]
      /\ Head(q) = q[1]
  OBVIOUS
<1>2. ASSUME NEW x \in Range(Tail(q))  PROVE x \in Range(q)
  <2>1. PICK k \in DOMAIN Tail(q) : x = q[k + 1]
    BY <1>1, <1>2 DEF Range
  <2>2. k + 1 \in DOMAIN q
    BY <1>1, <2>1
  <2> QED BY <2>1, <2>2 DEF Range
<1>3. ASSUME NEW x \in Range(q), x # Head(q)  PROVE x \in Range(Tail(q))
  <2>1. PICK k \in DOMAIN q : x = q[k]
    BY <1>3 DEF Range
  <2>2. k - 1 \in DOMAIN Tail(q) /\ Tail(q)[k - 1] = x
    BY <1>1, <1>3, <2>1
  <2> QED BY <2>2 DEF Range
<1> QED BY <1>1, <1>2, <1>3

-----------------------------------------------------------------------------
(* OwnerChanged after MatchAdded *)

(* What is sent later than the match is installed keeps the order. *)
LEMMA OrderedThenNoMatch ==
  ASSUME NEW q \in Seq(Messages), NEW r \in Seq(Messages),
         Ordered(q), MatchAdded \notin Range(r)
  PROVE  Ordered(q \o r)
<1> SUFFICES ASSUME NEW m \in DOMAIN (q \o r), NEW n \in DOMAIN (q \o r),
                    (q \o r)[m] = OwnerChanged, (q \o r)[n] = MatchAdded
             PROVE  n < m
  BY DEF Ordered
<1>1. n <= Len(q) /\ q[n] = MatchAdded
  <2>1. CASE n <= Len(q)
    BY <2>1
  <2>2. CASE n > Len(q)
    <3>1. n - Len(q) \in DOMAIN r /\ r[n - Len(q)] = MatchAdded
      BY <2>2
    <3> QED BY <3>1 DEF Range
  <2> QED BY <2>1, <2>2
<1>2. CASE m <= Len(q)
  <2>1. m \in DOMAIN q /\ n \in DOMAIN q /\ q[m] = OwnerChanged
    BY <1>1, <1>2
  <2> QED BY <1>1, <2>1 DEF Ordered
<1>3. CASE m > Len(q)
  BY <1>1, <1>3
<1> QED BY <1>2, <1>3

(* So does a queue in which the name has not changed hands yet. *)
LEMMA OrderedUnchanged ==
  ASSUME NEW q \in Seq(Messages), OwnerChanged \notin Range(q)
  PROVE  Ordered(q)
BY DEF Ordered, Range

(* And so does what is left when the oldest messages are taken. *)
LEMMA OrderedRest ==
  ASSUME NEW q \in Seq(Messages), Ordered(q), NEW n \in DOMAIN q
  PROVE  Ordered(SubSeq(q, n + 1, Len(q)))
<1>1. /\ DOMAIN SubSeq(q, n + 1, Len(q)) = 1..(Len(q) - n)
      /\ \A k \in 1..(Len(q) - n) : SubSeq(q, n + 1, Len(q))[k] = q[n + k] /\ n + k \in DOMAIN q
  OBVIOUS
<1>2. ASSUME NEW j \in 1..(Len(q) - n), NEW k \in 1..(Len(q) - n),
             q[n + j] = OwnerChanged, q[n + k] = MatchAdded
      PROVE  k < j
  <2>1. n + k < n + j
    BY <1>1, <1>2 DEF Ordered
  <2> QED BY <2>1
<1> QED BY <1>1, <1>2 DEF Ordered

LEMMA OrderedTail ==
  ASSUME NEW q \in Seq(Messages), Ordered(q), q # <<>>
  PROVE  Ordered(Tail(q))
<1>1. /\ DOMAIN Tail(q) = 1..(Len(q) - 1)
      /\ \A k \in DOMAIN Tail(q) : Tail(q)[k] = q[k + 1] /\ k + 1 \in DOMAIN q
  OBVIOUS
<1>2. ASSUME NEW j \in DOMAIN Tail(q), NEW k \in DOMAIN Tail(q),
             q[j + 1] = OwnerChanged, q[k + 1] = MatchAdded
      PROVE  k < j
  <2>1. k + 1 < j + 1
    BY <1>1, <1>2 DEF Ordered
  <2> QED BY <1>1, <2>1
<1> QED BY <1>1, <1>2 DEF Ordered

-----------------------------------------------------------------------------
(* Messages and the socket *)

LEMMA MessagesDiffer ==
  /\ \A c \in Calls : Call(c) \notin {NameAcquired, NameLost, OwnerChanged, Granted, Refused,
                                     MatchAdded}
  /\ OwnerChanged \notin {NameAcquired, NameLost, Granted, Refused, MatchAdded}
  /\ Granted \notin {NameAcquired, NameLost, Refused, MatchAdded}
  /\ MatchAdded \notin {NameAcquired, NameLost, Refused}
<1>1. \A c \in Calls : Call(c).type = "call"
  BY DEF Call
<1>2. /\ NameAcquired.type = "acquired" /\ NameLost.type = "lost"
      /\ OwnerChanged.type = "changed" /\ Granted.type = "granted"
      /\ Refused.type = "refused" /\ MatchAdded.type = "added"
  BY DEF NameAcquired, NameLost, OwnerChanged, Granted, Refused, MatchAdded
<1> QED BY <1>1, <1>2

LEMMA MessagesTyped ==
  /\ \A c \in Calls : Call(c) \in Messages
  /\ {NameAcquired, NameLost, OwnerChanged, Granted, Refused, MatchAdded} \subseteq Messages
BY DEF Messages

LEMMA OneMessage ==
  ASSUME NEW m \in Messages
  PROVE  <<m>> \in Seq(Messages) /\ Range(<<m>>) = {m}
<1>1. DOMAIN <<m>> = 1..1 /\ <<m>>[1] = m
  OBVIOUS
<1> QED BY <1>1 DEF Range

(* A message that is added to a queue. *)
LEMMA Posted ==
  ASSUME NEW q \in Seq(Messages), NEW m \in Messages
  PROVE  /\ Append(q, m) \in Seq(Messages)
         /\ Range(Append(q, m)) = Range(q) \cup {m}
         /\ Ordered(q) /\ m # MatchAdded => Ordered(Append(q, m))
<1>1. Append(q, m) = q \o <<m>> /\ <<m>> \in Seq(Messages)
  OBVIOUS
<1>2. Range(<<m>>) = {m}
  BY OneMessage
<1>3. Range(q \o <<m>>) = Range(q) \cup {m}
  BY <1>1, <1>2, JoinedQueues
<1>4. Ordered(q) /\ m # MatchAdded => Ordered(q \o <<m>>)
  BY <1>1, <1>2, OrderedThenNoMatch
<1> QED BY <1>1, <1>3, <1>4

(* Two queues that are added to a queue. *)
LEMMA JoinedThree ==
  ASSUME NEW q \in Seq(Messages), NEW r \in Seq(Messages), NEW t \in Seq(Messages)
  PROVE  /\ (q \o r) \o t \in Seq(Messages)
         /\ Range((q \o r) \o t) = Range(q) \cup Range(r) \cup Range(t)
         /\ Ordered(q) /\ MatchAdded \notin Range(r) \cup Range(t) => Ordered((q \o r) \o t)
<1> DEFINE qr == q \o r
<1>1. qr \in Seq(Messages) /\ Range(qr) = Range(q) \cup Range(r)
  BY JoinedQueues
<1>2. Ordered(q) /\ MatchAdded \notin Range(r) => Ordered(qr)
  BY OrderedThenNoMatch
<1> HIDE DEF qr
<1>3. qr \o t \in Seq(Messages) /\ Range(qr \o t) = Range(qr) \cup Range(t)
  BY <1>1, JoinedQueues
<1>4. Ordered(qr) /\ MatchAdded \notin Range(t) => Ordered(qr \o t)
  BY <1>1, OrderedThenNoMatch
<1>5. /\ qr \o t \in Seq(Messages)
      /\ Range(qr \o t) = Range(q) \cup Range(r) \cup Range(t)
      /\ Ordered(q) /\ MatchAdded \notin Range(r) \cup Range(t) => Ordered(qr \o t)
  BY <1>1, <1>2, <1>3, <1>4
<1> QED BY <1>5 DEF qr

-----------------------------------------------------------------------------
(* The invariant *)

LEMMA NameInit == Init => NameInv
<1> SUFFICES ASSUME Init  PROVE NameInv
  OBVIOUS
<1>1. \A i \in Instances : socket[i] = <<>> /\ rqueue[i] = <<>> /\ Range(socket[i]) = {}
                           /\ Range(rqueue[i]) = {} /\ DOMAIN socket[i] = {}
  BY DEF Init, Range
<1>2. TypeOK
  BY DEF Init, TypeOK, Stages, CallStates
<1>3. ChangedAfterMatch
  BY <1>1 DEF ChangedAfterMatch, Ordered
<1>4. UntoldUntilAsking /\ MatchedSinceAsked /\ RunsAsOwner
  BY DEF Init, UntoldUntilAsking, MatchedSinceAsked, RunsAsOwner
<1>5. OwnerIsConnected /\ GrantedIsOwner
  BY <1>1, StartupAssumption DEF Init, OwnerIsConnected, GrantedIsOwner
<1>6. LoserIsTold
  BY StartupAssumption DEF Init, LoserIsTold, Stages
<1> QED BY <1>2, <1>3, <1>4, <1>5, <1>6 DEF NameInv

(* What a step that leaves the sockets, the stages and the name alone      *)
(* keeps: everything.                                                      *)
LEMMA NothingMoves ==
  ASSUME NameInv, TypeOK', UNCHANGED <<stage, owner, matched, socket, rqueue, lostAt>>
  PROVE  NameInv'
BY DEF NameInv, UntoldUntilAsking, OwnerIsConnected, MatchedSinceAsked, GrantedIsOwner,
       ChangedAfterMatch, Ordered, RunsAsOwner, LoserIsTold

(* An instance that owns the name is sent a message that is no news of it. *)
LEMMA ConnectedPosted ==
  ASSUME NameInv, TypeOK', NEW i \in Instances, NEW m \in Messages,
         m \notin {OwnerChanged, MatchAdded, Granted},
         stage[i] \notin {"new", "configured"},
         socket' = [socket EXCEPT ![i] = Append(@, m)],
         UNCHANGED <<stage, owner, matched, rqueue, lostAt>>
  PROVE  NameInv'
<1>1. \A j \in Instances :
        /\ socket[j] \in Seq(Messages)
        /\ j # i => socket'[j] = socket[j]
        /\ Range(socket'[j]) = Range(socket[j]) \cup {m} \/ Range(socket'[j]) = Range(socket[j])
        /\ Ordered(socket[j]) => Ordered(socket'[j])
  BY Posted DEF NameInv, TypeOK
<1>2. UntoldUntilAsking'
  BY <1>1 DEF NameInv, UntoldUntilAsking
<1>3. ChangedAfterMatch'
  BY <1>1 DEF NameInv, ChangedAfterMatch
<1>4. GrantedIsOwner'
  BY <1>1 DEF NameInv, GrantedIsOwner
<1>5. LoserIsTold'
  BY <1>1 DEF NameInv, LoserIsTold
<1>6. OwnerIsConnected' /\ MatchedSinceAsked' /\ RunsAsOwner'
  BY DEF NameInv, OwnerIsConnected, MatchedSinceAsked, RunsAsOwner
<1> QED BY <1>2, <1>3, <1>4, <1>5, <1>6 DEF NameInv

-----------------------------------------------------------------------------
(* The steps of an instance *)

LEMMA ConfigInitSafe ==
  ASSUME NameInv, NEW i \in Instances, config_init(i)
  PROVE  NameInv'
<1>1. PICK next \in {"configured", "gone"} : stage' = [stage EXCEPT ![i] = next]
  BY DEF config_init, Enters
<1>2. /\ stage[i] = "new" /\ stage \in [Instances -> Stages]
      /\ UNCHANGED <<owner, matched, activation, socket, rqueue, status, delivered, lostAt>>
  BY DEF config_init, busVars, callVars, NameInv, TypeOK
<1>3. TypeOK'
  BY <1>1, <1>2 DEF NameInv, TypeOK, Stages
<1>4. UntoldUntilAsking'
  BY <1>1, <1>2 DEF NameInv, UntoldUntilAsking
<1>5. OwnerIsConnected' /\ MatchedSinceAsked' /\ RunsAsOwner'
  BY <1>1, <1>2 DEF NameInv, OwnerIsConnected, MatchedSinceAsked, RunsAsOwner
<1>6. GrantedIsOwner' /\ ChangedAfterMatch'
  BY <1>2 DEF NameInv, GrantedIsOwner, ChangedAfterMatch, Ordered
<1>7. LoserIsTold'
  BY <1>1, <1>2, StartupAssumption DEF NameInv, LoserIsTold, UntoldUntilAsking
<1> QED BY <1>3, <1>4, <1>5, <1>6, <1>7 DEF NameInv

LEMMA RefuseNameSafe ==
  ASSUME NameInv, NEW i \in Instances, sd_bus_request_name(i), RefuseName(i)
  PROVE  NameInv'
<1>1. /\ stage[i] = "configured"
      /\ stage' = [stage EXCEPT ![i] = "requesting"]
      /\ socket' = [socket EXCEPT ![i] = Append(@, Refused)]
      /\ UNCHANGED <<owner, matched, activation, rqueue, status, delivered, lostAt>>
  BY DEF sd_bus_request_name, Enters, RefuseName
<1>2. stage \in [Instances -> Stages] /\ socket \in [Instances -> Seq(Messages)]
  BY DEF NameInv, TypeOK
<1>3. \A j \in Instances :
        /\ socket'[j] \in Seq(Messages)
        /\ j # i => socket'[j] = socket[j]
        /\ Range(socket'[j]) = Range(socket[j]) \cup {Refused} \/ Range(socket'[j]) = Range(socket[j])
        /\ Ordered(socket[j]) => Ordered(socket'[j])
  BY <1>1, <1>2, Posted, MessagesDiffer, MessagesTyped
<1>4. TypeOK'
  BY <1>1, <1>2, <1>3 DEF NameInv, TypeOK, Stages
<1>5. UntoldUntilAsking'
  BY <1>1, <1>2, <1>3 DEF NameInv, UntoldUntilAsking
<1>6. OwnerIsConnected' /\ MatchedSinceAsked' /\ RunsAsOwner'
  BY <1>1, <1>2 DEF NameInv, OwnerIsConnected, MatchedSinceAsked, RunsAsOwner
<1>7. GrantedIsOwner'
  BY <1>1, <1>3, MessagesDiffer DEF NameInv, GrantedIsOwner
<1>8. ChangedAfterMatch'
  BY <1>1, <1>3, MessagesDiffer DEF NameInv, ChangedAfterMatch
<1>9. LoserIsTold'
  BY <1>1, <1>2, <1>3, StartupAssumption DEF NameInv, LoserIsTold, UntoldUntilAsking
<1> QED BY <1>4, <1>5, <1>6, <1>7, <1>8, <1>9 DEF NameInv

(* What the new owner, the old one and everybody else find in their        *)
(* sockets when the name changes hands.                                    *)
LEMMA GrantedSockets ==
  ASSUME NameInv, NEW i \in Instances, i # owner, GrantName(i)
  PROVE  /\ socket' \in [Instances -> Seq(Messages)]
         /\ \A j \in Instances \ {i, owner} : socket'[j] = socket[j]
         /\ Range(socket'[i]) \subseteq Range(socket[i]) \cup {NameAcquired, Granted}
                                         \cup {Call(c) : c \in Calls}
         /\ owner \in Instances =>
              Range(socket'[owner]) =
                Range(socket[owner]) \cup {NameLost}
                  \cup {m \in {OwnerChanged} : owner \in matched}
         /\ \A j \in Instances : Ordered(socket[j]) => Ordered(socket'[j])
<1> DEFINE waiting == [n \in DOMAIN activation |-> Call(activation[n])]
           told == IF owner \in matched THEN <<OwnerChanged>> ELSE <<>>
           acquired == <<NameAcquired>>
           granted == <<Granted>>
           lost == <<NameLost>>
<1>1. socket \in [Instances -> Seq(Messages)] /\ activation \in Seq(Calls)
  BY DEF NameInv, TypeOK
<1>2. waiting \in Seq(Messages) /\ Range(waiting) \subseteq {Call(c) : c \in Calls}
  <2>1. DOMAIN activation = 1..Len(activation) /\ \A n \in DOMAIN activation : activation[n] \in Calls
    BY <1>1
  <2> QED BY <2>1, MessagesTyped DEF Range
<1>3. /\ acquired \in Seq(Messages) /\ Range(acquired) = {NameAcquired}
      /\ granted \in Seq(Messages) /\ Range(granted) = {Granted}
      /\ lost \in Seq(Messages) /\ Range(lost) = {NameLost}
  <2>1. NameAcquired \in Messages /\ Granted \in Messages /\ NameLost \in Messages
    BY MessagesTyped
  <2>2. acquired \in Seq(Messages) /\ Range(acquired) = {NameAcquired}
    BY <2>1, OneMessage
  <2>3. granted \in Seq(Messages) /\ Range(granted) = {Granted}
    BY <2>1, OneMessage
  <2>4. lost \in Seq(Messages) /\ Range(lost) = {NameLost}
    BY <2>1, OneMessage
  <2> QED BY <2>2, <2>3, <2>4
<1>4. told \in Seq(Messages) /\ Range(told) = {m \in {OwnerChanged} : owner \in matched}
  <2>1. OwnerChanged \in Messages
    BY MessagesTyped
  <2>2. CASE owner \in matched
    <3>1. told = <<OwnerChanged>>
      BY <2>2
    <3>2. told \in Seq(Messages) /\ Range(told) = {OwnerChanged}
      BY <2>1, <3>1, OneMessage
    <3> QED BY <2>2, <3>2
  <2>3. CASE owner \notin matched
    <3>1. told = <<>> /\ DOMAIN told = {}
      BY <2>3
    <3>2. told \in Seq(Messages) /\ Range(told) = {}
      BY <3>1 DEF Range
    <3> QED BY <2>3, <3>2
  <2> QED BY <2>2, <2>3
<1>5. /\ \A j \in Instances \ {i, owner} : socket'[j] = socket[j]
      /\ socket'[i] = ((socket[i] \o acquired) \o waiting) \o granted
      /\ owner \in Instances => socket'[owner] = (socket[owner] \o lost) \o told
      /\ DOMAIN socket' = Instances /\ socket' = [j \in Instances |-> socket'[j]]
  BY DEF GrantName
<1> HIDE DEF waiting, told, acquired, granted, lost
<1>6. /\ socket'[i] \in Seq(Messages)
      /\ Range(socket'[i]) = Range(socket[i]) \cup {NameAcquired} \cup Range(waiting) \cup {Granted}
      /\ Ordered(socket[i]) => Ordered(socket'[i])
  <2> DEFINE first == (socket[i] \o acquired) \o waiting
  <2>1. MatchAdded \notin Range(acquired) \cup Range(waiting) \cup Range(granted)
    BY <1>2, <1>3, MessagesDiffer
  <2>2. /\ first \in Seq(Messages)
        /\ Range(first) = Range(socket[i]) \cup {NameAcquired} \cup Range(waiting)
        /\ Ordered(socket[i]) => Ordered(first)
    BY <1>1, <1>2, <1>3, <2>1, JoinedThree
  <2> HIDE DEF first
  <2>3. /\ first \o granted \in Seq(Messages)
        /\ Range(first \o granted) = Range(first) \cup {Granted}
        /\ Ordered(first) => Ordered(first \o granted)
    BY <1>3, <2>1, <2>2, JoinedQueues, OrderedThenNoMatch
  <2>4. socket'[i] = first \o granted
    BY <1>5 DEF first
  <2> QED BY <2>2, <2>3, <2>4
<1>7. ASSUME owner \in Instances
      PROVE  /\ socket'[owner] \in Seq(Messages)
             /\ Range(socket'[owner]) = Range(socket[owner]) \cup {NameLost} \cup Range(told)
             /\ Ordered(socket[owner]) => Ordered(socket'[owner])
  <2>1. MatchAdded \notin Range(lost) \cup Range(told)
    BY <1>3, <1>4, MessagesDiffer
  <2> DEFINE old == socket[owner]
  <2>2. old \in Seq(Messages)
    BY <1>1, <1>7
  <2>3. socket'[owner] = (old \o lost) \o told
    BY <1>5, <1>7
  <2> HIDE DEF old
  <2>4. lost \in Seq(Messages) /\ told \in Seq(Messages)
    BY <1>3, <1>4
  <2>5. /\ (old \o lost) \o told \in Seq(Messages)
        /\ Range((old \o lost) \o told) = Range(old) \cup Range(lost) \cup Range(told)
        /\ Ordered(old) => Ordered((old \o lost) \o told)
    BY <2>1, <2>2, <2>4, JoinedThree
  <2>6. Range(lost) = {NameLost}
    BY <1>3
  <2> QED BY <2>3, <2>5, <2>6 DEF old
<1>8. socket' \in [Instances -> Seq(Messages)]
  BY <1>1, <1>5, <1>6, <1>7
<1> QED BY <1>2, <1>4, <1>5, <1>6, <1>7, <1>8

LEMMA GrantNameSafe ==
  ASSUME NameInv, NEW i \in Instances, sd_bus_request_name(i), GrantName(i)
  PROVE  NameInv'
<1>1. /\ stage[i] = "configured"
      /\ stage' = [stage EXCEPT ![i] = "requesting"]
      /\ owner' = i
      /\ lostAt' = [j \in Instances |-> IF j = owner THEN stage[j] ELSE lostAt[j]]
      /\ UNCHANGED <<matched, rqueue>>
  BY DEF sd_bus_request_name, Enters, GrantName
<1>2. /\ stage \in [Instances -> Stages] /\ socket \in [Instances -> Seq(Messages)]
      /\ activation \in Seq(Calls) /\ delivered \in [Instances -> Seq(Calls)]
      /\ status \in [Calls -> CallStates] /\ lostAt \in [Instances -> Stages \cup {None}]
  BY DEF NameInv, TypeOK
<1>3. i # owner
  BY <1>1 DEF NameInv, OwnerIsConnected
<1>4. /\ socket' \in [Instances -> Seq(Messages)]
      /\ \A j \in Instances \ {i, owner} : socket'[j] = socket[j]
      /\ Range(socket'[i]) \subseteq Range(socket[i]) \cup {NameAcquired, Granted}
                                      \cup {Call(c) : c \in Calls}
      /\ owner \in Instances =>
           Range(socket'[owner]) =
             Range(socket[owner]) \cup {NameLost}
               \cup {m \in {OwnerChanged} : owner \in matched}
      /\ \A j \in Instances : Ordered(socket[j]) => Ordered(socket'[j])
  BY <1>3, GrantedSockets
<1>5. TypeOK'
  <2>1. delivered' \in [Instances -> Seq(Calls)]
    <3>1. delivered[i] \o activation \in Seq(Calls)
      BY <1>2
    <3> QED BY <1>2, <3>1 DEF GrantName
  <2>2. activation' \in Seq(Calls) /\ status' \in [Calls -> CallStates]
    BY <1>2 DEF GrantName, CallStates
  <2>3. stage' \in [Instances -> Stages] /\ lostAt' \in [Instances -> Stages \cup {None}]
    BY <1>1, <1>2 DEF Stages
  <2> QED BY <1>1, <1>4, <2>1, <2>2, <2>3 DEF NameInv, TypeOK
<1>6. socket[i] = <<>> /\ Range(socket[i]) = {} /\ lostAt[i] = None /\ i \notin matched
  BY <1>1 DEF NameInv, UntoldUntilAsking, MatchedSinceAsked, Range
<1>7. owner \in Instances => stage[owner] \notin {"new", "configured"} /\ stage'[owner] = stage[owner]
  BY <1>1, <1>2, <1>3 DEF NameInv, OwnerIsConnected
<1>8. UntoldUntilAsking'
  BY <1>1, <1>2, <1>4, <1>7 DEF NameInv, UntoldUntilAsking
<1>9. OwnerIsConnected' /\ MatchedSinceAsked'
  BY <1>1, <1>2, <1>3, <1>6 DEF NameInv, OwnerIsConnected, MatchedSinceAsked
<1>10. GrantedIsOwner'
  <2> SUFFICES ASSUME NEW j \in Instances, Granted \in Range(socket'[j]), lostAt'[j] = None
               PROVE  j = i
    BY <1>1 DEF GrantedIsOwner
  <2>1. j # owner
    BY <1>1, <1>2, StartupAssumption
  <2> QED BY <1>1, <1>4, <2>1, MessagesDiffer DEF NameInv, GrantedIsOwner
<1>11. ChangedAfterMatch'
  BY <1>1, <1>3, <1>4, <1>6, MessagesDiffer DEF NameInv, ChangedAfterMatch
<1>12. RunsAsOwner'
  <2> SUFFICES ASSUME NEW j \in Instances, stage'[j] \in {"owning", "matching", "running"},
                      lostAt'[j] = None
               PROVE  j = i
    BY <1>1 DEF RunsAsOwner
  <2>1. j # owner
    BY <1>1, <1>2, StartupAssumption
  <2> QED BY <1>1, <1>2, <2>1 DEF NameInv, RunsAsOwner
<1>13. LoserIsTold'
  <2> SUFFICES ASSUME NEW j \in Instances, lostAt'[j] \in {"matching", "running"},
                      stage'[j] \notin {"quitting", "gone"}
               PROVE  OwnerChanged \in Range(socket'[j])
    BY DEF LoserIsTold
  <2>1. CASE j = owner
    <3>1. j \in matched
      BY <1>1, <1>2, <2>1 DEF NameInv, MatchedSinceAsked
    <3> QED BY <1>4, <2>1, <3>1
  <2>2. CASE j # owner
    <3>1. j # i
      BY <1>1, <1>6, <2>2, StartupAssumption DEF Stages
    <3> QED BY <1>1, <1>2, <1>4, <2>2, <3>1 DEF NameInv, LoserIsTold
  <2> QED BY <2>1, <2>2
<1> QED BY <1>5, <1>8, <1>9, <1>10, <1>11, <1>12, <1>13 DEF NameInv

(* Waiting for a reply leaves OwnerChanged in the socket. *)
LEMMA ReplyTaken ==
  ASSUME NameInv, NEW i \in Instances, NEW reply \in {Granted, MatchAdded},
         TakesReply(i, reply), i \in matched => reply = MatchAdded
  PROVE  /\ socket' \in [Instances -> Seq(Messages)]
         /\ rqueue' \in [Instances -> Seq(Messages)]
         /\ \A j \in Instances \ {i} : socket'[j] = socket[j] /\ rqueue'[j] = rqueue[j]
         /\ reply \in Range(socket[i])
         /\ Range(socket'[i]) \subseteq Range(socket[i])
         /\ OwnerChanged \in Range(socket[i]) => OwnerChanged \in Range(socket'[i])
         /\ OwnerChanged \notin Range(rqueue'[i])
         /\ Ordered(socket'[i])
<1>1. PICK n \in DOMAIN socket[i] :
        /\ socket[i][n] = reply
        /\ rqueue' = [rqueue EXCEPT ![i] = @ \o SubSeq(socket[i], 1, n - 1)]
        /\ socket' = [socket EXCEPT ![i] = SubSeq(@, n + 1, Len(@))]
  BY DEF TakesReply
<1> DEFINE q == socket[i]
           before == SubSeq(q, 1, n - 1)
           after == SubSeq(q, n + 1, Len(q))
<1>2. /\ socket \in [Instances -> Seq(Messages)] /\ rqueue \in [Instances -> Seq(Messages)]
      /\ q \in Seq(Messages) /\ rqueue[i] \in Seq(Messages)
  BY DEF NameInv, TypeOK
<1>3. /\ Ordered(q) /\ OwnerChanged \notin Range(rqueue[i])
      /\ i \notin matched => OwnerChanged \notin Range(q)
  BY DEF NameInv, ChangedAfterMatch
<1>4. /\ socket'[i] = after /\ rqueue'[i] = rqueue[i] \o before
      /\ \A j \in Instances \ {i} : socket'[j] = socket[j] /\ rqueue'[j] = rqueue[j]
      /\ n \in DOMAIN q /\ q[n] = reply
  BY <1>1, <1>2
<1>5. /\ before \in Seq(Messages) /\ after \in Seq(Messages)
      /\ \A x : x \in Range(before) <=> \E k \in 1..(n - 1) : x = q[k]
      /\ \A x : x \in Range(after) <=> \E k \in (n + 1)..Len(q) : x = q[k]
      /\ Ordered(after)
  BY <1>2, <1>3, <1>4, SplitQueue, OrderedRest
<1>6. DOMAIN q = 1..Len(q) /\ Len(q) \in Nat
  BY <1>2
<1> HIDE DEF q, before, after
<1>7. \A k \in DOMAIN q : q[k] = OwnerChanged => k \in (n + 1)..Len(q)
  <2> SUFFICES ASSUME NEW k \in DOMAIN q, q[k] = OwnerChanged  PROVE k > n
    BY <1>4, <1>6
  <2>1. OwnerChanged \in Range(q)
    BY DEF Range
  <2>2. reply = MatchAdded
    BY <1>3, <2>1
  <2> QED BY <1>3, <1>4, <2>2 DEF Ordered
<1>8. ASSUME NEW x \in Range(after)  PROVE x \in Range(q)
  <2>1. PICK k \in (n + 1)..Len(q) : x = q[k]
    BY <1>5
  <2>2. k \in DOMAIN q
    BY <1>4, <1>6, <2>1
  <2> QED BY <2>1, <2>2 DEF Range
<1>9. OwnerChanged \notin Range(before)
  <2> SUFFICES ASSUME OwnerChanged \in Range(before)  PROVE FALSE
    OBVIOUS
  <2>1. PICK k \in 1..(n - 1) : OwnerChanged = q[k]
    BY <1>5
  <2>2. k \in DOMAIN q /\ k < n
    BY <1>4, <1>6, <2>1
  <2>3. k \in (n + 1)..Len(q)
    BY <1>7, <2>1, <2>2
  <2> QED BY <1>4, <1>6, <2>2, <2>3
<1>10. OwnerChanged \in Range(q) => OwnerChanged \in Range(after)
  BY <1>5, <1>7 DEF Range
<1>11. rqueue[i] \o before \in Seq(Messages) /\ OwnerChanged \notin Range(rqueue[i] \o before)
  BY <1>2, <1>3, <1>5, <1>9, JoinedQueues
<1>12. reply \in Range(q)
  BY <1>4 DEF Range
<1>13. socket' \in [Instances -> Seq(Messages)] /\ rqueue' \in [Instances -> Seq(Messages)]
  BY <1>1, <1>2, <1>4, <1>5, <1>11
<1> QED BY <1>4, <1>5, <1>8, <1>10, <1>11, <1>12, <1>13 DEF q

LEMMA NameGrantedSafe ==
  ASSUME NameInv, NEW i \in Instances, NameGranted(i)
  PROVE  NameInv'
<1>1. /\ stage[i] = "requesting" /\ TakesReply(i, Granted)
      /\ stage' = [stage EXCEPT ![i] = "owning"]
      /\ UNCHANGED <<lostAt, owner, matched, activation, status, delivered>>
  BY DEF NameGranted, Enters, callVars
<1>2. stage \in [Instances -> Stages] /\ i \notin matched
  BY <1>1 DEF NameInv, TypeOK, MatchedSinceAsked
<1>3. /\ socket' \in [Instances -> Seq(Messages)]
      /\ rqueue' \in [Instances -> Seq(Messages)]
      /\ \A j \in Instances \ {i} : socket'[j] = socket[j] /\ rqueue'[j] = rqueue[j]
      /\ Granted \in Range(socket[i])
      /\ Range(socket'[i]) \subseteq Range(socket[i])
      /\ OwnerChanged \in Range(socket[i]) => OwnerChanged \in Range(socket'[i])
      /\ OwnerChanged \notin Range(rqueue'[i])
      /\ Ordered(socket'[i])
  BY <1>1, <1>2, ReplyTaken
<1>4. TypeOK'
  BY <1>1, <1>2, <1>3 DEF NameInv, TypeOK, Stages
<1>5. UntoldUntilAsking'
  BY <1>1, <1>2, <1>3 DEF NameInv, UntoldUntilAsking
<1>6. OwnerIsConnected' /\ MatchedSinceAsked'
  BY <1>1, <1>2 DEF NameInv, OwnerIsConnected, MatchedSinceAsked
<1>7. GrantedIsOwner' /\ ChangedAfterMatch'
  BY <1>1, <1>3 DEF NameInv, GrantedIsOwner, ChangedAfterMatch
<1>8. RunsAsOwner'
  BY <1>1, <1>2, <1>3 DEF NameInv, RunsAsOwner, GrantedIsOwner
<1>9. LoserIsTold'
  BY <1>1, <1>2, <1>3 DEF NameInv, LoserIsTold
<1> QED BY <1>4, <1>5, <1>6, <1>7, <1>8, <1>9 DEF NameInv

LEMMA AddMatchSafe ==
  ASSUME NameInv, NEW i \in Instances, sd_bus_add_match(i)
  PROVE  NameInv'
<1>1. /\ stage[i] = "owning"
      /\ stage' = [stage EXCEPT ![i] = "matching"]
      /\ matched' = matched \cup {i}
      /\ socket' = [socket EXCEPT ![i] = Append(@, MatchAdded)]
      /\ UNCHANGED <<rqueue, lostAt, owner, activation, status, delivered>>
  BY DEF sd_bus_add_match, Enters, callVars
<1>2. stage \in [Instances -> Stages] /\ socket \in [Instances -> Seq(Messages)]
  BY DEF NameInv, TypeOK
<1>3. i \notin matched /\ OwnerChanged \notin Range(socket[i])
  BY <1>1 DEF NameInv, MatchedSinceAsked, ChangedAfterMatch
<1>4. /\ socket'[i] \in Seq(Messages)
      /\ Range(socket'[i]) = Range(socket[i]) \cup {MatchAdded}
      /\ \A j \in Instances \ {i} : socket'[j] = socket[j]
  BY <1>1, <1>2, Posted, MessagesTyped
<1>5. Ordered(socket'[i])
  BY <1>3, <1>4, OrderedUnchanged, MessagesDiffer
<1>6. TypeOK'
  BY <1>1, <1>2, <1>4 DEF NameInv, TypeOK, Stages
<1>7. UntoldUntilAsking'
  BY <1>1, <1>2, <1>4 DEF NameInv, UntoldUntilAsking
<1>8. OwnerIsConnected' /\ MatchedSinceAsked' /\ RunsAsOwner'
  BY <1>1, <1>2 DEF NameInv, OwnerIsConnected, MatchedSinceAsked, RunsAsOwner
<1>9. GrantedIsOwner'
  BY <1>1, <1>4, MessagesDiffer DEF NameInv, GrantedIsOwner
<1>10. ChangedAfterMatch'
  BY <1>1, <1>4, <1>5 DEF NameInv, ChangedAfterMatch
<1>11. LoserIsTold'
  BY <1>1, <1>2, <1>4 DEF NameInv, LoserIsTold
<1> QED BY <1>6, <1>7, <1>8, <1>9, <1>10, <1>11 DEF NameInv

LEMMA LoopStartsSafe ==
  ASSUME NameInv, NEW i \in Instances, pollen_loop_run(i)
  PROVE  NameInv'
<1>1. /\ stage[i] = "matching" /\ TakesReply(i, MatchAdded)
      /\ stage' = [stage EXCEPT ![i] = "running"]
      /\ UNCHANGED <<lostAt, owner, matched, activation, status, delivered>>
  BY DEF pollen_loop_run, Enters, callVars
<1>2. stage \in [Instances -> Stages]
  BY DEF NameInv, TypeOK
<1>3. /\ socket' \in [Instances -> Seq(Messages)]
      /\ rqueue' \in [Instances -> Seq(Messages)]
      /\ \A j \in Instances \ {i} : socket'[j] = socket[j] /\ rqueue'[j] = rqueue[j]
      /\ Range(socket'[i]) \subseteq Range(socket[i])
      /\ OwnerChanged \in Range(socket[i]) => OwnerChanged \in Range(socket'[i])
      /\ OwnerChanged \notin Range(rqueue'[i])
      /\ Ordered(socket'[i])
  BY <1>1, ReplyTaken
<1>4. TypeOK'
  BY <1>1, <1>2, <1>3 DEF NameInv, TypeOK, Stages
<1>5. UntoldUntilAsking'
  BY <1>1, <1>2, <1>3 DEF NameInv, UntoldUntilAsking
<1>6. OwnerIsConnected' /\ MatchedSinceAsked' /\ RunsAsOwner'
  BY <1>1, <1>2 DEF NameInv, OwnerIsConnected, MatchedSinceAsked, RunsAsOwner
<1>7. GrantedIsOwner' /\ ChangedAfterMatch'
  BY <1>1, <1>3 DEF NameInv, GrantedIsOwner, ChangedAfterMatch
<1>8. LoserIsTold'
  BY <1>1, <1>2, <1>3 DEF NameInv, LoserIsTold
<1> QED BY <1>4, <1>5, <1>6, <1>7, <1>8 DEF NameInv

LEMMA LeavesSafe ==
  ASSUME NameInv, NEW i \in Instances, stage[i] # "new", Leaves(i)
  PROVE  NameInv'
<1>1. /\ stage' = [stage EXCEPT ![i] = "gone"]
      /\ rqueue' = [rqueue EXCEPT ![i] = <<>>]
      /\ socket' = [socket EXCEPT ![i] = <<>>]
      /\ status' = [c \in Calls |-> IF c \in CallsIn(Queued(i)) THEN "failed" ELSE status[c]]
      /\ matched' = matched \ {i}
      /\ owner' = IF owner = i THEN Nobody ELSE owner
      /\ UNCHANGED <<lostAt, activation, delivered>>
  BY DEF Leaves, Enters
<1>2. /\ stage \in [Instances -> Stages] /\ socket \in [Instances -> Seq(Messages)]
      /\ rqueue \in [Instances -> Seq(Messages)]
  BY DEF NameInv, TypeOK
<1>3. /\ socket'[i] = <<>> /\ rqueue'[i] = <<>>
      /\ Range(socket'[i]) = {} /\ Range(rqueue'[i]) = {}
      /\ \A j \in Instances \ {i} : socket'[j] = socket[j] /\ rqueue'[j] = rqueue[j]
  BY <1>1, <1>2 DEF Range
<1>4. Ordered(socket'[i])
  BY <1>3 DEF Ordered
<1>5. TypeOK'
  <2>1. status' \in [Calls -> CallStates]
    BY <1>1 DEF NameInv, TypeOK, CallStates
  <2> QED BY <1>1, <2>1 DEF NameInv, TypeOK, Stages
<1>6. UntoldUntilAsking'
  BY <1>1, <1>2, <1>3 DEF NameInv, UntoldUntilAsking
<1>7. OwnerIsConnected' /\ MatchedSinceAsked' /\ RunsAsOwner'
  BY <1>1, <1>2, StartupAssumption DEF NameInv, OwnerIsConnected, MatchedSinceAsked, RunsAsOwner
<1>8. GrantedIsOwner' /\ ChangedAfterMatch'
  BY <1>1, <1>3, <1>4 DEF NameInv, GrantedIsOwner, ChangedAfterMatch
<1>9. LoserIsTold'
  BY <1>1, <1>2, <1>3 DEF NameInv, LoserIsTold
<1> QED BY <1>5, <1>6, <1>7, <1>8, <1>9 DEF NameInv

LEMMA TerminateSafe ==
  ASSUME NameInv, NEW i \in Instances, Terminate(i)
  PROVE  NameInv'
<1>1. CASE stage[i] \in Starting /\ Leaves(i)
  BY <1>1, LeavesSafe DEF Starting
<1>2. CASE /\ stage[i] = "running"
           /\ stage' = [stage EXCEPT ![i] = "quitting"]
           /\ UNCHANGED <<owner, matched, activation, socket, rqueue, status, delivered, lostAt>>
  <2>1. stage \in [Instances -> Stages]
    BY DEF NameInv, TypeOK
  <2>2. TypeOK'
    BY <1>2, <2>1 DEF NameInv, TypeOK, Stages
  <2>3. UntoldUntilAsking' /\ OwnerIsConnected' /\ MatchedSinceAsked' /\ RunsAsOwner'
    BY <1>2, <2>1 DEF NameInv, UntoldUntilAsking, OwnerIsConnected, MatchedSinceAsked,
                      RunsAsOwner
  <2>4. GrantedIsOwner' /\ ChangedAfterMatch'
    BY <1>2 DEF NameInv, GrantedIsOwner, ChangedAfterMatch, Ordered
  <2>5. LoserIsTold'
    BY <1>2, <2>1 DEF NameInv, LoserIsTold
  <2> QED BY <2>2, <2>3, <2>4, <2>5 DEF NameInv
<1> QED BY <1>1, <1>2 DEF Terminate, Enters, busVars, callVars

(* sd_bus_process takes OwnerChanged only when it is the message. *)
LEMMA MessageTaken ==
  ASSUME NameInv, NEW i \in Instances, NEW m \in Messages, dbus_event_handler(i, m)
  PROVE  /\ socket' \in [Instances -> Seq(Messages)]
         /\ rqueue' \in [Instances -> Seq(Messages)]
         /\ \A j \in Instances \ {i} : socket'[j] = socket[j] /\ rqueue'[j] = rqueue[j]
         /\ Range(socket'[i]) \subseteq Range(socket[i])
         /\ m # OwnerChanged /\ OwnerChanged \in Range(socket[i])
              => OwnerChanged \in Range(socket'[i])
         /\ OwnerChanged \notin Range(rqueue'[i])
         /\ Ordered(socket'[i])
<1>1. /\ socket \in [Instances -> Seq(Messages)] /\ rqueue \in [Instances -> Seq(Messages)]
      /\ socket[i] \in Seq(Messages) /\ rqueue[i] \in Seq(Messages)
      /\ Ordered(socket[i]) /\ OwnerChanged \notin Range(rqueue[i])
  BY DEF NameInv, TypeOK, ChangedAfterMatch
<1>2. CASE rqueue[i] # <<>>
  <2>1. rqueue' = [rqueue EXCEPT ![i] = Tail(@)] /\ socket' = socket
    BY <1>2 DEF dbus_event_handler
  <2>2. Tail(rqueue[i]) \in Seq(Messages) /\ Range(Tail(rqueue[i])) \subseteq Range(rqueue[i])
    BY <1>1, <1>2, TailOfQueue
  <2> QED BY <1>1, <2>1, <2>2
<1>3. CASE rqueue[i] = <<>>
  <2>1. socket' = [socket EXCEPT ![i] = Tail(@)] /\ rqueue' = rqueue /\ socket[i] # <<>>
    BY <1>3 DEF dbus_event_handler
  <2>2. m = Head(socket[i])
    BY <1>1, <1>3 DEF dbus_event_handler, Queued
  <2>3. /\ Tail(socket[i]) \in Seq(Messages)
        /\ Range(Tail(socket[i])) \subseteq Range(socket[i])
        /\ Range(socket[i]) \subseteq Range(Tail(socket[i])) \cup {m}
        /\ Ordered(Tail(socket[i]))
    BY <1>1, <2>1, <2>2, TailOfQueue, OrderedTail
  <2> QED BY <1>1, <2>1, <2>3
<1> QED BY <1>2, <1>3

(* A message that is not OwnerChanged. *)
LEMMA OtherMessageSafe ==
  ASSUME NameInv, TypeOK', NEW i \in Instances, NEW m \in Messages, m # OwnerChanged,
         dbus_event_handler(i, m), UNCHANGED <<stage, lostAt, owner, matched>>
  PROVE  NameInv'
<1>1. stage[i] = "running"
  BY DEF dbus_event_handler
<1>2. /\ \A j \in Instances \ {i} : socket'[j] = socket[j] /\ rqueue'[j] = rqueue[j]
      /\ Range(socket'[i]) \subseteq Range(socket[i])
      /\ OwnerChanged \in Range(socket[i]) => OwnerChanged \in Range(socket'[i])
      /\ OwnerChanged \notin Range(rqueue'[i])
      /\ Ordered(socket'[i])
  BY MessageTaken
<1>3. UntoldUntilAsking'
  BY <1>1, <1>2 DEF NameInv, UntoldUntilAsking
<1>4. OwnerIsConnected' /\ MatchedSinceAsked' /\ RunsAsOwner'
  BY DEF NameInv, OwnerIsConnected, MatchedSinceAsked, RunsAsOwner
<1>5. GrantedIsOwner' /\ ChangedAfterMatch'
  BY <1>2 DEF NameInv, GrantedIsOwner, ChangedAfterMatch
<1>6. LoserIsTold'
  BY <1>2 DEF NameInv, LoserIsTold
<1> QED BY <1>3, <1>4, <1>5, <1>6 DEF NameInv

LEMMA HandlersSafe ==
  ASSUME NameInv, NEW i \in Instances,
         (\E c \in Calls : MethodCall(i, c)) \/ handle_name_lost(i) \/ OtherSignal(i)
  PROVE  NameInv'
<1>1. ASSUME NEW c \in Calls, MethodCall(i, c)  PROVE NameInv'
  <2>1. /\ dbus_event_handler(i, Call(c))
        /\ status' = [status EXCEPT ![c] = "handled"]
        /\ UNCHANGED <<stage, lostAt, owner, matched, activation, delivered>>
    BY <1>1 DEF MethodCall
  <2>2. Call(c) \in Messages /\ Call(c) # OwnerChanged
    BY MessagesDiffer, MessagesTyped
  <2>3. TypeOK'
    BY <2>1, <2>2, MessageTaken DEF NameInv, TypeOK, CallStates
  <2> QED BY <2>1, <2>2, <2>3, OtherMessageSafe
<1>2. ASSUME OtherSignal(i)  PROVE NameInv'
  <2>1. PICK m \in {NameAcquired, NameLost} : dbus_event_handler(i, m)
    BY <1>2 DEF OtherSignal
  <2>2. UNCHANGED <<stage, lostAt, owner, matched, activation, status, delivered>>
    BY <1>2 DEF OtherSignal, callVars
  <2>3. m \in Messages /\ m # OwnerChanged
    BY MessagesDiffer, MessagesTyped
  <2>4. TypeOK'
    BY <2>1, <2>2, <2>3, MessageTaken DEF NameInv, TypeOK
  <2> QED BY <2>1, <2>2, <2>3, <2>4, OtherMessageSafe
<1>3. ASSUME handle_name_lost(i)  PROVE NameInv'
  <2>1. /\ dbus_event_handler(i, OwnerChanged)
        /\ stage[i] = "running"
        /\ stage' = [stage EXCEPT ![i] = "quitting"]
        /\ UNCHANGED <<lostAt, owner, matched, activation, status, delivered>>
    BY <1>3 DEF handle_name_lost, Enters, callVars, dbus_event_handler
  <2>2. /\ socket' \in [Instances -> Seq(Messages)]
        /\ rqueue' \in [Instances -> Seq(Messages)]
        /\ \A j \in Instances \ {i} : socket'[j] = socket[j] /\ rqueue'[j] = rqueue[j]
        /\ Range(socket'[i]) \subseteq Range(socket[i])
        /\ OwnerChanged \notin Range(rqueue'[i])
        /\ Ordered(socket'[i])
    BY <2>1, MessageTaken, MessagesTyped
  <2>3. stage \in [Instances -> Stages]
    BY DEF NameInv, TypeOK
  <2>4. TypeOK'
    BY <2>1, <2>2, <2>3 DEF NameInv, TypeOK, Stages
  <2>5. UntoldUntilAsking'
    BY <2>1, <2>2, <2>3 DEF NameInv, UntoldUntilAsking
  <2>6. OwnerIsConnected' /\ MatchedSinceAsked' /\ RunsAsOwner'
    BY <2>1, <2>3 DEF NameInv, OwnerIsConnected, MatchedSinceAsked, RunsAsOwner
  <2>7. GrantedIsOwner' /\ ChangedAfterMatch'
    BY <2>1, <2>2 DEF NameInv, GrantedIsOwner, ChangedAfterMatch
  <2>8. LoserIsTold'
    BY <2>1, <2>2, <2>3 DEF NameInv, LoserIsTold
  <2> QED BY <2>4, <2>5, <2>6, <2>7, <2>8 DEF NameInv
<1> QED BY <1>1, <1>2, <1>3

LEMMA ClientsSafe ==
  ASSUME NameInv, (\E c \in Calls : ClientCall(c)) \/ ActivationFails
  PROVE  NameInv'
<1>1. /\ activation \in Seq(Calls) /\ status \in [Calls -> CallStates]
      /\ delivered \in [Instances -> Seq(Calls)] /\ socket \in [Instances -> Seq(Messages)]
      /\ owner \in Instances \cup {Nobody}
  BY DEF NameInv, TypeOK
<1>2. ASSUME ActivationFails  PROVE NameInv'
  <2>1. TypeOK'
    BY <1>1, <1>2 DEF ActivationFails, NameInv, TypeOK, CallStates
  <2> QED BY <1>2, <2>1, NothingMoves DEF ActivationFails
<1>3. ASSUME NEW c \in Calls, ClientCall(c), owner = Nobody  PROVE NameInv'
  <2>1. /\ activation' = Append(activation, c)
        /\ status' = [status EXCEPT ![c] = "pending"]
        /\ UNCHANGED <<socket, delivered, stage, rqueue, lostAt, owner, matched>>
    BY <1>3 DEF ClientCall
  <2>2. activation' \in Seq(Calls)
    BY <1>1, <2>1
  <2>3. TypeOK'
    BY <1>1, <2>1, <2>2 DEF NameInv, TypeOK, CallStates
  <2> QED BY <2>1, <2>3, NothingMoves
<1>4. ASSUME NEW c \in Calls, ClientCall(c), owner # Nobody  PROVE NameInv'
  <2>1. /\ socket' = [socket EXCEPT ![owner] = Append(@, Call(c))]
        /\ status' = [status EXCEPT ![c] = "sent"]
        /\ delivered' = [delivered EXCEPT ![owner] = Append(@, c)]
        /\ UNCHANGED <<activation, stage, rqueue, lostAt, owner, matched>>
    BY <1>4 DEF ClientCall
  <2>2. /\ owner \in Instances /\ Call(c) \in Messages
        /\ Call(c) \notin {OwnerChanged, MatchAdded, Granted}
        /\ stage[owner] \notin {"new", "configured"}
    BY <1>1, <1>4, MessagesTyped, MessagesDiffer DEF NameInv, OwnerIsConnected
  <2>3. Append(socket[owner], Call(c)) \in Seq(Messages) /\ Append(delivered[owner], c) \in Seq(Calls)
    BY <1>1, <2>2
  <2>4. TypeOK'
    BY <1>1, <2>1, <2>2, <2>3 DEF NameInv, TypeOK, CallStates
  <2> QED BY <2>1, <2>2, <2>4, ConnectedPosted
<1> QED BY <1>2, <1>3, <1>4

-----------------------------------------------------------------------------
(* The theorems *)

(* The invariant of the bus name holds always. *)
THEOREM NameInvariance == Spec => []NameInv
<1>1. NameInv /\ [Next]_vars => NameInv'
  <2> SUFFICES ASSUME NameInv, [Next]_vars  PROVE NameInv'
    OBVIOUS
  <2>1. ASSUME NEW i \in Instances, Proceed(i)  PROVE NameInv'
    <3>1. CASE sd_bus_request_name(i)
      BY <3>1, GrantNameSafe, RefuseNameSafe DEF sd_bus_request_name
    <3>2. CASE NameGranted(i)
      BY <3>2, NameGrantedSafe
    <3>3. CASE NameRefused(i)
      BY <3>3, LeavesSafe DEF NameRefused
    <3>4. CASE sd_bus_add_match(i)
      BY <3>4, AddMatchSafe
    <3>5. CASE pollen_loop_run(i)
      BY <3>5, LoopStartsSafe
    <3>6. CASE (\E c \in Calls : MethodCall(i, c)) \/ handle_name_lost(i) \/ OtherSignal(i)
      BY <3>6, HandlersSafe
    <3>7. CASE Exit(i)
      BY <3>7, LeavesSafe DEF Exit
    <3> QED BY <2>1, <3>1, <3>2, <3>3, <3>4, <3>5, <3>6, <3>7 DEF Proceed
  <2>2. ASSUME NEW i \in Instances, config_init(i) \/ StartFails(i) \/ Terminate(i)
        PROVE  NameInv'
    BY <2>2, ConfigInitSafe, LeavesSafe, TerminateSafe DEF StartFails, Starting
  <2>3. CASE (\E c \in Calls : ClientCall(c)) \/ ActivationFails
    BY <2>3, ClientsSafe
  <2>4. CASE UNCHANGED vars
    <3>1. UNCHANGED <<stage, owner, matched, activation, socket, rqueue, status, delivered, lostAt>>
      BY <2>4 DEF vars, busVars, callVars
    <3>2. TypeOK'
      BY <3>1 DEF NameInv, TypeOK
    <3> QED BY <3>1, <3>2, NothingMoves
  <2> QED BY <2>1, <2>2, <2>3, <2>4 DEF Next, Idle
<1> QED BY <1>1, NameInit, PTL DEF Spec

(* An instance that runs owns the name, or has lost it on record. *)
THEOREM RunningOwner == Spec => []RunsAsOwner
<1>1. NameInv => RunsAsOwner
  BY DEF NameInv
<1> QED BY <1>1, NameInvariance, PTL

(* An instance that loses the name after its match is installed has        *)
(* OwnerChanged waiting for it.                                            *)
THEOREM LoserInformed == Spec => []LoserIsTold
<1>1. NameInv => LoserIsTold
  BY DEF NameInv
<1> QED BY <1>1, NameInvariance, PTL
=============================================================================
