------------------------- MODULE StartupProperties -------------------------
(***************************************************************************)
(* What is claimed of the start of the daemon, of the bus name and of the  *)
(* calls that arrive meanwhile.                                            *)
(***************************************************************************)
EXTENDS Startup

(* Every variable keeps its type. *)
TypeOK ==
  /\ stage \in [Instances -> Stages]
  /\ owner \in Instances \cup {Nobody}
  /\ matched \subseteq Instances
  /\ activation \in Seq(Calls)
  /\ socket \in [Instances -> Seq(Messages)]
  /\ rqueue \in [Instances -> Seq(Messages)]
  /\ status \in [Calls -> CallStates]
  /\ delivered \in [Instances -> Seq(Calls)]
  /\ lostAt \in [Instances -> Stages \cup {None}]

-----------------------------------------------------------------------------
(* The configuration, by the words of examples/example.conf *)

Assigns(n, key) ==
  /\ ~file[n].short /\ ~file[n].comment /\ file[n].equals
  /\ file[n].key = key
  /\ file[n].value # None

Assignments(key) == {n \in DOMAIN file : Assigns(n, key)}

(* What the last assignment to key says, or default without one. *)
LastOr(key, default) ==
  IF Assignments(key) = {} THEN default
  ELSE file[CHOOSE n \in Assignments(key) : \A m \in Assignments(key) : m <= n].value

ExpectedConfig ==
  [picker_cmd |-> LastOr("picker_cmd", None),
   default_dir |-> LastOr("default_dir", IF Home # None THEN Home ELSE "/tmp"),
   loglevel |-> LastOr("loglevel", "quiet")]

Usable ==
  /\ ExpectedConfig.picker_cmd \in Executables
  /\ ExpectedConfig.default_dir \in Directories
  /\ \A n \in Assignments("loglevel") : file[n].value \in LogLevels

(* An instance goes beyond config_init exactly when the last assignments   *)
(* of the file and the defaults name a program and a directory, and then   *)
(* with these values.                                                      *)
ConfigIsLastAssignment ==
  \A i \in Instances :
    /\ config[i] # None => Usable /\ config[i] = ExpectedConfig
    /\ stage[i] = "gone" /\ config[i] = None => ~Usable

(* The inductive invariant behind it: the file and what an instance has    *)
(* made of it stay.                                                        *)
ConfigInv ==
  /\ file \in Files
  /\ config = [i \in Instances |->
                IF stage[i] # "new" /\ ConfigAccepted(file) THEN ConfigOf(file) ELSE None]

-----------------------------------------------------------------------------
(* The bus name *)

(* An instance that runs owns the name, unless another took it away.       *)
RunsAsOwner ==
  \A i \in Instances :
    stage[i] \in {"owning", "matching", "running"} /\ lostAt[i] = None => owner = i

(* An instance that loses the name once its match is installed has the     *)
(* signal that ends it on its way, until it does end.                      *)
LoserIsTold ==
  \A i \in Instances :
    lostAt[i] \in {"matching", "running"} =>
      stage[i] \in {"quitting", "gone"} \/ OwnerChanged \in Range(socket[i])

-----------------------------------------------------------------------------
(* The inductive invariant behind them *)

(* Nobody has written to an instance that has not asked for the name.      *)
UntoldUntilAsking ==
  \A i \in Instances :
    stage[i] \in {"new", "configured"} =>
      socket[i] = <<>> /\ rqueue[i] = <<>> /\ lostAt[i] = None

OwnerIsConnected ==
  \A i \in Instances :
    owner = i => lostAt[i] = None /\ stage[i] \notin {"new", "configured", "gone"}

MatchedSinceAsked ==
  \A i \in Instances : i \in matched <=> stage[i] \in {"matching", "running", "quitting"}

(* The reply of the bus is still true when it is read, or the loss of the  *)
(* name is on record.                                                      *)
GrantedIsOwner ==
  \A i \in Instances : Granted \in Range(socket[i]) /\ lostAt[i] = None => owner = i

Ordered(q) ==
  \A m, n \in DOMAIN q : q[m] = OwnerChanged /\ q[n] = MatchAdded => n < m

(* OwnerChanged comes after the reply to sd_bus_add_match, so that waiting *)
(* for that reply does not move it to rqueue, behind the loop's back.      *)
ChangedAfterMatch ==
  \A i \in Instances :
    /\ OwnerChanged \notin Range(rqueue[i])
    /\ i \notin matched => OwnerChanged \notin Range(socket[i])
    /\ Ordered(socket[i])

NameInv ==
  /\ TypeOK
  /\ UntoldUntilAsking
  /\ OwnerIsConnected
  /\ MatchedSinceAsked
  /\ GrantedIsOwner
  /\ ChangedAfterMatch
  /\ RunsAsOwner
  /\ LoserIsTold

-----------------------------------------------------------------------------
(* Calls *)

Positions(c) ==
  UNION {{<<i, n>> : n \in {k \in DOMAIN Queued(i) : Queued(i)[k] = Call(c)}} : i \in Instances}

(* A call that has been sent waits in one place, between the socket and    *)
(* the queue of sd-bus, and is not dispatched twice.                       *)
CallsConserved ==
  \A c \in Calls :
    /\ Cardinality(Positions(c)) = IF status[c] = "sent" THEN 1 ELSE 0
    /\ status[c] = "pending" <=> c \in Range(activation)

(* An instance takes up the calls sent to it in their order, those of its  *)
(* start-up included.                                                      *)
HandledInOrder ==
  \A i \in Instances : \A n \in DOMAIN delivered[i] : \A m \in 1..(n - 1) :
    status[delivered[i][n]] = "handled" => status[delivered[i][m]] = "handled"

-----------------------------------------------------------------------------
(* The inductive invariant behind them *)

(* Two calls that wait in a queue, one before the other. *)
Before(q, c, d) == \E k, l \in DOMAIN q : k < l /\ q[k] = Call(c) /\ q[l] = Call(d)

(* A call that has been sent waits with the one instance it was sent to.   *)
SentCallsWait ==
  /\ \A i \in Instances, c \in Calls :
       /\ ~Before(Queued(i), c, c)
       /\ c \in CallsIn(Queued(i)) <=> c \in Range(delivered[i]) /\ status[c] = "sent"
  /\ \A c \in Calls : status[c] = "sent" => \E i \in Instances : c \in CallsIn(Queued(i))

(* A call is sent to one instance, once. *)
SentOnce ==
  /\ \A i, j \in Instances : i # j => Range(delivered[i]) \cap Range(delivered[j]) = {}
  /\ \A i \in Instances : IsInjective(delivered[i])
  /\ \A i \in Instances : \A c \in Range(delivered[i]) : status[c] \notin {"new", "pending"}

PendingCallsWait ==
  /\ IsInjective(activation)
  /\ \A c \in Calls : status[c] = "pending" <=> c \in Range(activation)

(* Calls wait in the order they were sent, behind those that are handled.  *)
(* The bus fails them only together, when the instance has gone.           *)
InOrder(i) ==
  \A n \in DOMAIN delivered[i] :
    LET status_n == status[delivered[i][n]] IN
      /\ status_n = "failed" => stage[i] = "gone"
      /\ \A m \in 1..(n - 1) :
           /\ status_n = "handled" => status[delivered[i][m]] = "handled"
           /\ status_n = "sent" =>
                \/ status[delivered[i][m]] = "handled"
                \/ /\ status[delivered[i][m]] = "sent"
                   /\ Before(Queued(i), delivered[i][m], delivered[i][n])

CallsInv ==
  /\ \A i \in Instances : stage[i] \in {"new", "configured"} => delivered[i] = <<>>
  /\ SentCallsWait
  /\ SentOnce
  /\ PendingCallsWait
  /\ \A i \in Instances : InOrder(i)

StartupInv == ConfigInv /\ NameInv /\ CallsInv

-----------------------------------------------------------------------------
(* What must eventually happen *)

(* Only the socket wakes the loop.  A call in the queue of sd-bus is       *)
(* reached once anything at all arrives behind it.                         *)
QueuedCallIsReached ==
  \A i \in Instances, c \in Calls :
    (stage[i] = "running" /\ c \in CallsIn(rqueue[i]) /\ socket[i] # <<>>)
      ~> status[c] # "sent"

(* An instance that has lost the name ends, if its match was installed. *)
LoserEnds ==
  \A i \in Instances : lostAt[i] \in {"matching", "running"} ~> stage[i] = "gone"

-----------------------------------------------------------------------------
(* What the documentation says and the code does not do *)

(* "Replace a running instance" (src/xdptf.c:23): one that was replaced    *)
(* does not stay.                                                          *)
ReplacedEnds ==
  \A i \in Instances : lostAt[i] # None ~> stage[i] = "gone"

(* "When an application doesn't provide default directory [...] this one   *)
(* will be used" (examples/example.conf:14).                               *)
DefaultDirIsUsed ==
  \A i \in Instances : \A n \in DOMAIN delivered[i] :
    LET c == delivered[i][n] IN
      status[c] = "handled" /\ FolderOf[c] = None => folder[c] = config[i].default_dir
=============================================================================
