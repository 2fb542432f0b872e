------------------------------ MODULE Startup -------------------------------
(***************************************************************************)
(* Several instances of the daemon on one session bus: main of src/xdptf.c *)
(* and src/dbus.c from reading the configuration to the running loop, the  *)
(* competition for the bus name, and what becomes of method calls that     *)
(* arrive meanwhile.                                                       *)
(*                                                                         *)
(* dbus_init talks to the bus with synchronous calls.  While sd-bus waits  *)
(* for a reply, it puts whatever else it reads from the socket in a queue  *)
(* of its own, rqueue.  sd_bus_process, which the loop calls when the      *)
(* socket is readable, takes one message: from rqueue, or from the socket  *)
(* when rqueue is empty.                                                   *)
(***************************************************************************)
EXTENDS Config

CONSTANTS
  Instances,    \* processes that may be started
  Replacing,    \* those started with --replace
  Nobody,       \* the owner of a name that is free
  Calls,        \* method calls of clients
  FolderOf,     \* per call: the current_folder it asks for, or None
  Files,        \* what the configuration file may hold, as lines
  Faults        \* "init": a step of start-up may fail

(* "requesting", "matching": waiting for the reply of the bus.  "owning":  *)
(* between the two calls.  "quitting": the loop has ended.                 *)
Stages == {"new", "configured", "requesting", "owning", "matching", "running",
           "quitting", "gone"}

ASSUME StartupAssumption ==
  /\ Replacing \subseteq Instances
  /\ Nobody \notin Instances
  /\ None \notin Stages
  /\ \A lines \in Files : lines \in Seq(Range(lines)) /\ ConfigOf(lines) # None

VARIABLES
  file,         \* the lines of the configuration file
  stage,        \* per instance: how far main has come, see Stages
  config,       \* per instance: xdptf->config, or None before config_init
  owner,        \* the bus: who owns the name
  matched,      \* the bus: whose match on NameOwnerChanged is installed
  activation,   \* the bus: calls that wait for an owner, oldest first
  socket,       \* per instance: messages in its bus socket
  rqueue,       \* per instance: messages read by sd-bus, not dispatched
  status,       \* per call
  delivered,    \* per instance: the calls it has ever been sent
  folder,       \* per call: the folder its picker was started in
  lostAt        \* per instance: its stage when it lost the name, or None

busVars == <<owner, matched, activation, socket>>
callVars == <<status, delivered, folder>>
vars == <<file, stage, config, rqueue, lostAt, busVars, callVars>>

Starting == {"configured", "requesting", "owning", "matching"}

CallStates == {"new", "pending", "sent", "handled", "failed"}

-----------------------------------------------------------------------------
(* Messages *)

Call(c) == [type |-> "call", call |-> c]
NameAcquired == [type |-> "acquired"]    \* sent by the bus to the new owner
NameLost == [type |-> "lost"]            \* sent by the bus to the old owner
OwnerChanged == [type |-> "changed"]     \* only through the match
Granted == [type |-> "granted"]          \* the replies
Refused == [type |-> "refused"]
MatchAdded == [type |-> "added"]

Messages ==
  {Call(c) : c \in Calls} \cup {NameAcquired, NameLost, OwnerChanged, Granted, Refused,
                                MatchAdded}

(* The calls among the messages of a sequence. *)
CallsIn(messages) == {c \in Calls : \E n \in DOMAIN messages : messages[n] = Call(c)}

Queued(i) == rqueue[i] \o socket[i]

-----------------------------------------------------------------------------
Init ==
  /\ file \in Files
  /\ stage = [i \in Instances |-> "new"]
  /\ config = [i \in Instances |-> None]
  /\ owner = Nobody
  /\ matched = {}
  /\ activation = <<>>
  /\ socket = [i \in Instances |-> <<>>]
  /\ rqueue = [i \in Instances |-> <<>>]
  /\ status = [c \in Calls |-> "new"]
  /\ delivered = [i \in Instances |-> <<>>]
  /\ folder = [c \in Calls |-> None]
  /\ lostAt = [i \in Instances |-> None]

Enters(i, next) == stage' = [stage EXCEPT ![i] = next]

-----------------------------------------------------------------------------
(* main up to the loop *)

config_init(i) ==
  /\ stage[i] = "new"
  /\ IF ConfigAccepted(file)
     THEN /\ config' = [config EXCEPT ![i] = ConfigOf(file)]
          /\ Enters(i, "configured")
     ELSE /\ UNCHANGED config
          /\ Enters(i, "gone")
  /\ UNCHANGED <<rqueue, lostAt, busVars, callVars>>

(* SD_BUS_NAME_REPLACE_EXISTING; that others may replace an instance is    *)
(* always allowed, and none queues for the name.                           *)
MayReplace(i) == i \in Replacing

(* The bus gives the name to i.  Whoever had it is told; calls that waited *)
(* for an owner are sent to i, before the reply.                           *)
GrantName(i) ==
  /\ owner = Nobody \/ MayReplace(i)
  /\ owner' = i
  /\ activation' = <<>>
  /\ status' = [c \in Calls |-> IF status[c] = "pending" THEN "sent" ELSE status[c]]
  /\ delivered' = [delivered EXCEPT ![i] = @ \o activation]
  /\ lostAt' = [j \in Instances |-> IF j = owner THEN stage[j] ELSE lostAt[j]]
  /\ socket' =
       [j \in Instances |->
         IF j = i
         THEN socket[j] \o <<NameAcquired>>
                \o [n \in DOMAIN activation |-> Call(activation[n])] \o <<Granted>>
         ELSE IF j = owner
         THEN socket[j] \o <<NameLost>> \o (IF j \in matched THEN <<OwnerChanged>> ELSE <<>>)
         ELSE socket[j]]

RefuseName(i) ==
  /\ owner # Nobody
  /\ ~MayReplace(i)
  /\ socket' = [socket EXCEPT ![i] = Append(@, Refused)]
  /\ UNCHANGED <<owner, activation, status, delivered, lostAt>>

(* dbus_init up to sd_bus_request_name. *)
sd_bus_request_name(i) ==
  /\ stage[i] = "configured"
  /\ Enters(i, "requesting")
  /\ GrantName(i) \/ RefuseName(i)
  /\ UNCHANGED <<config, rqueue, matched, folder>>

(* A wrong version: what is read before the reply is dropped. *)
DropsOthers(i, reply) ==
  \E n \in DOMAIN socket[i] :
    /\ socket[i][n] = reply
    /\ UNCHANGED rqueue
    /\ socket' = [socket EXCEPT ![i] = SubSeq(@, n + 1, Len(@))]

(* A synchronous call reads up to its reply; what comes before it goes to  *)
(* rqueue.                                                                 *)
TakesReply(i, reply) ==
  \E n \in DOMAIN socket[i] :
    /\ socket[i][n] = reply
    /\ rqueue' = [rqueue EXCEPT ![i] = @ \o SubSeq(socket[i], 1, n - 1)]
    /\ socket' = [socket EXCEPT ![i] = SubSeq(@, n + 1, Len(@))]

(* A wrong version: the result of the request is not looked at. *)
IgnoresRefusal(i) ==
  /\ stage[i] = "requesting"
  /\ TakesReply(i, Granted) \/ TakesReply(i, Refused)
  /\ Enters(i, "owning")
  /\ UNCHANGED <<config, lostAt, owner, matched, activation, callVars>>

NameGranted(i) ==
  /\ stage[i] = "requesting"
  /\ TakesReply(i, Granted)
  /\ Enters(i, "owning")
  /\ UNCHANGED <<config, lostAt, owner, matched, activation, callVars>>

(* A wrong version: the rule of the match names another signal. *)
MatchesNothing(i) ==
  /\ stage[i] = "owning"
  /\ Enters(i, "matching")
  /\ socket' = [socket EXCEPT ![i] = Append(@, MatchAdded)]
  /\ UNCHANGED <<config, rqueue, matched, lostAt, owner, activation, callVars>>

sd_bus_add_match(i) ==
  /\ stage[i] = "owning"
  /\ Enters(i, "matching")
  /\ matched' = matched \cup {i}
  /\ socket' = [socket EXCEPT ![i] = Append(@, MatchAdded)]
  /\ UNCHANGED <<config, rqueue, lostAt, owner, activation, callVars>>

(* The match is installed; main creates the loop and enters it. *)
pollen_loop_run(i) ==
  /\ stage[i] = "matching"
  /\ TakesReply(i, MatchAdded)
  /\ Enters(i, "running")
  /\ UNCHANGED <<config, lostAt, owner, matched, activation, callVars>>

-----------------------------------------------------------------------------
(* The end of an instance *)

(* The cleanup of main closes the connection, or the kernel does.  The bus *)
(* releases the name, and callers that have no answer yet get an error     *)
(* from it.                                                                *)
Leaves(i) ==
  /\ Enters(i, "gone")
  /\ rqueue' = [rqueue EXCEPT ![i] = <<>>]
  /\ socket' = [socket EXCEPT ![i] = <<>>]
  /\ status' = [c \in Calls |-> IF c \in CallsIn(Queued(i)) THEN "failed" ELSE status[c]]
  /\ matched' = matched \ {i}
  /\ owner' = IF owner = i THEN Nobody ELSE owner
  /\ UNCHANGED <<config, lostAt, activation, delivered, folder>>

NameRefused(i) ==
  /\ stage[i] = "requesting"
  /\ Refused \in Range(socket[i])
  /\ Leaves(i)

(* Connecting, exporting the object, a synchronous call or the creation of *)
(* the loop fails: main cleans up and returns 1.                           *)
StartFails(i) ==
  /\ "init" \in Faults
  /\ stage[i] \in Starting
  /\ Leaves(i)

Exit(i) == stage[i] = "quitting" /\ Leaves(i)

(* SIGTERM: its default action before main has installed its handlers, the *)
(* end of the loop, when the batch that reports it is through, afterwards. *)
Terminate(i) ==
  \/ stage[i] \in Starting /\ Leaves(i)
  \/ /\ stage[i] = "running"
     /\ Enters(i, "quitting")
     /\ UNCHANGED <<config, rqueue, lostAt, busVars, callVars>>

-----------------------------------------------------------------------------
(* The running instance *)

(* A wrong version: what was read during start-up comes last. *)
SocketFirst(i, m) ==
  /\ stage[i] = "running"
  /\ socket[i] # <<>>
  /\ m = Head(socket[i])
  /\ socket' = [socket EXCEPT ![i] = Tail(@)]
  /\ UNCHANGED rqueue

(* dbus_event_handler: the socket is readable, and sd_bus_process takes    *)
(* message m.                                                              *)
dbus_event_handler(i, m) ==
  /\ stage[i] = "running"
  /\ socket[i] # <<>>
  /\ m = Head(Queued(i))
  /\ IF rqueue[i] # <<>>
     THEN /\ rqueue' = [rqueue EXCEPT ![i] = Tail(@)]
          /\ UNCHANGED socket
     ELSE /\ socket' = [socket EXCEPT ![i] = Tail(@)]
          /\ UNCHANGED rqueue

(* The folder exec_picker hands to the picker of a call. *)
FolderArgument(c) == IF FolderOf[c] # None THEN FolderOf[c] ELSE "/tmp"

MethodCall(i, c) ==
  /\ dbus_event_handler(i, Call(c))
  /\ status' = [status EXCEPT ![c] = "handled"]
  /\ folder' = [folder EXCEPT ![c] = FolderArgument(c)]
  /\ UNCHANGED <<stage, config, lostAt, owner, matched, activation, delivered>>

handle_name_lost(i) ==
  /\ dbus_event_handler(i, OwnerChanged)
  /\ Enters(i, "quitting")
  /\ UNCHANGED <<config, lostAt, owner, matched, activation, callVars>>

(* No handler matches: the message is only taken. *)
OtherSignal(i) ==
  /\ \E m \in {NameAcquired, NameLost} : dbus_event_handler(i, m)
  /\ UNCHANGED <<stage, config, lostAt, owner, matched, activation, callVars>>

-----------------------------------------------------------------------------
(* Clients.  A call on a free name waits until the bus has had an instance *)
(* started, or gives up.                                                   *)

ClientCall(c) ==
  /\ status[c] = "new"
  /\ IF owner = Nobody
     THEN /\ activation' = Append(activation, c)
          /\ status' = [status EXCEPT ![c] = "pending"]
          /\ UNCHANGED <<socket, delivered>>
     ELSE /\ socket' = [socket EXCEPT ![owner] = Append(@, Call(c))]
          /\ status' = [status EXCEPT ![c] = "sent"]
          /\ delivered' = [delivered EXCEPT ![owner] = Append(@, c)]
          /\ UNCHANGED activation
  /\ UNCHANGED <<stage, config, rqueue, lostAt, owner, matched, folder>>

ActivationFails ==
  /\ activation # <<>>
  /\ activation' = <<>>
  /\ status' = [c \in Calls |-> IF status[c] = "pending" THEN "failed" ELSE status[c]]
  /\ UNCHANGED <<stage, config, rqueue, lostAt, owner, matched, socket, delivered, folder>>

-----------------------------------------------------------------------------
(* What instance i does once it has started, unless it fails. *)
Proceed(i) ==
  \/ sd_bus_request_name(i)
  \/ NameGranted(i)
  \/ NameRefused(i)
  \/ sd_bus_add_match(i)
  \/ pollen_loop_run(i)
  \/ \E c \in Calls : MethodCall(i, c)
  \/ handle_name_lost(i)
  \/ OtherSignal(i)
  \/ Exit(i)

(* Everybody sleeps. *)
Idle ==
  /\ \A i \in Instances : stage[i] \in {"running", "gone"} /\ socket[i] = <<>>
  /\ UNCHANGED vars

Next ==
  /\ \/ \E i \in Instances : config_init(i) \/ Proceed(i) \/ StartFails(i) \/ Terminate(i)
     \/ \E c \in Calls : ClientCall(c)
     \/ ActivationFails
     \/ Idle
  /\ UNCHANGED file

Spec == Init /\ [][Next]_vars

(* An instance that has started keeps running, and the bus answers it.     *)
(* Nobody is obliged to start one, to call it or to stop it.               *)
FairSpec == Spec /\ \A i \in Instances : WF_vars(Proceed(i) /\ UNCHANGED file)
=============================================================================
