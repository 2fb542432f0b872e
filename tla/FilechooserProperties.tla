----------------------- MODULE FilechooserProperties -----------------------
(***************************************************************************)
(* What is claimed of the portal.  Invariants first, then what a step may  *)
(* never do, then what must eventually happen under FairSpec, and last     *)
(* what the documentation says and the code does not do.                   *)
(***************************************************************************)
EXTENDS Filechooser

Sources == Calls \cup {BusFd, SignalFd}

(* The loop is between or inside callbacks exactly as long as its batch is *)
(* not used up.                                                            *)
LoopTypeOK ==
  /\ mode \in Modes
  /\ callbacks \subseteq Sources
  /\ ready \in Seq(Sources)
  /\ events \in Seq(Sources)
  /\ mode \in {"dispatch", "handler"} <=> events # <<>>
  /\ shouldQuit \in BOOLEAN
  /\ retcode \in {-1, 0}

PickerTypeOK ==
  /\ proc \in [Calls -> ProcStates]
  /\ pid \in [Calls -> Pids \cup {NoPid}]
  /\ grouped \in [Calls -> BOOLEAN]
  /\ termPending \in [Calls -> BOOLEAN]
  /\ termBlocked \in [Calls -> BOOLEAN]
  /\ written \in [Calls -> 0..MaxLines]
  /\ pipe \in [Calls -> Nat]
  /\ wopen \in [Calls -> BOOLEAN]
  /\ ropen \in [Calls -> BOOLEAN]

PortalTypeOK ==
  /\ phase \in [Calls -> {"new", "sent", "handled"}]
  /\ closeSent \subseteq Calls
  /\ inbox \in Seq(Messages)
  /\ replies \in [Calls -> Seq(Replies)]
  /\ bus \in {"up", "lost", "closed"}
  /\ signals \subseteq {"TERM", "CHLD"}
  /\ requests \subseteq Calls
  /\ buffer \in [Calls -> Nat]
  /\ closed \subseteq Calls
  /\ handler \in Calls \cup {"none", "reap"}

(* Every variable keeps its type, a batch is left when and only when it is *)
(* used up, and a callback is suspended only while it has work left.       *)
TypeOK ==
  /\ LoopTypeOK
  /\ PickerTypeOK
  /\ PortalTypeOK
  /\ mode = "handler" <=> handler # "none"

-----------------------------------------------------------------------------
(* Invariants *)

(* End of file on the pipe, the death of the picker, Close and a failing   *)
(* method race to end a call: the client never gets two replies, and none  *)
(* to a call that was closed.                                              *)
AtMostOneReply ==
  \A c \in Calls : Len(replies[c]) <= IF c \in closed THEN 0 ELSE 1

(* As long as a request lives, what its picker has written is in the pipe  *)
(* or in the buffer, once; no reply names more than its picker has written.*)
SelectionConserved ==
  /\ \A r \in requests : buffer[r] + pipe[r] = written[r]
  /\ \A c \in Calls : \A i \in 1..Len(replies[c]) : replies[c][i].uris <= written[c]

(* The picker_pid of a request names its own picker and nothing else: that *)
(* picker has not been waited for, so the kernel cannot have given its pid *)
(* to another one, and kill and the reaper cannot hit the wrong request.   *)
PickerPidIsOwn ==
  \A r \in requests :
    /\ Unreaped(r)
    /\ \A c \in Calls \ {r} : Unreaped(c) => pid[c] # pid[r]

(* callback->data of a registered pipe callback points to a live request.  *)
CallbackDataLive == callbacks \cap Calls \subseteq requests

(* The daemon holds the reading end of a pipe only for a request that is   *)
(* listed or about to be: no descriptor is lost.                           *)
NoFdLeak == \A c \in Calls : ropen[c] => c \in requests \/ handler = c

(* A call the portal has taken on is never forgotten while the daemon and  *)
(* its bus live: it is being served, or was answered, or was closed.       *)
EveryCallAccountedFor ==
  (Alive /\ bus = "up") =>
    \A c \in Calls : phase[c] = "handled" =>
      \/ handler = c
      \/ c \in requests
      \/ replies[c] # <<>>
      \/ c \in closed

(* A call is told what was selected only when there is nothing to come:    *)
(* its picker has closed its output or has died.  Nobody's request ends    *)
(* for the picker of another, though pids are used again and the reaper    *)
(* (src/xdptf.c:67) goes by a pid that was stored long before.             *)
AnswersAreFinal ==
  \A c \in Calls : \A i \in 1..Len(replies[c]) :
    replies[c][i].code \in {"success", "cancelled"} => ~wopen[c]

-----------------------------------------------------------------------------
(* The inductive invariant behind them *)

(* Nothing has happened for call c, and its message is still to come.      *)
Untouched(c) ==
  /\ c \notin requests \cup closed
  /\ handler # c
  /\ proc[c] = "none"
  /\ replies[c] = <<>>
  /\ written[c] = 0 /\ pipe[c] = 0 /\ buffer[c] = 0

(* Call c is being served: it is unanswered, its picker is not waited for, *)
(* and nothing of what the picker has written is lost.                     *)
Served(c) ==
  /\ phase[c] = "handled"
  /\ c \notin closed
  /\ Unreaped(c)
  /\ replies[c] = <<>>
  /\ buffer[c] + pipe[c] = written[c]

MethodCallsOnce ==
  \A c \in Calls : \A i, j \in 1..Len(inbox) :
    inbox[i] = Open(c) => phase[c] = "sent" /\ (inbox[j] = Open(c) => i = j)

UntouchedUntilHandled ==
  \A c \in Calls : phase[c] # "handled" => Untouched(c)

RequestsServed ==
  /\ \A c \in Calls : c \in requests \/ handler = c => Served(c)
  /\ handler \notin requests
  /\ ~Alive => requests = {}

PidsDistinct ==
  \A c, d \in Calls : c # d /\ Unreaped(c) /\ Unreaped(d) => pid[c] # pid[d]

RepliesBounded ==
  \A c \in Calls :
    /\ replies[c] # <<>> => c \notin closed /\ Len(replies[c]) = 1
    /\ \A i \in 1..Len(replies[c]) : replies[c][i].uris <= written[c]

(* Each part relies on others: a reply is the first one because the        *)
(* request was served, which follows from the call having been untouched   *)
(* when it was taken from the inbox, where it was only once.               *)
IInv ==
  /\ TypeOK
  /\ CallbackDataLive
  /\ MethodCallsOnce
  /\ UntouchedUntilHandled
  /\ RequestsServed
  /\ PidsDistinct
  /\ RepliesBounded

-----------------------------------------------------------------------------
(* What a step may never do *)

(* SIGTERM is only ever sent to the picker of the request that the client  *)
(* has just asked to close.                                                *)
TermOnlyToOwnPicker ==
  [][\A c \in Calls :
       ~termPending[c] /\ termPending'[c] =>
         /\ c \in requests
         /\ \E d \in Calls : HandleOf[d] = HandleOf[c] /\ Head(inbox) = Close(d)]_vars

(* A reply that the end of file on the pipe brings about names everything  *)
(* the picker has written, the part that was read just before included,    *)
(* unless it reports that reading failed.                                  *)
EofDeliversEverything ==
  [][\A c \in Calls :
       RequestCallbackRuns(c) /\ replies'[c] # replies[c] =>
         replies'[c] \in {<<ResponseFor(written[c])>>, <<Ended[c]>>}]_vars

(* A request is only dropped with nothing sent to its caller by Close, by  *)
(* the end of the daemon or when the bus refuses the reply.                *)
RequestsEndWithReply ==
  [][\A r \in requests :
       r \notin requests' =>
         \/ Len(replies'[r]) = 1
         \/ r \in closed'
         \/ bus # "up"
         \/ mode' \in {"exited", "crashed"}]_vars

(* What closes the reading end of the pipe of c, some day: its method, or  *)
(* the cleanup of its request, which removes its callback.                 *)
ReadEndOwned(c) == handler = c \/ c \in requests \cap callbacks

(* Even when steps fail, a descriptor is only lost where its own method    *)
(* ends without having the loop watch it (src/filechooser.c:289 frees the  *)
(* request, and line 295 does not look at the result): one that was set up *)
(* is closed however its request ends.                                     *)
LeaksOnlyByFailedSetup ==
  [][\A c \in Calls :
       ropen'[c] /\ ~ReadEndOwned(c)' =>
         \/ ropen[c] /\ ~ReadEndOwned(c)
         \/ handler = c /\ handler' # c /\ c \notin callbacks']_vars

-----------------------------------------------------------------------------
(* The abstract specification the portal implements *)

CallStatus ==
  [c \in Calls |->
    IF phase[c] = "new" THEN "idle"
    ELSE IF phase[c] = "sent" THEN "requested"
    ELSE IF replies[c] # <<>> THEN "answered"
    ELSE IF c \in requests \/ handler = c THEN "picking"
    ELSE "dismissed"]

(* Two calls may ask for one object path. *)
SharedPaths == \E c, d \in Calls : c # d /\ HandleOf[c] = HandleOf[d]

(* What the service cannot promise when these calls may fail. *)
ServiceFailing ==
  {f \in {"error"} : {"vtable", "read"} \cap Faults # {} \/ SharedPaths}
    \cup {f \in {"silence"} : "send" \in Faults \/ "busdown" \in Env}

(* The calls at an object path that a client has asked to close. *)
Withdrawn == {c \in Calls : \E d \in closeSent : HandleOf[d] = HandleOf[c]}

Service ==
  INSTANCE FileChooserService
    WITH Failing <- ServiceFailing, serving <- Alive, status <- CallStatus,
         chosen <- written, withdrawn <- Withdrawn, answer <- replies

(* Whatever the order in which the portal learns of pipes, dead pickers,   *)
(* closed requests and signals, a call gets at most one answer, of paths   *)
(* that its picker has written.  Only Close or the end of the portal       *)
(* dismisses it, a lost reply if replies can get lost, and it only gets an *)
(* error once its picker runs if exporting or reading can fail.            *)
ImplementsService == Service!Spec

-----------------------------------------------------------------------------
(* What must eventually happen *)

(* Several deaths may share one SIGCHLD: every dead child is waited for.   *)
ZombiesAreReaped ==
  \A c \in Calls : proc[c] = "zombie" ~> proc[c] = "reaped"

(* A request whose picker has closed its output, by exiting or otherwise,  *)
(* ends: the loop cannot miss both end of file and SIGCHLD.                *)
EndedSelectionIsTaken ==
  \A c \in Calls : (c \in requests /\ ~wopen[c]) ~> c \notin requests

(* A call on a working bus is taken up, whatever else keeps the loop busy. *)
CallsAreHandled ==
  \A c \in Calls : phase[c] = "sent" ~> (phase[c] = "handled" \/ ~Alive)

(* SIGTERM ends the daemon, whatever else keeps the loop busy. *)
TermEndsDaemon == "TERM" \in signals ~> ~Alive

-----------------------------------------------------------------------------
(* What the documentation says and the code does not do *)

(* "Remove a callback from event loop" (lib/pollen.h:149): what has been   *)
(* removed is not dispatched.                                              *)
RemovedCallbackNeverRuns ==
  mode = "dispatch" => Head(events) \in callbacks

(* "Your script should write paths, each ending with newline, to fd 4"     *)
(* (examples/lf-wrapper.sh:14): a script that has done so and ended gets   *)
(* all its paths reported.                                                 *)
ResponseIsComplete ==
  \A c \in Calls : \A i \in 1..Len(replies[c]) :
    replies[c][i].code \in {"success", "cancelled"} =>
      replies[c][i] = ResponseFor(written[c])

(* Without a failing setpgid the daemon is able "to kill picker"           *)
(* (src/picker.c:72): the picker of a request that was closed dies.        *)
ClosedPickerDies ==
  \A c \in Calls : c \in closed ~> ~Living(c)
=============================================================================
