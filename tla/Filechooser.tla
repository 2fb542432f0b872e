----------------------------- MODULE Filechooser -----------------------------
(***************************************************************************)
(* The portal: src/filechooser.c, the event handlers of src/xdptf.c and    *)
(* src/dbus.c, composed with the event loop (Pollen) and the picker        *)
(* processes (Picker).  A D-Bus call to OpenFile or SaveFile starts a      *)
(* picker and a request object; the request ends when its pipe reaches     *)
(* end of file, when its picker is reaped, when the client closes it or    *)
(* when the daemon stops, whichever the loop comes to first.               *)
(*                                                                         *)
(* Both methods have the same control flow and are one action here.  The   *)
(* request object, its callback and its picker are named by the call they  *)
(* serve.                                                                  *)
(***************************************************************************)
EXTENDS Pollen, Picker

CONSTANTS
  Handles,     \* D-Bus object paths
  HandleOf,    \* the object path each call asks its request to live at
  Env          \* what the environment may do: "close", "term", "lost", "busdown"

SignalFd == "signalfd"
BusFd == "busfd"

ASSUME FilechooserAssumption ==
  /\ HandleOf \in [Calls -> Handles]
  /\ {SignalFd, BusFd, "none", "reap"} \cap Calls = {}

VARIABLES
  phase,       \* per call: "new", "sent" (in flight), "handled"
  closeSent,   \* calls whose request the client has asked to close
  inbox,       \* messages on the bus connection, oldest first
  replies,     \* per call: the replies the client has been sent
  bus,         \* the bus connection: "up", "lost", "closed"
  signals,     \* signals pending for the signalfd
  requests,    \* xdptf->requests
  buffer,      \* per request: selections read from the pipe
  closed,      \* requests that method_close has ended
  handler      \* what the callback in progress still has to do

busVars == <<phase, closeSent, inbox, replies, bus>>
requestVars == <<requests, buffer, closed>>
vars == <<pollenVars, pickerVars, busVars, requestVars, signals, handler>>

-----------------------------------------------------------------------------
(* Messages, replies and readiness *)

Open(c) == [type |-> "open", call |-> c]
Close(c) == [type |-> "close", call |-> c]
NameLost == [type |-> "lost"]

Messages == [type : {"open", "close"}, call : Calls] \cup {NameLost}

(* The codes are enum PORTAL_RESPONSE_*, "error" a D-Bus error reply. *)
Replies == [code : {"success", "cancelled", "ended", "error"}, uris : Nat]

Ended == [c \in Calls |-> [code |-> "ended", uris |-> 0]]
Error == [c \in Calls |-> [code |-> "error", uris |-> 0]]

(* What filechooser_request_finalize makes of a buffer of n selections. *)
ResponseFor(n) ==
  [code |-> IF n = 0 THEN "cancelled" ELSE "success", uris |-> n]

(* The descriptors poll() would report as readable. *)
Level ==
  {c \in callbacks \cap Calls : Readable(c)}
    \cup {s \in {SignalFd} : signals # {}}
    \cup {b \in {BusFd} : inbox # <<>> \/ bus = "lost"}

(* Those of the requests R whose reply sd_bus_send accepts. *)
Sendable(R) ==
  IF bus # "up" THEN {{}} ELSE IF "send" \in Faults THEN SUBSET R ELSE {R}

(* replies after each call c in R has been sent reply[c]. *)
WithReplies(R, reply) ==
  [c \in Calls |-> IF c \in R THEN Append(replies[c], reply[c]) ELSE replies[c]]

-----------------------------------------------------------------------------
Init ==
  /\ PollenInit({BusFd, SignalFd})
  /\ PickerInit
  /\ phase = [c \in Calls |-> "new"]
  /\ closeSent = {}
  /\ inbox = <<>>
  /\ replies = [c \in Calls |-> <<>>]
  /\ bus = "up"
  /\ signals = {}
  /\ requests = {}
  /\ buffer = [c \in Calls |-> 0]
  /\ closed = {}
  /\ handler = "none"

-----------------------------------------------------------------------------
(* The life of a request *)

(* A wrong version: nothing is removed. *)
CallbacksKept(R) == UNCHANGED <<callbacks, ropen, pipe>>

(* pollen_loop_remove_callback for the callbacks of the requests R that    *)
(* have one: as autoclose was asked for, the reading end is closed, and    *)
(* what was in the pipe is gone.                                           *)
pollen_loop_remove_callback(R) ==
  /\ callbacks' = callbacks \ R
  /\ ropen' = [c \in Calls |-> ropen[c] /\ c \notin R \cap callbacks]
  /\ pipe' = [c \in Calls |-> IF c \in R \cap callbacks THEN 0 ELSE pipe[c]]

(* A wrong version: without LIST_REMOVE. *)
CleanupKeepsRequest(R) ==
  /\ pollen_loop_remove_callback(R)
  /\ buffer' = [c \in Calls |-> IF c \in R THEN 0 ELSE buffer[c]]
  /\ UNCHANGED requests

(* filechooser_request_cleanup of every request in R: it leaves the list,  *)
(* its object path and its buffer are freed and its callback is removed,   *)
(* the only thing that closes the reading end.                             *)
filechooser_request_cleanup(R) ==
  /\ requests' = requests \ R
  /\ pollen_loop_remove_callback(R)
  /\ buffer' = [c \in Calls |-> IF c \in R THEN 0 ELSE buffer[c]]

(* A wrong version: an empty buffer is not answered. *)
FinalizeSelectedOnly(R, bytes, sent) ==
  /\ replies' = WithReplies({c \in sent : bytes[c] > 0},
                            [c \in Calls |-> ResponseFor(bytes[c])])
  /\ filechooser_request_cleanup(R)

(* filechooser_request_finalize of the requests R, with bytes[c] in the    *)
(* buffer of each; sent are those whose response could be sent.            *)
filechooser_request_finalize(R, bytes, sent) ==
  /\ replies' = WithReplies(sent, [c \in Calls |-> ResponseFor(bytes[c])])
  /\ filechooser_request_cleanup(R)

(* The process is gone, and with it everything the kernel, sd-bus and the  *)
(* allocator held for it; init adopts the pickers.                         *)
DaemonGone(how) ==
  /\ mode' = how
  /\ requests' = {}
  /\ callbacks' = {}
  /\ ready' = <<>>
  /\ events' = <<>>
  /\ signals' = {}
  /\ handler' = "none"
  /\ inbox' = <<>>
  /\ bus' = "closed"
  /\ ropen' = [c \in Calls |-> FALSE]
  /\ pipe' = [c \in Calls |-> 0]
  /\ buffer' = [c \in Calls |-> 0]
  /\ proc' = [c \in Calls |-> IF proc[c] = "zombie" THEN "reaped" ELSE proc[c]]
  /\ UNCHANGED <<shouldQuit, retcode, pid, grouped, termPending, termBlocked,
                 written, wopen, phase, closeSent, replies, closed>>
-----------------------------------------------------------------------------
(* Callbacks of the bus descriptor: dbus_event_handler has sd-bus process  *)
(* the oldest message.                                                     *)

MessageIs(m) ==
  /\ Dispatching(BusFd)
  /\ inbox # <<>>
  /\ Head(inbox) = m

(* sd-bus finds that the connection is lost and closes it, which takes its *)
(* descriptor out of epoll.  If sd_bus_process reports an error, the loop  *)
(* stops; if it does not, the daemon goes on without a bus.                *)
BusConnectionLost ==
  /\ Dispatching(BusFd)
  /\ bus = "lost"
  /\ bus' = "closed"
  /\ inbox' = <<>>
  /\ \E ret \in {-1, 0} : CallbackReturns(ret, FALSE)
  /\ UNCHANGED <<callbacks, ready, pickerVars, phase, closeSent, replies,
                 requestVars, signals, handler>>

(* method_open_file or method_save_file returns an error before a picker   *)
(* runs: the arguments cannot be read, or exec_picker failed.  sd-bus      *)
(* turns the negative return value into an error reply.                    *)
MethodCallFails(c) ==
  /\ MessageIs(Open(c))
  /\ "parse" \in Faults \/ exec_picker_fails
  /\ \E sent \in Sendable({c}) : replies' = WithReplies(sent, Error)
  /\ phase' = [phase EXCEPT ![c] = "handled"]
  /\ inbox' = Tail(inbox)
  /\ CallbackReturns(0, FALSE)
  /\ UNCHANGED <<callbacks, ready, pickerVars, closeSent, bus, requestVars,
                 signals, handler>>

(* The method has forked the picker.  From here on the child runs          *)
(* concurrently with the rest of the method.                               *)
MethodCallForks(c) ==
  /\ MessageIs(Open(c))
  /\ exec_picker(c)
  /\ phase' = [phase EXCEPT ![c] = "handled"]
  /\ inbox' = Tail(inbox)
  /\ handler' = c
  /\ CallbackContinues
  /\ UNCHANGED <<callbacks, ready, closeSent, replies, bus, requestVars, signals>>

(* A request lives at the object path that call c asks for. *)
HandleTaken(c) == \E r \in requests : HandleOf[r] = HandleOf[c]

(* A wrong version: the request has entered the list before. *)
VtableFailsAfterInsert(c) ==
  /\ handler = c
  /\ HandleTaken(c) \/ "vtable" \in Faults
  /\ \E sent \in Sendable({c}) : replies' = WithReplies(sent, Error)
  /\ requests' = requests \cup {c}
  /\ handler' = "none"
  /\ CallbackReturns(0, FALSE)
  /\ UNCHANGED <<callbacks, ready, pickerVars, phase, closeSent, inbox, bus,
                 buffer, closed, signals>>

(* sd_bus_add_object_vtable refuses the object path: the method frees the  *)
(* request and returns an error.  The picker and the reading end of its    *)
(* pipe stay as they are.                                                  *)
MethodCallVtableFails(c) ==
  /\ handler = c
  /\ HandleTaken(c) \/ "vtable" \in Faults
  /\ \E sent \in Sendable({c}) : replies' = WithReplies(sent, Error)
  /\ handler' = "none"
  /\ CallbackReturns(0, FALSE)
  /\ UNCHANGED <<callbacks, ready, pickerVars, phase, closeSent, inbox, bus,
                 requestVars, signals>>

(* The request is registered: object path, list, event loop.  The result   *)
(* of pollen_loop_add_fd is not checked.                                   *)
MethodCallRegisters(c) ==
  /\ handler = c
  /\ ~HandleTaken(c)
  /\ requests' = requests \cup {c}
  /\ \/ pollen_loop_add_fd(c, Readable(c))
     \/ /\ "addfd" \in Faults
        /\ UNCHANGED <<callbacks, ready>>
  /\ handler' = "none"
  /\ CallbackReturns(0, FALSE)
  /\ UNCHANGED <<pickerVars, busVars, buffer, closed, signals>>

(* The client closes request r.  If the reply to Close cannot be sent, the *)
(* picker has been signalled but the request stays.  A request that is     *)
(* closed gets no response to its own call.                                *)
method_close(r) ==
  /\ \E c \in Calls : HandleOf[c] = HandleOf[r] /\ MessageIs(Close(c))
  /\ r \in requests
  /\ termPending' = TermAfterKill(pid[r])
  /\ \E sent \in Sendable({r}) :
       /\ closed' = closed \cup sent
       /\ filechooser_request_cleanup(sent)
  /\ inbox' = Tail(inbox)
  /\ CallbackReturns(0, FALSE)
  /\ UNCHANGED <<ready, proc, pid, grouped, termBlocked, written, wopen, phase,
                 closeSent, replies, bus, signals, handler>>

(* There is no object at the path any more: sd-bus answers by itself. *)
CloseUnknownObject(c) ==
  /\ MessageIs(Close(c))
  /\ ~HandleTaken(c)
  /\ inbox' = Tail(inbox)
  /\ CallbackReturns(0, FALSE)
  /\ UNCHANGED <<callbacks, ready, pickerVars, phase, closeSent, replies, bus,
                 requestVars, signals, handler>>

handle_name_lost ==
  /\ MessageIs(NameLost)
  /\ inbox' = Tail(inbox)
  /\ CallbackReturns(0, TRUE)
  /\ UNCHANGED <<callbacks, ready, pickerVars, phase, closeSent, replies, bus,
                 requestVars, signals, handler>>

-----------------------------------------------------------------------------
(* Callbacks of the pipes *)

(* The callback of request c runs: the batch says so, or the batch names a *)
(* callback that has been freed and whose memory now holds that of c.      *)
RequestCallbackRuns(c) ==
  /\ mode = "dispatch"
  /\ Head(events) \in {c} \cup (Calls \ callbacks)
  /\ c \in callbacks

(* A wrong version: what is read replaces what the buffer holds. *)
AllBytesOfLastRead == pipe

(* What is in each buffer after read() has been called until it fails. *)
AllBytes == [c \in Calls |-> buffer[c] + pipe[c]]

(* Everything that is in the pipe has been read; the child still holds the *)
(* writing end, so that read() ends with EAGAIN.                           *)
PipeDrained(c) ==
  /\ RequestCallbackRuns(c)
  /\ wopen[c]
  /\ buffer' = [buffer EXCEPT ![c] = AllBytes[c]]
  /\ pipe' = [pipe EXCEPT ![c] = 0]
  /\ CallbackReturns(0, FALSE)
  /\ UNCHANGED <<callbacks, ready, procVars, written, wopen, ropen, busVars,
                 requests, closed, signals, handler>>

(* read() ends with end of file: the request is finalized, and a response  *)
(* that cannot be sent stops the loop.                                     *)
PipeEof(c) ==
  /\ RequestCallbackRuns(c)
  /\ ~wopen[c]
  /\ \E sent \in Sendable({c}) :
       /\ filechooser_request_finalize({c}, AllBytes, sent)
       /\ CallbackReturns(IF sent = {} THEN -1 ELSE 0, FALSE)
  /\ UNCHANGED <<ready, procVars, written, wopen, phase, closeSent, inbox, bus,
                 closed, signals, handler>>

(* read() fails: the call is answered, the request dropped and the loop    *)
(* stopped.                                                                *)
PipeError(c) ==
  /\ RequestCallbackRuns(c)
  /\ "read" \in Faults
  /\ \E sent \in Sendable({c}) : replies' = WithReplies(sent, Ended)
  /\ filechooser_request_cleanup({c})
  /\ CallbackReturns(-1, FALSE)
  /\ UNCHANGED <<ready, procVars, written, wopen, phase, closeSent, inbox, bus,
                 closed, signals, handler>>

(* The batch still names a callback that an earlier callback of the same   *)
(* batch has freed.  Reading it is undefined: it may not be recognised     *)
(* ("got invalid callback type"), the process may die, or the memory still *)
(* looks like a callback and finds nothing to do.                          *)
StaleDispatch(c) ==
  /\ Dispatching(c)
  /\ c \notin callbacks
  /\ \/ /\ \E ret \in {-1, 0} : CallbackReturns(ret, FALSE)
        /\ UNCHANGED <<callbacks, ready, pickerVars, busVars, requestVars, signals,
                       handler>>
     \/ DaemonGone("crashed")

-----------------------------------------------------------------------------
(* Callbacks of the signalfd: pollen_internal_signal_handler reads one     *)
(* pending signal, the one with the lowest number first.                   *)

sigint_sigterm_handler ==
  /\ Dispatching(SignalFd)
  /\ "TERM" \in signals
  /\ signals' = signals \ {"TERM"}
  /\ CallbackReturns(0, TRUE)
  /\ UNCHANGED <<callbacks, ready, pickerVars, busVars, requestVars, handler>>

(* sigchld_handler is entered; its loop over waitpid follows. *)
sigchld_handler ==
  /\ Dispatching(SignalFd)
  /\ signals = {"CHLD"}
  /\ signals' = {}
  /\ handler' = "reap"
  /\ CallbackContinues
  /\ UNCHANGED <<callbacks, ready, pickerVars, busVars, requestVars>>

(* A wrong version: the reaper leaves all requests to their pipes. *)
RequestsOfNone(z) == {}

(* A wrong version: picker_pid is not compared. *)
RequestsOfAll(z) == requests

(* The requests whose picker_pid is the process id of z. *)
RequestsOf(z) == {r \in requests : pid[r] = pid[z]}

(* waitpid returns a dead child z, and its requests are finalized with     *)
(* what their buffers hold now.                                            *)
ReapChild(z) ==
  /\ handler = "reap"
  /\ proc[z] = "zombie"
  /\ proc' = [proc EXCEPT ![z] = "reaped"]
  /\ \E sent \in Sendable(RequestsOf(z)) :
       filechooser_request_finalize(RequestsOf(z), buffer, sent)
  /\ UNCHANGED <<mode, ready, events, shouldQuit, retcode, pid, grouped,
                 termPending, termBlocked, written, wopen, phase, closeSent,
                 inbox, bus, closed, signals, handler>>

(* A wrong version: waitpid may be called only once. *)
ReapDoneEarly ==
  /\ handler = "reap"
  /\ handler' = "none"
  /\ CallbackReturns(0, FALSE)
  /\ UNCHANGED <<callbacks, ready, pickerVars, busVars, requestVars, signals>>

(* waitpid has no dead child to report. *)
ReapDone ==
  /\ handler = "reap"
  /\ \A c \in Calls : proc[c] # "zombie"
  /\ handler' = "none"
  /\ CallbackReturns(0, FALSE)
  /\ UNCHANGED <<callbacks, ready, pickerVars, busVars, requestVars, signals>>

-----------------------------------------------------------------------------
(* main, once pollen_loop_run has returned: every request is cleaned up    *)
(* without a response, the bus is closed and the process ends.             *)
Exit == mode = "cleanup" /\ DaemonGone("exited")

-----------------------------------------------------------------------------
(* The environment: the portal's client, the bus, signals and the children *)

ClientCall(c) ==
  /\ Alive
  /\ bus = "up"
  /\ phase[c] = "new"
  /\ phase' = [phase EXCEPT ![c] = "sent"]
  /\ inbox' = Append(inbox, Open(c))
  /\ ready' = Wake(ready, BusFd)
  /\ UNCHANGED <<mode, callbacks, events, shouldQuit, retcode, pickerVars, closeSent,
                 replies, bus, requestVars, signals, handler>>

(* The client closes a request it has made, answered or not. *)
ClientClose(c) ==
  /\ "close" \in Env
  /\ Alive
  /\ bus = "up"
  /\ phase[c] # "new"
  /\ c \notin closeSent
  /\ closeSent' = closeSent \cup {c}
  /\ inbox' = Append(inbox, Close(c))
  /\ ready' = Wake(ready, BusFd)
  /\ UNCHANGED <<mode, callbacks, events, shouldQuit, retcode, pickerVars, phase,
                 replies, bus, requestVars, signals, handler>>

(* Another instance takes over the bus name: NameOwnerChanged arrives. *)
LoseName ==
  /\ "lost" \in Env
  /\ Alive
  /\ bus = "up"
  /\ ~shouldQuit
  /\ \A i \in 1..Len(inbox) : inbox[i] # NameLost
  /\ inbox' = Append(inbox, NameLost)
  /\ ready' = Wake(ready, BusFd)
  /\ UNCHANGED <<mode, callbacks, events, shouldQuit, retcode, pickerVars, phase,
                 closeSent, replies, bus, requestVars, signals, handler>>

(* The connection breaks; what has arrived may or may not still be read. *)
LoseBus ==
  /\ "busdown" \in Env
  /\ Alive
  /\ bus = "up"
  /\ bus' = "lost"
  /\ inbox' \in {inbox, <<>>}
  /\ ready' = Wake(ready, BusFd)
  /\ UNCHANGED <<mode, callbacks, events, shouldQuit, retcode, pickerVars, phase,
                 closeSent, replies, requestVars, signals, handler>>

(* SIGINT or SIGTERM is sent to the daemon. *)
SendTerm ==
  /\ "term" \in Env
  /\ Alive
  /\ ~shouldQuit
  /\ "TERM" \notin signals
  /\ signals' = signals \cup {"TERM"}
  /\ ready' = Wake(ready, SignalFd)
  /\ UNCHANGED <<mode, callbacks, events, shouldQuit, retcode, pickerVars, busVars,
                 requestVars, handler>>

loopUnchanged == UNCHANGED <<mode, callbacks, events, shouldQuit, retcode>>
appUnchanged == UNCHANGED <<busVars, requestVars, handler>>

(* Something happened at the pipe: the loop is woken if it watches it. *)
WakePipe(c) == IF c \in callbacks THEN Wake(ready, c) ELSE ready

(* The death of a child closes its end of the pipe and then raises SIGCHLD *)
(* as long as there is a daemon to receive it.                             *)
ChildSignals(c) ==
  /\ signals' = IF Alive THEN signals \cup {"CHLD"} ELSE signals
  /\ ready' = IF Alive THEN Wake(WakePipe(c), SignalFd) ELSE ready

Fate == IF Alive THEN "zombie" ELSE "reaped"

Start(c) == ChildStart(c) /\ loopUnchanged /\ appUnchanged /\ UNCHANGED <<ready, signals>>

Write(c) ==
  /\ PickerWrite(c)
  /\ ready' = WakePipe(c)
  /\ loopUnchanged /\ appUnchanged /\ UNCHANGED signals

CloseOutput(c) ==
  /\ PickerCloseOutput(c)
  /\ ready' = WakePipe(c)
  /\ loopUnchanged /\ appUnchanged /\ UNCHANGED signals

UnblocksTerm(c) ==
  PickerUnblocksTerm(c) /\ loopUnchanged /\ appUnchanged /\ UNCHANGED <<ready, signals>>

Exits(c) == ChildExit(c, Fate) /\ ChildSignals(c) /\ loopUnchanged /\ appUnchanged

DiesOfTerm(c) == ChildTermDeath(c, Fate) /\ ChildSignals(c) /\ loopUnchanged /\ appUnchanged

-----------------------------------------------------------------------------
(* Nothing is left to do: the loop sleeps, or the daemon is gone. *)
Quiescent ==
  /\ ~Alive \/ (mode = "wait" /\ Level = {})
  /\ UNCHANGED vars

Epoll ==
  /\ EpollDrop(Level) \/ EpollWait(Level)
  /\ UNCHANGED <<pickerVars, busVars, requestVars, signals, handler>>

MethodCall(c) ==
  \/ MethodCallFails(c)
  \/ MethodCallForks(c)
  \/ MethodCallVtableFails(c)
  \/ MethodCallRegisters(c)

request_fd_event_handler(c) == PipeDrained(c) \/ PipeEof(c) \/ PipeError(c)

Daemon ==
  \/ Epoll
  \/ BusConnectionLost
  \/ \E c \in Calls : MethodCall(c)
  \/ \E c \in Calls : method_close(c) \/ CloseUnknownObject(c)
  \/ handle_name_lost
  \/ \E c \in Calls : request_fd_event_handler(c) \/ StaleDispatch(c)
  \/ sigint_sigterm_handler
  \/ sigchld_handler
  \/ \E c \in Calls : ReapChild(c)
  \/ ReapDone
  \/ Exit

Child(c) ==
  \/ Start(c)
  \/ Write(c)
  \/ CloseOutput(c)
  \/ UnblocksTerm(c)
  \/ Exits(c)
  \/ DiesOfTerm(c)

World ==
  \/ \E c \in Calls : ClientCall(c) \/ ClientClose(c)
  \/ LoseName
  \/ LoseBus
  \/ SendTerm
  \/ \E c \in Calls : Child(c)

Next == Daemon \/ World \/ Quiescent

Spec == Init /\ [][Next]_vars

(* The daemon is a single thread that the operating system keeps running,  *)
(* and so are the children; a signal that is not blocked is delivered.     *)
(* Nothing obliges the user to finish with a picker, the picker to change  *)
(* its signal mask or the client to do anything.                           *)
FairSpec ==
  /\ Spec
  /\ WF_vars(Daemon)
  /\ \A c \in Calls : WF_vars(Start(c)) /\ WF_vars(DiesOfTerm(c))
=============================================================================
