----------------------- MODULE FilechooserRefinement -----------------------
(***************************************************************************)
(* The portal implements FileChooserService, and nothing that a call is    *)
(* entitled to gets lost: descriptors, the call itself, its reply.  All of *)
(* it rests on StepKinds, which says what a step may do to the requests.   *)
(***************************************************************************)
EXTENDS FilechooserSafety

-----------------------------------------------------------------------------
(* The kinds of steps *)

requestView == <<phase, requests, replies, closed, callbacks, ropen, buffer, written>>

(* No request is touched. *)
Quiet ==
  /\ UNCHANGED requestView
  /\ handler' = handler \/ {handler, handler'} \subseteq {"none", "reap"}
  /\ Alive' <=> Alive

(* A client makes call c. *)
Called(c) ==
  /\ Alive /\ Alive'
  /\ phase[c] = "new"
  /\ phase' = [phase EXCEPT ![c] = "sent"]
  /\ UNCHANGED <<requests, replies, closed, callbacks, ropen, buffer, written, handler>>

(* The reply to c is an error, if it can be sent. *)
ErrorReply(c) == \E sent \in Sendable({c}) : replies' = WithReplies(sent, Error)

(* Call c is handled, and fails before a picker runs. *)
Refused(c) ==
  /\ Alive /\ Alive'
  /\ phase[c] = "sent"
  /\ phase' = [phase EXCEPT ![c] = "handled"]
  /\ ErrorReply(c)
  /\ handler = "none"
  /\ UNCHANGED <<requests, closed, callbacks, ropen, buffer, written, handler>>

(* ... or has a picker forked. *)
Forked(c) ==
  /\ Alive /\ Alive'
  /\ phase[c] = "sent"
  /\ phase' = [phase EXCEPT ![c] = "handled"]
  /\ handler = "none" /\ handler' = c
  /\ ropen' = [ropen EXCEPT ![c] = TRUE]
  /\ UNCHANGED <<requests, replies, closed, callbacks, buffer, written>>

(* The object path of c is refused. *)
GivenUp(c) ==
  /\ Alive /\ Alive'
  /\ handler = c /\ handler' = "none"
  /\ HandleTaken(c) \/ "vtable" \in Faults
  /\ ErrorReply(c)
  /\ UNCHANGED <<phase, requests, closed, callbacks, ropen, buffer, written>>

(* The request of c is listed, and watched unless that fails. *)
Registered(c) ==
  /\ Alive /\ Alive'
  /\ handler = c /\ handler' = "none"
  /\ ~HandleTaken(c)
  /\ requests' = requests \cup {c}
  /\ callbacks' = callbacks \cup {c} \/ ("addfd" \in Faults /\ callbacks' = callbacks)
  /\ UNCHANGED <<phase, replies, closed, ropen, buffer, written>>

(* The pipe of c is read. *)
Drained(c) ==
  /\ Alive /\ Alive'
  /\ c \in callbacks
  /\ buffer' = [buffer EXCEPT ![c] = AllBytes[c]]
  /\ UNCHANGED <<phase, requests, replies, closed, callbacks, ropen, written, handler>>

(* The picker of c writes. *)
Grown(c) ==
  /\ phase[c] = "handled"
  /\ written' = [written EXCEPT ![c] = @ + 1]
  /\ Alive' <=> Alive
  /\ UNCHANGED <<phase, requests, replies, closed, callbacks, ropen, buffer, handler>>

(* What the reply to c may be when its request ends. *)
EndReply(c) ==
  {<<ResponseFor(buffer[c])>>}
    \cup {x \in {<<ResponseFor(AllBytes[c])>>} : c \in callbacks}
    \cup {x \in {<<Ended[c]>>} : c \in callbacks /\ "read" \in Faults}

(* The request of c ends: it is answered, closed, or dropped because the   *)
(* reply cannot be sent.                                                   *)
Ends(c) ==
  /\ Alive /\ Alive'
  /\ c \in requests
  /\ filechooser_request_cleanup({c})
  /\ \/ closed' = closed /\ \E x \in EndReply(c) : replies' = [replies EXCEPT ![c] = x]
     \/ closed' = closed \cup {c} /\ replies' = replies
     \/ closed' = closed /\ replies' = replies /\ (bus # "up" \/ "send" \in Faults)
  /\ UNCHANGED <<phase, written, handler>>

(* The daemon ends. *)
Gone ==
  /\ Alive /\ ~Alive'
  /\ requests' = {} /\ callbacks' = {} /\ handler' = "none"
  /\ ropen' = [c \in Calls |-> FALSE]
  /\ buffer' = [c \in Calls |-> 0]
  /\ UNCHANGED <<phase, replies, closed, written>>

(* What happens to call c. *)
Event(c) ==
  \/ Called(c) \/ Refused(c) \/ Forked(c) \/ GivenUp(c) \/ Registered(c)
  \/ Drained(c) \/ Grown(c) \/ Ends(c)

AnyKind == Quiet \/ Gone \/ \E c \in Calls : Event(c)

(* The types and parts of IInv that the lemmas below use. *)
LEMMA Facts ==
  ASSUME IInv
  PROVE  /\ requests \subseteq Calls
         /\ replies \in [Calls -> Seq(Replies)]
         /\ phase \in [Calls -> {"new", "sent", "handled"}]
         /\ buffer \in [Calls -> Nat] /\ pipe \in [Calls -> Nat]
         /\ written \in [Calls -> 0..MaxLines]
         /\ ropen \in [Calls -> BOOLEAN]
         /\ closed \subseteq Calls
         /\ \A c \in callbacks : c \in Calls => c \in requests
         /\ \A c \in Calls : c \in requests \/ handler = c => Served(c)
         /\ \A c \in Calls : phase[c] # "handled" => Untouched(c)
         /\ handler \notin requests
         /\ mode = "handler" <=> handler # "none"
BY DEF IInv, TypeOK, PickerTypeOK, PortalTypeOK, CallbackDataLive, RequestsServed,
       UntouchedUntilHandled

(* The message at the head of the inbox is that of a call in flight. *)
LEMMA OpenIsSent ==
  ASSUME IInv, NEW c \in Calls, MessageIs(Open(c))
  PROVE  phase[c] = "sent" /\ Alive /\ handler = "none"
<1>1. inbox \in Seq(Messages) /\ inbox # <<>> /\ inbox[1] = Open(c)
  BY DEF IInv, TypeOK, PortalTypeOK, MessageIs
<1>2. 1 \in 1..Len(inbox)
  BY <1>1
<1>3. phase[c] = "sent"
  BY <1>1, <1>2 DEF IInv, MethodCallsOnce
<1> QED
  BY <1>3 DEF IInv, TypeOK, MessageIs, Dispatching, Alive

(* The methods. *)
LEMMA MethodKinds ==
  ASSUME IInv, NEW c \in Calls, MethodCall(c)
  PROVE  Event(c)
<1>1. CASE MethodCallFails(c)
  <2>1. phase[c] = "sent" /\ Alive /\ handler = "none" /\ Alive'
    BY <1>1, OpenIsSent, ReturnAlive DEF MethodCallFails
  <2> QED
    BY <1>1, <2>1 DEF MethodCallFails, Event, Refused, ErrorReply, pickerVars, pipeVars, requestVars
<1>2. CASE MethodCallForks(c)
  <2>1. phase[c] = "sent" /\ Alive /\ handler = "none" /\ Alive'
    BY <1>2, OpenIsSent DEF MethodCallForks, CallbackContinues, Alive
  <2> QED
    BY <1>2, <2>1 DEF MethodCallForks, exec_picker, Event, Forked, requestVars
<1>3. ASSUME MethodCallVtableFails(c) \/ MethodCallRegisters(c)
      PROVE  Alive /\ Alive'
  BY <1>3, Facts, Constants, ReturnAlive DEF MethodCallVtableFails, MethodCallRegisters, Alive
<1>4. CASE MethodCallVtableFails(c)
  BY <1>3, <1>4 DEF MethodCallVtableFails, Event, GivenUp, ErrorReply, pickerVars, pipeVars, requestVars
<1>5. CASE MethodCallRegisters(c)
  BY <1>3, <1>5 DEF MethodCallRegisters, pollen_loop_add_fd, Event, Registered, pickerVars, pipeVars, busVars
<1> QED
  BY <1>1, <1>2, <1>4, <1>5 DEF MethodCall

(* Cleaning up nothing. *)
LEMMA EmptyCleanup ==
  ASSUME IInv, filechooser_request_cleanup({})
  PROVE  UNCHANGED <<requests, callbacks, ropen, buffer>>
<1>1. requests' = requests /\ callbacks' = callbacks
  BY DEF filechooser_request_cleanup, pollen_loop_remove_callback
<1>2. \A c \in Calls : ropen'[c] = ropen[c] /\ buffer'[c] = buffer[c]
  BY Facts DEF filechooser_request_cleanup, pollen_loop_remove_callback
<1>3. ropen' = [c \in Calls |-> ropen'[c]] /\ buffer' = [c \in Calls |-> buffer'[c]]
  BY DEF filechooser_request_cleanup, pollen_loop_remove_callback
<1> QED
  BY <1>1, <1>2, <1>3, Facts

(* A reply sent to one call or to none. *)
LEMMA OneSent ==
  ASSUME IInv, NEW c \in Calls, replies[c] = <<>>, NEW reply, NEW sent \in Sendable({c}),
         replies' = WithReplies(sent, reply)
  PROVE  \/ replies' = [replies EXCEPT ![c] = <<reply[c]>>]
         \/ replies' = replies /\ (bus # "up" \/ "send" \in Faults)
<1>1. sent \in {{}, {c}} /\ (sent = {} => bus # "up" \/ "send" \in Faults)
  BY DEF Sendable
<1>2. CASE sent = {}
  <2>1. replies' = [d \in Calls |-> replies[d]]
    BY <1>2 DEF WithReplies
  <2> QED
    BY <1>1, <1>2, <2>1, Facts
<1>3. CASE sent = {c}
  <2>1. Append(replies[c], reply[c]) = <<reply[c]>>
    BY FirstReply
  <2>2. replies' = [d \in Calls |-> IF d = c THEN <<reply[c]>> ELSE replies[d]]
    BY <1>3, <2>1 DEF WithReplies
  <2> QED
    BY <2>2, Facts
<1> QED
  BY <1>1, <1>2, <1>3

(* Close. *)
LEMMA CloseKinds ==
  ASSUME IInv, NEW r \in Calls, method_close(r)
  PROVE  Quiet \/ Ends(r)
<1>1. PICK sent \in Sendable({r}) :
        closed' = closed \cup sent /\ filechooser_request_cleanup(sent)
  BY DEF method_close
<1>2. /\ r \in requests /\ Alive /\ Alive'
      /\ UNCHANGED <<phase, written, handler, replies>>
  BY ReturnAlive DEF method_close, MessageIs, Dispatching, Alive
<1>3. sent \in {{}, {r}}
  BY DEF Sendable
<1>4. CASE sent = {}
  <2>1. UNCHANGED <<requests, callbacks, ropen, buffer>> /\ closed' = closed
    BY <1>1, <1>4, EmptyCleanup
  <2> QED
    BY <1>2, <2>1 DEF Quiet, requestView
<1>5. CASE sent = {r}
  BY <1>1, <1>2, <1>5 DEF Ends
<1> QED
  BY <1>3, <1>4, <1>5

(* The callback of a pipe. *)
LEMMA PipeKinds ==
  ASSUME IInv, NEW c \in Calls, request_fd_event_handler(c)
  PROVE  Event(c)
<1>1. RequestCallbackRuns(c)
  BY DEF request_fd_event_handler, PipeDrained, PipeEof, PipeError
<1>2. /\ c \in callbacks /\ c \in requests /\ replies[c] = <<>>
      /\ Alive /\ Alive'
  BY <1>1, Facts, ReturnAlive
     DEF RequestCallbackRuns, Served, Alive, request_fd_event_handler, PipeDrained, PipeEof, PipeError
<1>3. CASE PipeDrained(c)
  BY <1>2, <1>3 DEF PipeDrained, Event, Drained, busVars
<1>4. CASE PipeEof(c)
  <2>1. PICK sent \in Sendable({c}) : filechooser_request_finalize({c}, AllBytes, sent)
    BY <1>4 DEF PipeEof
  <2>2. /\ replies' = WithReplies(sent, [d \in Calls |-> ResponseFor(AllBytes[d])])
        /\ filechooser_request_cleanup({c})
    BY <2>1 DEF filechooser_request_finalize
  <2>3. \/ replies' = [replies EXCEPT ![c] = <<ResponseFor(AllBytes[c])>>]
        \/ replies' = replies /\ (bus # "up" \/ "send" \in Faults)
    BY <1>2, <2>2, OneSent
  <2>4. <<ResponseFor(AllBytes[c])>> \in EndReply(c)
    BY <1>2 DEF EndReply
  <2>5. UNCHANGED <<phase, written, handler, closed>>
    BY <1>4 DEF PipeEof
  <2> QED
    BY <1>2, <2>2, <2>3, <2>4, <2>5 DEF Event, Ends
<1>5. CASE PipeError(c)
  <2>1. PICK sent \in Sendable({c}) : replies' = WithReplies(sent, Ended)
    BY <1>5 DEF PipeError
  <2>2. \/ replies' = [replies EXCEPT ![c] = <<Ended[c]>>]
        \/ replies' = replies /\ (bus # "up" \/ "send" \in Faults)
    BY <1>2, <2>1, OneSent
  <2>3. <<Ended[c]>> \in EndReply(c)
    BY <1>2, <1>5 DEF EndReply, PipeError
  <2>4. UNCHANGED <<phase, written, handler, closed>> /\ filechooser_request_cleanup({c})
    BY <1>5 DEF PipeError
  <2> QED
    BY <1>2, <2>2, <2>3, <2>4 DEF Event, Ends
<1> QED
  BY <1>3, <1>4, <1>5 DEF request_fd_event_handler

(* A picker that has been waited for takes its own request along. *)
LEMMA ReapKinds ==
  ASSUME IInv, NEW z \in Calls, ReapChild(z)
  PROVE  Quiet \/ Ends(z)
<1>1. RequestsOf(z) \in {{}, {z}} /\ RequestsOf(z) \subseteq requests
  <2>1. \A r \in requests : Unreaped(r)
    BY Facts DEF Served
  <2>2. Unreaped(z)
    BY DEF ReapChild, Unreaped
  <2> QED
    BY <2>1, <2>2, Facts DEF IInv, PidsDistinct, RequestsOf
<1>2. Alive /\ Alive' /\ UNCHANGED <<phase, written, handler, closed>>
  BY Facts DEF ReapChild, Alive
<1>3. PICK sent \in Sendable(RequestsOf(z)) :
        /\ replies' = WithReplies(sent, [d \in Calls |-> ResponseFor(buffer[d])])
        /\ filechooser_request_cleanup(RequestsOf(z))
  BY DEF ReapChild, filechooser_request_finalize
<1>4. CASE RequestsOf(z) = {}
  <2>1. UNCHANGED <<requests, callbacks, ropen, buffer>>
    BY <1>3, <1>4, EmptyCleanup
  <2>2. sent = {}
    BY <1>4, SendableSubset
  <2>3. replies' = [d \in Calls |-> replies[d]]
    BY <1>3, <2>2 DEF WithReplies
  <2> QED
    BY <1>2, <2>1, <2>3, Facts DEF Quiet, requestView
<1>5. CASE RequestsOf(z) = {z}
  <2>1. z \in requests /\ replies[z] = <<>>
    BY <1>1, <1>5, Facts DEF Served
  <2>2. \/ replies' = [replies EXCEPT ![z] = <<ResponseFor(buffer[z])>>]
        \/ replies' = replies /\ (bus # "up" \/ "send" \in Faults)
    BY <1>3, <1>5, <2>1, OneSent
  <2>3. <<ResponseFor(buffer[z])>> \in EndReply(z)
    BY DEF EndReply
  <2> QED
    BY <1>2, <1>3, <1>5, <2>1, <2>2, <2>3 DEF Ends
<1> QED
  BY <1>1, <1>4, <1>5

(* The end of the process. *)
LEMMA GoneKind ==
  ASSUME NEW how \in {"exited", "crashed"}, DaemonGone(how), Alive
  PROVE  Gone
BY DEF DaemonGone, Gone, Alive

(* The other callbacks. *)
LEMMA OtherKinds ==
  ASSUME IInv,
         \/ Epoll \/ BusConnectionLost \/ handle_name_lost
         \/ sigint_sigterm_handler \/ sigchld_handler \/ ReapDone
         \/ \E c \in Calls : CloseUnknownObject(c)
         \/ \E c \in Calls : StaleDispatch(c) /\ ~DaemonGone("crashed")
  PROVE  Quiet
<1>1. UNCHANGED requestView
  BY DEF Epoll, EpollDrop, EpollWait, BusConnectionLost, handle_name_lost,
         sigint_sigterm_handler, sigchld_handler, ReapDone, CloseUnknownObject, StaleDispatch,
         requestView, pickerVars, procVars, pipeVars, busVars, requestVars
<1>2. handler' = handler \/ {handler, handler'} \subseteq {"none", "reap"}
  BY Facts DEF Epoll, BusConnectionLost, handle_name_lost, sigint_sigterm_handler,
     sigchld_handler, ReapDone, CloseUnknownObject, StaleDispatch, Dispatching
<1>3. Alive
  BY Facts, Constants DEF Epoll, EpollDrop, EpollWait, BusConnectionLost, handle_name_lost,
     sigint_sigterm_handler, sigchld_handler, ReapDone, CloseUnknownObject, StaleDispatch,
     MessageIs, Dispatching, Alive
<1>4. Alive'
  BY ReturnAlive DEF Epoll, EpollDrop, EpollWait, BusConnectionLost, handle_name_lost,
     sigint_sigterm_handler, sigchld_handler, ReapDone, CloseUnknownObject, StaleDispatch,
     CallbackContinues, Alive
<1> QED
  BY <1>1, <1>2, <1>3, <1>4 DEF Quiet

(* The environment and the pickers. *)
LEMMA WorldKinds ==
  ASSUME IInv, World
  PROVE  AnyKind
<1>1. ASSUME NEW c \in Calls, ClientCall(c) PROVE Called(c)
  BY <1>1 DEF ClientCall, Called, Alive, pickerVars, pipeVars, requestVars
<1>2. ASSUME \/ \E c \in Calls : ClientClose(c)
             \/ LoseName \/ LoseBus \/ SendTerm
      PROVE  Quiet
  BY <1>2 DEF ClientClose, LoseName, LoseBus, SendTerm, Quiet, requestView, Alive, pickerVars,
              pipeVars, busVars, requestVars
<1>3. ASSUME NEW c \in Calls, Write(c) PROVE Grown(c)
  <2>1. phase[c] = "handled"
    BY <1>3, Facts DEF Write, PickerWrite, Untouched
  <2> QED
    BY <1>3, <2>1 DEF Write, PickerWrite, Grown, Alive, loopUnchanged, appUnchanged, busVars,
                      requestVars
<1>4. ASSUME NEW c \in Calls,
             Start(c) \/ CloseOutput(c) \/ UnblocksTerm(c) \/ Exits(c) \/ DiesOfTerm(c)
      PROVE  Quiet
  BY <1>4 DEF Start, ChildStart, CloseOutput, PickerCloseOutput, UnblocksTerm,
     PickerUnblocksTerm, Exits, ChildExit, DiesOfTerm, ChildTermDeath, ChildGone, Quiet,
     requestView, Alive, loopUnchanged, appUnchanged, pipeVars, busVars, requestVars
<1> QED
  BY <1>1, <1>2, <1>3, <1>4 DEF World, Child, AnyKind, Event

(* Every step is of one of the kinds. *)
LEMMA StepKinds ==
  ASSUME IInv, [Next]_vars
  PROVE  AnyKind
<1>1. ASSUME NEW c \in Calls, MethodCall(c) \/ request_fd_event_handler(c) PROVE AnyKind
  BY <1>1, MethodKinds, PipeKinds DEF AnyKind
<1>2. ASSUME NEW c \in Calls, method_close(c) \/ ReapChild(c) PROVE AnyKind
  BY <1>2, CloseKinds, ReapKinds DEF AnyKind, Event
<1>3. ASSUME NEW c \in Calls, StaleDispatch(c) PROVE AnyKind
  <2>1. Alive
    BY <1>3 DEF StaleDispatch, Dispatching, Alive
  <2>2. CASE DaemonGone("crashed")
    BY <2>1, <2>2, GoneKind DEF AnyKind
  <2>3. CASE ~DaemonGone("crashed")
    BY <1>3, <2>3, OtherKinds DEF AnyKind
  <2> QED
    BY <2>2, <2>3
<1>4. CASE Exit
  <2>1. Alive /\ DaemonGone("exited")
    BY <1>4 DEF Exit, Alive
  <2> QED
    BY <2>1, GoneKind DEF AnyKind
<1>5. CASE \/ Epoll \/ BusConnectionLost \/ handle_name_lost
           \/ sigint_sigterm_handler \/ sigchld_handler \/ ReapDone
           \/ \E c \in Calls : CloseUnknownObject(c)
  BY <1>5, OtherKinds DEF AnyKind
<1>6. CASE World
  BY <1>6, WorldKinds
<1>7. CASE UNCHANGED vars
  BY <1>7 DEF AnyKind, Quiet, requestView, Alive, vars, pollenVars, pickerVars, pipeVars, busVars,
              requestVars
<1> QED
  BY <1>1, <1>2, <1>3, <1>4, <1>5, <1>6, <1>7 DEF Next, Daemon, Quiescent

-----------------------------------------------------------------------------
(* Descriptors *)

(* What is left of a request that has ended. *)
LEMMA EndsEffect ==
  ASSUME IInv, NEW c \in Calls, Ends(c)
  PROVE  /\ requests' = requests \ {c} /\ callbacks' = callbacks \ {c}
         /\ ropen'[c] = (ropen[c] /\ c \notin callbacks)
         /\ buffer'[c] = 0
         /\ \A d \in Calls \ {c} : ropen'[d] = ropen[d] /\ buffer'[d] = buffer[d]
         /\ handler' = handler /\ handler # c
         /\ \A d \in Calls \ {c} : replies'[d] = replies[d]
         /\ replies[c] = <<>> /\ replies'[c] \in {<<>>} \cup EndReply(c)
         /\ phase' = phase
BY Facts DEF Ends, filechooser_request_cleanup, pollen_loop_remove_callback, Served

(* Setting up a request does not fail. *)
SetupSucceeds ==
  /\ "vtable" \notin Faults /\ "addfd" \notin Faults
  /\ \A c, d \in Calls : HandleOf[c] = HandleOf[d] => c = d

(* Something will close every reading end. *)
AllOwned == \A c \in Calls : ropen[c] => ReadEndOwned(c)

LEMMA OwnPathIsFree ==
  ASSUME IInv, SetupSucceeds, NEW c \in Calls, handler = c
  PROVE  ~HandleTaken(c)
BY Facts DEF SetupSucceeds, HandleTaken

(* A reading end only loses its owner where a method gives it up. *)
LEMMA OwnershipStep ==
  ASSUME IInv, [Next]_vars, NEW c \in Calls, ropen'[c], ~ReadEndOwned(c)',
         ~(ropen[c] /\ ~ReadEndOwned(c))
  PROVE  /\ handler = c /\ handler' = "none" /\ c \notin callbacks'
         /\ GivenUp(c) \/ Registered(c)
<1>1. CASE Quiet
  BY <1>1, Constants DEF Quiet, requestView, ReadEndOwned
<1>2. CASE Gone
  BY <1>2 DEF Gone
<1>3. ASSUME NEW d \in Calls, Called(d) \/ Refused(d) \/ Drained(d) \/ Grown(d)
      PROVE  FALSE
  BY <1>3 DEF Called, Refused, Drained, Grown, ReadEndOwned
<1>4. ASSUME NEW d \in Calls, Forked(d)
      PROVE  FALSE
  BY <1>4, Constants, Facts DEF Forked, ReadEndOwned
<1>5. ASSUME NEW d \in Calls, GivenUp(d)
      PROVE  d = c /\ handler = c /\ handler' = "none" /\ c \notin callbacks'
  <2>1. d = c /\ handler = c /\ handler' = "none" /\ callbacks' = callbacks
    BY <1>5 DEF GivenUp, ReadEndOwned
  <2> QED
    BY <2>1, Facts
<1>6. ASSUME NEW d \in Calls, Registered(d)
      PROVE  d = c /\ handler = c /\ handler' = "none" /\ c \notin callbacks'
  BY <1>6 DEF Registered, ReadEndOwned
<1>7. ASSUME NEW d \in Calls, Ends(d)
      PROVE  FALSE
  BY <1>7, EndsEffect DEF ReadEndOwned
<1> QED
  BY <1>1, <1>2, <1>3, <1>4, <1>5, <1>6, <1>7, StepKinds DEF AnyKind, Event

(* Whatever fails, a reading end is only lost by the method that opened    *)
(* it, which ends without having it watched.                               *)
THEOREM LeaksAreOfFailedSetup == Spec => LeaksOnlyByFailedSetup
<1> DEFINE Step == \A c \in Calls :
                     ropen'[c] /\ ~ReadEndOwned(c)' =>
                       \/ ropen[c] /\ ~ReadEndOwned(c)
                       \/ handler = c /\ handler' # c /\ c \notin callbacks'
<1>1. IInv /\ [Next]_vars => [Step]_vars
  BY OwnershipStep, Constants
<1> QED
  BY <1>1, Invariance, PTL DEF Spec, LeaksOnlyByFailedSetup

(* As long as no set-up fails, no descriptor is lost, however requests end.*)
THEOREM NoDescriptorLost == SetupSucceeds => (Spec => []NoFdLeak)
<1> SUFFICES ASSUME SetupSucceeds PROVE Spec => []NoFdLeak
  OBVIOUS
<1>1. Init => AllOwned
  BY DEF Init, PickerInit, AllOwned
<1>2. ASSUME IInv, AllOwned, [Next]_vars, NEW c \in Calls, ropen'[c], ~ReadEndOwned(c)'
      PROVE  FALSE
  <2>1. handler = c /\ c \notin callbacks' /\ (GivenUp(c) \/ Registered(c))
    BY <1>2, OwnershipStep DEF AllOwned
  <2> QED
    BY <1>2, <2>1, OwnPathIsFree DEF GivenUp, Registered, SetupSucceeds
<1>3. IInv /\ AllOwned /\ [Next]_vars => AllOwned'
  BY <1>2 DEF AllOwned
<1>4. AllOwned => NoFdLeak
  BY DEF AllOwned, ReadEndOwned, NoFdLeak
<1> QED
  BY <1>1, <1>3, <1>4, Invariance, PTL DEF Spec

-----------------------------------------------------------------------------
(* Answers and pickers *)

(* The reply says what was selected. *)
Answers(reply) == reply.code \in {"success", "cancelled"}

(* AnswersAreFinal, and why: only a living picker holds the writing end.   *)
FinalInv ==
  /\ AnswersAreFinal
  /\ \A c \in Calls : wopen[c] => Living(c)

(* Call c gets a reply, which may be an answer only if its picker is done. *)
Replied(c) ==
  \E x : /\ replies' = [replies EXCEPT ![c] = <<x>>]
         /\ Answers(x) => ~wopen[c]

(* What a sequence of one reply consists of.                               *)
LEMMA SingleReply == \A x : Len(<<x>>) = 1 /\ <<x>>[1] = x
OBVIOUS

(* Who is replied to, and when. *)
LEMMA RepliesAreFinal ==
  ASSUME IInv, [Next]_vars, FinalInv
  PROVE  replies' = replies \/ \E c \in Calls : Replied(c)
<1>1. ASSUME NEW c \in Calls, MethodCall(c)
      PROVE  replies' = replies \/ Replied(c)
  <2>1. CASE MethodCallFails(c) \/ MethodCallVtableFails(c)
    <3>1. replies[c] = <<>>
      BY <2>1, OpenIsSent, Facts DEF MethodCallFails, MethodCallVtableFails, Untouched, Served
    <3>2. replies' = replies \/ replies' = [replies EXCEPT ![c] = <<Error[c]>>]
      BY <2>1, <3>1, OneSent DEF MethodCallFails, MethodCallVtableFails
    <3>3. ~Answers(Error[c])
      BY DEF Answers, Error
    <3> QED BY <3>2, <3>3 DEF Replied
  <2>2. CASE MethodCallForks(c) \/ MethodCallRegisters(c)
    BY <2>2 DEF MethodCallForks, MethodCallRegisters, busVars
  <2> QED BY <1>1, <2>1, <2>2 DEF MethodCall
<1>2. ASSUME NEW c \in Calls, request_fd_event_handler(c)
      PROVE  replies' = replies \/ Replied(c)
  <2>1. replies[c] = <<>>
    BY <1>2, Facts DEF request_fd_event_handler, PipeDrained, PipeEof, PipeError,
       RequestCallbackRuns, Served
  <2>2. CASE PipeDrained(c)
    BY <2>2 DEF PipeDrained, busVars
  <2>3. CASE PipeEof(c)
    <3>1. /\ ~wopen[c]
          /\ \E sent \in Sendable({c}) :
               replies' = WithReplies(sent, [d \in Calls |-> ResponseFor(AllBytes[d])])
      BY <2>3 DEF PipeEof, filechooser_request_finalize
    <3>2. \/ replies' = replies
          \/ replies' = [replies EXCEPT ![c] = <<ResponseFor(AllBytes[c])>>]
      BY <2>1, <3>1, OneSent
    <3> QED BY <3>1, <3>2 DEF Replied
  <2>4. CASE PipeError(c)
    <3>1. replies' = replies \/ replies' = [replies EXCEPT ![c] = <<Ended[c]>>]
      BY <2>1, <2>4, OneSent DEF PipeError
    <3>2. ~Answers(Ended[c])
      BY DEF Answers, Ended
    <3> QED BY <3>1, <3>2 DEF Replied
  <2> QED BY <1>2, <2>2, <2>3, <2>4 DEF request_fd_event_handler
<1>3. ASSUME NEW z \in Calls, ReapChild(z)
      PROVE  replies' = replies \/ Replied(z)
  <2>1. proc[z] = "zombie" /\ ~wopen[z]
    BY <1>3 DEF ReapChild, FinalInv, Living
  <2>2. RequestsOf(z) \in {{}, {z}} /\ RequestsOf(z) \subseteq requests
    <3>1. \A r \in requests : Unreaped(r)
      BY Facts DEF Served
    <3>2. Unreaped(z)
      BY <2>1 DEF Unreaped
    <3> QED BY <3>1, <3>2, Facts DEF IInv, PidsDistinct, RequestsOf
  <2>3. PICK sent \in Sendable(RequestsOf(z)) :
          replies' = WithReplies(sent, [d \in Calls |-> ResponseFor(buffer[d])])
    BY <1>3 DEF ReapChild, filechooser_request_finalize
  <2>4. CASE RequestsOf(z) = {}
    <3>1. sent = {}
      BY <2>4, SendableSubset
    <3>2. replies' = [d \in Calls |-> replies[d]]
      BY <2>3, <3>1 DEF WithReplies
    <3> QED BY <3>2, Facts
  <2>5. CASE RequestsOf(z) = {z}
    <3>1. replies[z] = <<>>
      BY <2>2, <2>5, Facts DEF Served
    <3>2. replies' = replies \/ replies' = [replies EXCEPT ![z] = <<ResponseFor(buffer[z])>>]
      BY <2>3, <2>5, <3>1, OneSent
    <3> QED BY <2>1, <3>2 DEF Replied
  <2> QED BY <2>2, <2>4, <2>5
<1>4. ASSUME \E c \in Calls : method_close(c)
      PROVE  replies' = replies
  BY <1>4 DEF method_close
<1>5. ASSUME Next, ~\E c \in Calls : \/ MethodCall(c) \/ request_fd_event_handler(c)
                                     \/ ReapChild(c) \/ method_close(c)
      PROVE  replies' = replies
  BY <1>5 DEF Next, Daemon, World, Quiescent, Epoll, BusConnectionLost, CloseUnknownObject,
     handle_name_lost, StaleDispatch, DaemonGone, sigint_sigterm_handler, sigchld_handler,
     ReapDone, Exit, ClientCall, ClientClose, LoseName, LoseBus, SendTerm, Child, Start, Write,
     CloseOutput, UnblocksTerm, Exits, DiesOfTerm, appUnchanged, busVars, vars
<1> QED BY <1>1, <1>2, <1>3, <1>4, <1>5 DEF vars, busVars

(* A writing end is only opened for a call without a reply, and a picker   *)
(* that dies closes it.                                                    *)
LEMMA WritingEndStep ==
  ASSUME IInv, [Next]_vars, \A c \in Calls : wopen[c] => Living(c)
  PROVE  \A c \in Calls :
           wopen'[c] => Living(c)' /\ (wopen[c] \/ replies'[c] = <<>>)
<1>1. ASSUME NEW c \in Calls, MethodCallForks(c), NEW d \in Calls, wopen'[d]
      PROVE  Living(d)' /\ (wopen[d] \/ replies'[d] = <<>>)
  <2>1. Untouched(c)
    BY <1>1, OpenIsSent, Facts DEF MethodCallForks
  <2>2. /\ replies' = replies
        /\ proc' = [proc EXCEPT ![c] = "forked"]
        /\ wopen' = [wopen EXCEPT ![c] = TRUE]
    BY <1>1 DEF MethodCallForks, exec_picker
  <2> QED BY <1>1, <2>1, <2>2 DEF IInv, TypeOK, PickerTypeOK, Living, Untouched
<1>2. ASSUME NEW c \in Calls, Child(c), NEW d \in Calls, wopen'[d]
      PROVE  wopen[d] /\ (Living(d) => Living(d)')
  BY <1>2 DEF Child, Start, ChildStart, Write, PickerWrite, CloseOutput, PickerCloseOutput,
     UnblocksTerm, PickerUnblocksTerm, Exits, ChildExit, DiesOfTerm, ChildTermDeath, ChildGone,
     Living, IInv, TypeOK, PickerTypeOK, procVars, pipeVars
<1>3. ASSUME NEW c \in Calls, ReapChild(c)
      PROVE  wopen' = wopen /\ \A d \in Calls : Living(d) => Living(d)'
  BY <1>3 DEF ReapChild, Living, IInv, TypeOK, PickerTypeOK
<1>4. ASSUME NEW how, DaemonGone(how)
      PROVE  wopen' = wopen /\ \A d \in Calls : Living(d) => Living(d)'
  BY <1>4 DEF DaemonGone, Living
<1>5. ASSUME [Next]_vars,
             ~\E c \in Calls : MethodCallForks(c) \/ Child(c) \/ ReapChild(c),
             ~DaemonGone("exited"), ~DaemonGone("crashed")
      PROVE  wopen' = wopen /\ proc' = proc
  BY <1>5 DEF Next, Daemon, World, Quiescent, Epoll, BusConnectionLost, MethodCall,
     MethodCallFails, MethodCallVtableFails, MethodCallRegisters, method_close,
     CloseUnknownObject, handle_name_lost, request_fd_event_handler, PipeDrained, PipeEof,
     PipeError, StaleDispatch, sigint_sigterm_handler, sigchld_handler, ReapDone, Exit,
     ClientCall, ClientClose, LoseName, LoseBus, SendTerm, pickerVars, procVars, pipeVars, vars
<1> QED BY <1>1, <1>2, <1>3, <1>4, <1>5 DEF Living

(* Whatever fails, a picker whose selection was reported can add nothing.  *)
THEOREM AnswersFinal == Spec => []AnswersAreFinal
<1>1. Init => FinalInv
  BY DEF Init, PickerInit, FinalInv, AnswersAreFinal
<1>2. ASSUME IInv, FinalInv, [Next]_vars
      PROVE  FinalInv'
  <2>1. \A c \in Calls : wopen'[c] => Living(c)' /\ (wopen[c] \/ replies'[c] = <<>>)
    BY <1>2, WritingEndStep DEF FinalInv
  <2>2. ASSUME NEW c \in Calls, NEW i \in 1..Len(replies'[c]), Answers(replies'[c][i])
        PROVE  ~wopen'[c]
    <3>1. replies'[c] # <<>>
      BY <2>2
    <3>2. CASE replies'[c] = replies[c]
      <4>1. ~wopen[c]
        BY <1>2, <2>2, <3>2 DEF FinalInv, AnswersAreFinal, Answers
      <4> QED BY <2>1, <3>1, <4>1
    <3>3. CASE replies'[c] # replies[c]
      <4>1. PICK x : replies'[c] = <<x>> /\ (Answers(x) => ~wopen[c])
        BY <1>2, <3>3, RepliesAreFinal, Facts DEF Replied
      <4>2. replies'[c][i] = x
        BY <2>2, <4>1, SingleReply
      <4> QED BY <2>1, <2>2, <3>1, <4>1, <4>2
    <3> QED BY <3>2, <3>3
  <2> QED BY <2>1, <2>2 DEF FinalInv, AnswersAreFinal, Answers
<1>3. FinalInv => AnswersAreFinal
  BY DEF FinalInv
<1> QED BY <1>1, <1>2, <1>3, Invariance, PTL DEF Spec

-----------------------------------------------------------------------------
(* Calls and their replies *)

(* The reply to a call that had none. *)
LEMMA ErrorReplyEffect ==
  ASSUME IInv, NEW c \in Calls, replies[c] = <<>>, ErrorReply(c)
  PROVE  /\ replies'[c] \in {<<>>, <<Error[c]>>}
         /\ \A d \in Calls \ {c} : replies'[d] = replies[d]
         /\ bus = "up" /\ "send" \notin Faults => replies' = [replies EXCEPT ![c] = <<Error[c]>>]
<1>1. PICK sent \in Sendable({c}) : replies' = WithReplies(sent, Error)
  BY DEF ErrorReply
<1>2. \/ replies' = [replies EXCEPT ![c] = <<Error[c]>>]
      \/ replies' = replies /\ (bus # "up" \/ "send" \in Faults)
  BY <1>1, OneSent
<1> QED
  BY <1>2, Facts

(* A working bus has worked all the time, and the daemon does not come     *)
(* back.                                                                   *)
LEMMA BusStays ==
  ASSUME IInv, [Next]_vars
  PROVE  /\ bus' = bus \/ "busdown" \in Env \/ bus = "lost" \/ ~Alive'
         /\ bus' = "up" => bus = "up"
         /\ Alive' => Alive
<1>1. ASSUME bus' # bus
      PROVE  /\ bus' # "up"
             /\ "busdown" \in Env \/ bus = "lost" \/ ~Alive'
  <2>1. CASE \E c \in Calls : MethodCall(c) \/ request_fd_event_handler(c) \/ ReapChild(c)
    BY <1>1, <2>1 DEF MethodCall, MethodCallFails, MethodCallForks, MethodCallVtableFails,
       MethodCallRegisters, request_fd_event_handler, PipeDrained, PipeEof, PipeError, ReapChild,
       busVars
  <2>2. CASE Daemon /\ ~\E c \in Calls : MethodCall(c) \/ request_fd_event_handler(c) \/ ReapChild(c)
    BY <1>1, <2>2 DEF Daemon, Epoll, BusConnectionLost, method_close, CloseUnknownObject,
       handle_name_lost, StaleDispatch, sigint_sigterm_handler, sigchld_handler, ReapDone, Exit,
       DaemonGone, Alive, busVars
  <2>3. CASE World
    BY <1>1, <2>3 DEF World, ClientCall, ClientClose, LoseName, LoseBus, SendTerm, Child, Start,
       Write, CloseOutput, UnblocksTerm, Exits, DiesOfTerm, appUnchanged, busVars
  <2>4. CASE UNCHANGED vars
    BY <1>1, <2>4 DEF vars, busVars
  <2> QED
    BY <2>1, <2>2, <2>3, <2>4 DEF Next, Daemon, Quiescent
<1>2. Alive' => Alive
  BY StepKinds DEF AnyKind, Event, Quiet, Called, Refused, Forked, GivenUp, Registered, Drained,
                   Grown, Ends, Gone
<1> QED
  BY <1>1, <1>2

(* A step loses no call as long as replies can be sent.                    *)
LEMMA AccountedStep ==
  ASSUME IInv, "send" \notin Faults, EveryCallAccountedFor, [Next]_vars
  PROVE  EveryCallAccountedFor'
<1> SUFFICES ASSUME Alive', bus' = "up", NEW d \in Calls, phase'[d] = "handled"
             PROVE  \/ handler' = d \/ d \in requests' \/ replies'[d] # <<>> \/ d \in closed'
  BY DEF EveryCallAccountedFor
<1>1. /\ Alive /\ bus = "up"
      /\ phase[d] = "handled" =>
           handler = d \/ d \in requests \/ replies[d] # <<>> \/ d \in closed
  BY BusStays DEF EveryCallAccountedFor
<1>2. CASE Quiet
  BY <1>1, <1>2, Constants DEF Quiet, requestView
<1>3. CASE Gone
  BY <1>3 DEF Gone
<1>4. ASSUME NEW c \in Calls, Called(c) \/ Drained(c) \/ Grown(c) \/ Forked(c) \/ Registered(c)
      PROVE  \/ handler' = d \/ d \in requests' \/ replies'[d] # <<>> \/ d \in closed'
  BY <1>1, <1>4, Facts, Constants DEF Called, Drained, Grown, Forked, Registered
<1>5. ASSUME NEW c \in Calls, Refused(c) \/ GivenUp(c)
      PROVE  \/ handler' = d \/ d \in requests' \/ replies'[d] # <<>> \/ d \in closed'
  <2>1. replies[c] = <<>> /\ ErrorReply(c)
    BY <1>5, Facts DEF Refused, GivenUp, Untouched, Served
  <2>2. replies' = [replies EXCEPT ![c] = <<Error[c]>>]
    BY <1>1, <2>1, ErrorReplyEffect
  <2> QED
    BY <1>1, <1>5, <2>2, Facts DEF Refused, GivenUp
<1>6. ASSUME NEW c \in Calls, Ends(c)
      PROVE  \/ handler' = d \/ d \in requests' \/ replies'[d] # <<>> \/ d \in closed'
  <2>1. CASE d = c
    <3>1. ASSUME NEW x \in EndReply(c), replies' = [replies EXCEPT ![c] = x]
          PROVE  replies'[d] # <<>>
      <4>1. replies'[c] = x
        BY <3>1, Facts
      <4> QED
        BY <2>1, <4>1 DEF EndReply
    <3> QED
      BY <1>1, <1>6, <2>1, <3>1 DEF Ends
  <2>2. CASE d # c
    <3>1. closed \subseteq closed'
      BY <1>6 DEF Ends
    <3> QED
      BY <1>1, <1>6, <2>2, <3>1, EndsEffect
  <2> QED
    BY <2>1, <2>2
<1> QED
  BY <1>2, <1>3, <1>4, <1>5, <1>6, StepKinds DEF AnyKind, Event

(* While replies can be sent, a call that was taken on is never forgotten. *)
THEOREM NoCallForgotten == "send" \notin Faults => (Spec => []EveryCallAccountedFor)
<1> SUFFICES ASSUME "send" \notin Faults PROVE Spec => []EveryCallAccountedFor
  OBVIOUS
<1>1. Init => EveryCallAccountedFor
  BY DEF Init, EveryCallAccountedFor
<1>2. IInv /\ EveryCallAccountedFor /\ [Next]_vars => EveryCallAccountedFor'
  BY AccountedStep
<1> QED
  BY <1>1, <1>2, Invariance, PTL DEF Spec

(* While replies can be sent, a request ends with one, unless it is closed *)
(* or the bus or the daemon ends.                                          *)
THEOREM EndsWithReply == "send" \notin Faults => (Spec => RequestsEndWithReply)
<1> SUFFICES ASSUME "send" \notin Faults PROVE Spec => RequestsEndWithReply
  OBVIOUS
<1> DEFINE Told == \A r \in requests :
             r \notin requests' =>
               \/ Len(replies'[r]) = 1
               \/ r \in closed'
               \/ bus # "up"
               \/ mode' \in {"exited", "crashed"}
<1>1. ASSUME IInv, [Next]_vars, NEW r \in requests, r \notin requests'
      PROVE  Len(replies'[r]) = 1 \/ r \in closed' \/ bus # "up" \/ mode' \in {"exited", "crashed"}
  <2>1. CASE Gone
    BY <2>1 DEF Gone, Alive
  <2>2. ~Quiet
    BY <1>1 DEF Quiet, requestView
  <2>3. ASSUME NEW c \in Calls, Event(c) PROVE Ends(c) /\ c = r
    BY <1>1, <2>3, EndsEffect
       DEF Event, Called, Refused, Forked, GivenUp, Registered, Drained, Grown
  <2>4. CASE Ends(r)
    <3>1. ASSUME NEW x \in EndReply(r), replies' = [replies EXCEPT ![r] = x]
          PROVE  Len(replies'[r]) = 1
      <4>1. replies'[r] = x
        BY <1>1, <3>1, Facts
      <4> QED
        BY <4>1 DEF EndReply
    <3> QED
      BY <2>4, <3>1 DEF Ends
  <2> QED
    BY <1>1, <2>1, <2>2, <2>3, <2>4, Facts, StepKinds DEF AnyKind
<1>2. ASSUME IInv, [Next]_vars PROVE [Told]_vars
  BY <1>1, <1>2
<1> QED
  BY <1>2, Invariance, PTL DEF Spec, RequestsEndWithReply

-----------------------------------------------------------------------------
(* The refinement *)

(* What the refinement needs besides IInv: the connection only breaks      *)
(* where that may happen, and a Close that arrives has been asked for.     *)
BusBreaksAsAllowed == Alive /\ bus # "up" => "busdown" \in Env

ClosesAreAsked ==
  \A c \in Calls : \A i \in 1..Len(inbox) : inbox[i] = Close(c) => c \in closeSent

ServiceInv == BusBreaksAsAllowed /\ ClosesAreAsked

(* What a step does to the inbox and to the closes that were asked for.    *)
LEMMA InboxKinds ==
  ASSUME IInv, [Next]_vars
  PROVE  \/ inbox' = inbox /\ closeSent' = closeSent
         \/ inbox' = <<>> /\ closeSent' = closeSent
         \/ inbox # <<>> /\ inbox' = Tail(inbox) /\ closeSent' = closeSent
         \/ \E c \in Calls : inbox' = Append(inbox, Open(c)) /\ closeSent' = closeSent
         \/ inbox' = Append(inbox, NameLost) /\ closeSent' = closeSent
         \/ \E c \in Calls : ClientClose(c)
<1>1. CASE \E c \in Calls : MethodCall(c) \/ request_fd_event_handler(c) \/ ReapChild(c)
  BY <1>1 DEF MethodCall, MethodCallFails, MethodCallForks, MethodCallVtableFails,
     MethodCallRegisters, request_fd_event_handler, PipeDrained, PipeEof, PipeError, ReapChild,
     MessageIs, busVars
<1>2. CASE Daemon /\ ~\E c \in Calls : MethodCall(c) \/ request_fd_event_handler(c) \/ ReapChild(c)
  BY <1>2 DEF Daemon, Epoll, BusConnectionLost, method_close, CloseUnknownObject,
     handle_name_lost, StaleDispatch, sigint_sigterm_handler, sigchld_handler, ReapDone, Exit,
     DaemonGone, MessageIs, busVars
<1>3. CASE World
  BY <1>3 DEF World, ClientCall, LoseName, LoseBus, SendTerm, Child, Start,
     Write, CloseOutput, UnblocksTerm, Exits, DiesOfTerm, appUnchanged, busVars
<1>4. CASE UNCHANGED vars
  BY <1>4 DEF vars, busVars
<1> QED
  BY <1>1, <1>2, <1>3, <1>4 DEF Next, Daemon, Quiescent

LEMMA ServiceInvStep ==
  ASSUME IInv, ServiceInv, [Next]_vars
  PROVE  ServiceInv'
<1>1. BusBreaksAsAllowed'
  BY BusStays DEF ServiceInv, BusBreaksAsAllowed
<1>2. ClosesAreAsked'
  <2>1. inbox \in Seq(Messages) /\ ClosesAreAsked
    BY DEF IInv, TypeOK, PortalTypeOK, ServiceInv
  <2>2. CASE inbox' = inbox /\ closeSent' = closeSent
    BY <2>1, <2>2 DEF ClosesAreAsked
  <2>3. CASE inbox' = <<>>
    BY <2>3 DEF ClosesAreAsked
  <2>4. CASE inbox # <<>> /\ inbox' = Tail(inbox) /\ closeSent' = closeSent
    <3>1. \A i \in 1..Len(inbox') : inbox'[i] = inbox[i + 1] /\ i + 1 \in 1..Len(inbox)
      BY <2>1, <2>4
    <3> QED
      BY <2>1, <2>4, <3>1 DEF ClosesAreAsked
  <2>5. ASSUME NEW m, inbox' = Append(inbox, m), closeSent \subseteq closeSent',
               \A c \in Calls : m = Close(c) => c \in closeSent'
        PROVE  ClosesAreAsked'
    <3>1. /\ Len(inbox') = Len(inbox) + 1 /\ Len(inbox) \in Nat
          /\ inbox'[Len(inbox) + 1] = m
          /\ \A i \in 1..Len(inbox) : inbox'[i] = inbox[i]
      BY <2>1, <2>5
    <3> QED
      BY <2>1, <2>5, <3>1 DEF ClosesAreAsked
  <2>6. CASE \/ \E c \in Calls : inbox' = Append(inbox, Open(c)) /\ closeSent' = closeSent
             \/ inbox' = Append(inbox, NameLost) /\ closeSent' = closeSent
    <3>1. \A c, d \in Calls : Open(c) # Close(d) /\ NameLost # Close(d)
      BY DEF Open, Close, NameLost
    <3> QED
      BY <2>5, <2>6, <3>1
  <2>7. ASSUME NEW c \in Calls, ClientClose(c) PROVE ClosesAreAsked'
    <3>1. closeSent' = closeSent \cup {c} /\ inbox' = Append(inbox, Close(c))
      BY <2>7 DEF ClientClose
    <3>2. \A d \in Calls : Close(c) = Close(d) => c = d
      BY DEF Close
    <3> QED
      BY <2>5, <3>1, <3>2
  <2> QED
    BY <2>2, <2>3, <2>4, <2>6, <2>7, InboxKinds
<1> QED
  BY <1>1, <1>2 DEF ServiceInv

(* A request is only closed when that was asked for.                       *)
LEMMA ClosedIsWithdrawn ==
  ASSUME IInv, ServiceInv, [Next]_vars, NEW c \in Calls, c \in closed', c \notin closed
  PROVE  c \in Withdrawn
<1>1. method_close(c)
  <2>1. CASE \E d \in Calls : MethodCall(d) \/ request_fd_event_handler(d) \/ ReapChild(d)
    BY <2>1 DEF MethodCall, MethodCallFails, MethodCallForks, MethodCallVtableFails,
       MethodCallRegisters, request_fd_event_handler, PipeDrained, PipeEof, PipeError, ReapChild,
       requestVars
  <2>2. ASSUME NEW d \in Calls, method_close(d) PROVE d = c
    BY <2>2, SendableSubset DEF method_close
  <2>3. CASE /\ Daemon
             /\ ~\E d \in Calls : MethodCall(d) \/ request_fd_event_handler(d) \/ ReapChild(d)
                                 \/ method_close(d)
    BY <2>3 DEF Daemon, Epoll, BusConnectionLost, CloseUnknownObject, handle_name_lost,
       StaleDispatch, sigint_sigterm_handler, sigchld_handler, ReapDone, Exit, DaemonGone,
       requestVars
  <2>4. CASE World
    BY <2>4 DEF World, ClientCall, ClientClose, LoseName, LoseBus, SendTerm, Child, Start,
       Write, CloseOutput, UnblocksTerm, Exits, DiesOfTerm, appUnchanged, requestVars
  <2>5. CASE UNCHANGED vars
    BY <2>5 DEF vars, requestVars
  <2> QED
    BY <2>1, <2>2, <2>3, <2>4, <2>5 DEF Next, Daemon, Quiescent
<1>2. PICK d \in Calls : HandleOf[d] = HandleOf[c] /\ MessageIs(Close(d))
  BY <1>1 DEF method_close
<1>3. inbox \in Seq(Messages) /\ inbox # <<>> /\ inbox[1] = Close(d)
  BY <1>2 DEF IInv, TypeOK, PortalTypeOK, MessageIs
<1>4. 1 \in 1..Len(inbox)
  BY <1>3
<1>5. d \in closeSent
  BY <1>3, <1>4 DEF ServiceInv, ClosesAreAsked
<1> QED
  BY <1>2, <1>5 DEF Withdrawn

(* The closes that a step asks for, which it does for nothing else.        *)
LEMMA WithdrawnKinds ==
  ASSUME IInv, [Next]_vars
  PROVE  \/ Withdrawn' = Withdrawn
         \/ /\ UNCHANGED requestView /\ handler' = handler
            /\ Alive /\ Alive'
            /\ \E D \in SUBSET Calls : Withdrawn' = Withdrawn \cup D
<1>1. CASE closeSent' = closeSent
  BY <1>1 DEF Withdrawn
<1>2. ASSUME NEW c \in Calls, ClientClose(c)
      PROVE  /\ UNCHANGED requestView /\ handler' = handler
             /\ Alive /\ Alive'
             /\ \E D \in SUBSET Calls : Withdrawn' = Withdrawn \cup D
  <2>1. closeSent' = closeSent \cup {c}
    BY <1>2 DEF ClientClose
  <2>2. Withdrawn' = Withdrawn \cup {d \in Calls : HandleOf[c] = HandleOf[d]}
    BY <2>1 DEF Withdrawn
  <2>3. {d \in Calls : HandleOf[c] = HandleOf[d]} \in SUBSET Calls
    OBVIOUS
  <2> QED
    BY <1>2, <2>2, <2>3
       DEF ClientClose, requestView, Alive, pickerVars, pipeVars, requestVars
<1> QED
  BY <1>1, <1>2, InboxKinds

(* What became of one call is all that the step changes in the statuses.   *)
LEMMA StatusKept ==
  ASSUME \A d \in Calls : CallStatus'[d] = CallStatus[d]
  PROVE  CallStatus' = CallStatus
BY DEF CallStatus

LEMMA StatusMoves ==
  ASSUME NEW c \in Calls, NEW from, NEW to, CallStatus[c] = from, CallStatus'[c] = to,
         \A d \in Calls \ {c} : CallStatus'[d] = CallStatus[d]
  PROVE  Service!Move(c, from, to)
<1>1. /\ CallStatus = [d \in Calls |-> CallStatus[d]]
      /\ CallStatus' = [d \in Calls |-> CallStatus'[d]]
  BY DEF CallStatus
<1>2. CallStatus' = [CallStatus EXCEPT ![c] = to]
  BY <1>1
<1> QED
  BY <1>2 DEF Service!Move

(* The value of the mapping for one call, before and after a step.         *)
LEMMA StatusOf ==
  ASSUME NEW c \in Calls
  PROVE  /\ CallStatus[c] =
              IF phase[c] = "new" THEN "idle"
              ELSE IF phase[c] = "sent" THEN "requested"
              ELSE IF replies[c] # <<>> THEN "answered"
              ELSE IF c \in requests \/ handler = c THEN "picking"
              ELSE "dismissed"
         /\ CallStatus'[c] =
              IF phase'[c] = "new" THEN "idle"
              ELSE IF phase'[c] = "sent" THEN "requested"
              ELSE IF replies'[c] # <<>> THEN "answered"
              ELSE IF c \in requests' \/ handler' = c THEN "picking"
              ELSE "dismissed"
BY DEF CallStatus

(* Whether the daemon lives, as the truth value the mapping gives it.      *)
LEMMA Serving ==
  /\ Alive \in BOOLEAN /\ Alive' \in BOOLEAN
BY DEF Alive

(* Nothing happens to a call, or something its caller cannot see.          *)
LEMMA StutterKinds ==
  ASSUME IInv, Withdrawn' = Withdrawn,
         Quiet \/ \E c \in Calls : Registered(c) \/ Drained(c)
  PROVE  UNCHANGED Service!serviceVars
<1>1. Alive' = Alive /\ written' = written /\ replies' = replies
  <2>1. (Alive' <=> Alive) /\ written' = written /\ replies' = replies
    BY DEF Quiet, requestView, Registered, Drained
  <2> QED
    BY <2>1, Serving
<1>2. CASE Quiet
  <2>1. \A d \in Calls : CallStatus'[d] = CallStatus[d]
    BY <1>2, StatusOf, Constants DEF Quiet, requestView
  <2> QED
    BY <1>1, <2>1, StatusKept DEF Service!serviceVars
<1>3. ASSUME NEW c \in Calls, Registered(c) \/ Drained(c)
      PROVE  UNCHANGED Service!serviceVars
  <2>1. \A d \in Calls : CallStatus'[d] = CallStatus[d]
    BY <1>3, StatusOf, Constants DEF Registered, Drained
  <2> QED
    BY <1>1, <2>1, StatusKept DEF Service!serviceVars
<1> QED
  BY <1>2, <1>3

(* The end of the daemon dismisses what was being picked.                  *)
LEMMA GoneStops ==
  ASSUME IInv, Withdrawn' = Withdrawn, Gone
  PROVE  Service!Stop
<1>1. Alive /\ Alive' = FALSE /\ written' = written /\ replies' = replies
  BY Serving DEF Gone
<1>2. \A d \in Calls :
        CallStatus'[d] = IF CallStatus[d] = "picking" THEN "dismissed" ELSE CallStatus[d]
  BY StatusOf, Constants DEF Gone
<1>3. CallStatus' = [c \in Calls |-> IF CallStatus[c] = "picking" THEN "dismissed"
                                    ELSE CallStatus[c]]
  BY <1>2 DEF CallStatus
<1> QED
  BY <1>1, <1>3 DEF Service!Stop

(* Clients close calls, to which nothing else happens.                     *)
LEMMA WithdrawKind ==
  ASSUME IInv, UNCHANGED requestView, handler' = handler, Alive, Alive',
         NEW D \in SUBSET Calls, Withdrawn' = Withdrawn \cup D
  PROVE  Service!Withdraw(D)
<1>1. Alive' = Alive /\ written' = written /\ replies' = replies
  BY Serving DEF requestView
<1>2. \A d \in Calls : CallStatus'[d] = CallStatus[d]
  BY StatusOf DEF requestView
<1> QED
  BY <1>1, <1>2, StatusKept DEF Service!Withdraw

(* Why a reply may not have been sent.                                     *)
LEMMA SilenceAllowed ==
  ASSUME ServiceInv, Alive, bus # "up" \/ "send" \in Faults
  PROVE  "silence" \in ServiceFailing
BY DEF ServiceInv, BusBreaksAsAllowed, ServiceFailing

(* An error reply is sent or, where that may happen, gets lost.            *)
LEMMA ErrorReplyKinds ==
  ASSUME IInv, ServiceInv, Alive, NEW c \in Calls, replies[c] = <<>>, ErrorReply(c)
  PROVE  \/ replies' = [replies EXCEPT ![c] = <<Service!Error>>]
         \/ replies' = replies /\ "silence" \in ServiceFailing
<1>1. PICK sent \in Sendable({c}) : replies' = WithReplies(sent, Error)
  BY DEF ErrorReply
<1>2. Error[c] = Service!Error
  BY DEF Error, Service!Error
<1> QED
  BY <1>1, <1>2, OneSent, SilenceAllowed

(* A call is made, refused, taken on, or its picker writes.                *)
LEMMA EarlyKinds ==
  ASSUME IInv, ServiceInv, Withdrawn' = Withdrawn, NEW c \in Calls,
         Called(c) \/ Refused(c) \/ Forked(c) \/ Grown(c)
  PROVE  \/ Service!Request(c) \/ Service!Refuse(c) \/ Service!Lose(c)
         \/ Service!Begin(c) \/ Service!Choose(c)
<1>1. CASE Called(c)
  <2>1. /\ phase[c] = "new" /\ phase'[c] = "sent" /\ requests' = requests
        /\ replies' = replies /\ handler' = handler
        /\ \A d \in Calls \ {c} : phase'[d] = phase[d]
    BY <1>1, Facts DEF Called
  <2>2. CallStatus[c] = "idle" /\ CallStatus'[c] = "requested"
    BY <2>1, StatusOf
  <2>3. \A d \in Calls \ {c} : CallStatus'[d] = CallStatus[d]
    BY <2>1, StatusOf
  <2>4. Service!Move(c, "idle", "requested")
    BY <2>2, <2>3, StatusMoves
  <2>5. Alive' = Alive
    BY <1>1, Serving DEF Called
  <2> QED
    BY <1>1, <2>4, <2>5 DEF Called, Service!Request
<1>2. CASE Refused(c)
  <2>1. replies[c] = <<>> /\ Alive' = Alive /\ written' = written
    BY <1>2, Facts, Serving DEF Refused, Untouched
  <2>2. /\ phase[c] = "sent" /\ phase'[c] = "handled" /\ requests' = requests
        /\ handler' = handler /\ handler = "none" /\ c \notin requests
        /\ \A d \in Calls \ {c} : phase'[d] = phase[d]
    BY <1>2, Facts DEF Refused, Untouched, Served
  <2>3. CASE replies' = [replies EXCEPT ![c] = <<Service!Error>>]
    <3>1. replies'[c] = <<Service!Error>> /\ \A d \in Calls \ {c} : replies'[d] = replies[d]
      BY <2>3, Facts
    <3>2. replies'[c] # <<>>
      BY <3>1
    <3>3. /\ CallStatus[c] = "requested" /\ CallStatus'[c] = "answered"
          /\ \A d \in Calls \ {c} : CallStatus'[d] = CallStatus[d]
      BY <3>1, <3>2, <2>2, StatusOf
    <3>4. Service!Move(c, "requested", "answered")
      BY <3>3, StatusMoves
    <3> QED
      BY <1>2, <2>1, <2>3, <3>4 DEF Refused, Service!Refuse
  <2>4. CASE replies' = replies /\ "silence" \in ServiceFailing
    <3>1. /\ CallStatus[c] = "requested" /\ CallStatus'[c] = "dismissed"
          /\ \A d \in Calls \ {c} : CallStatus'[d] = CallStatus[d]
      BY <2>1, <2>2, <2>4, StatusOf, Constants
    <3>2. Service!Move(c, "requested", "dismissed")
      BY <3>1, StatusMoves
    <3> QED
      BY <1>2, <2>1, <2>4, <3>2 DEF Refused, Service!Lose
  <2> QED
    BY <1>2, <2>1, <2>3, <2>4, ErrorReplyKinds DEF Refused
<1>3. CASE Forked(c)
  <2>1. Untouched(c) /\ replies[c] = <<>>
    BY <1>3, Facts DEF Forked, Untouched
  <2>2. /\ phase[c] = "sent" /\ phase'[c] = "handled" /\ requests' = requests
        /\ replies' = replies /\ handler' = c /\ handler = "none"
        /\ \A d \in Calls \ {c} : phase'[d] = phase[d]
    BY <1>3, Facts DEF Forked
  <2>3. /\ CallStatus[c] = "requested" /\ CallStatus'[c] = "picking"
        /\ \A d \in Calls \ {c} : CallStatus'[d] = CallStatus[d]
    BY <2>1, <2>2, StatusOf, Constants
  <2>4. Service!Move(c, "requested", "picking")
    BY <2>3, StatusMoves
  <2>5. Alive' = Alive
    BY <1>3, Serving DEF Forked
  <2> QED
    BY <1>3, <2>4, <2>5 DEF Forked, Service!Begin
<1>4. CASE Grown(c)
  <2>1. \A d \in Calls : CallStatus'[d] = CallStatus[d]
    BY <1>4, StatusOf DEF Grown
  <2>2. CallStatus[c] \in {"picking", "answered", "dismissed"}
    BY <1>4, StatusOf DEF Grown
  <2>3. Alive' = Alive
    <3>1. Alive' <=> Alive
      BY <1>4 DEF Grown
    <3> QED
      BY <3>1, Serving
  <2> QED
    BY <1>4, <2>1, <2>2, <2>3, StatusKept DEF Grown, Service!Choose
<1> QED
  BY <1>1, <1>2, <1>3, <1>4

(* The reply a request ends with names paths that were written, unless     *)
(* they could not be read.                                                 *)
LEMMA EndReplyIsAnswer ==
  ASSUME IInv, IInv', NEW c \in Calls, Ends(c),
         NEW x \in EndReply(c), replies' = [replies EXCEPT ![c] = x]
  PROVE  \/ \E n \in 1..written[c] : replies' = [replies EXCEPT ![c] = <<Service!Success(n)>>]
         \/ replies' = [replies EXCEPT ![c] = <<Service!Cancelled>>]
         \/ replies' = [replies EXCEPT ![c] = <<Service!Ended>>] /\ "read" \in Faults
<1>1. CASE x = <<Ended[c]>> /\ "read" \in Faults
  BY <1>1 DEF Ended, Service!Ended
<1>2. ASSUME NEW n \in {buffer[c], AllBytes[c]}, x = <<ResponseFor(n)>>
      PROVE  \/ \E m \in 1..written[c] : replies' = [replies EXCEPT ![c] = <<Service!Success(m)>>]
             \/ replies' = [replies EXCEPT ![c] = <<Service!Cancelled>>]
  <2>1. n \in Nat
    BY Facts DEF AllBytes
  <2>2. CASE n = 0
    <3>1. ResponseFor(n) = Service!Cancelled
      BY <2>2 DEF ResponseFor, Service!Cancelled
    <3> QED
      BY <1>2, <3>1
  <2>3. CASE n # 0
    <3>1. ResponseFor(n) = Service!Success(n) /\ ResponseFor(n).uris = n
      BY <2>3 DEF ResponseFor, Service!Success
    <3>2. replies'[c] = <<ResponseFor(n)>>
      BY <1>2, Facts
    <3>3. Len(replies'[c]) = 1 /\ replies'[c][1] = ResponseFor(n)
      BY <3>2, SingleReply
    <3>4. 1 \in 1..Len(replies'[c])
      <4>1. 1 \in 1..1
        OBVIOUS
      <4> QED
        BY <3>3, <4>1, Zenon
    <3>5. \A i \in 1..Len(replies'[c]) : replies'[c][i].uris =< written'[c]
      BY DEF IInv, RepliesBounded
    <3>6. n =< written'[c]
      BY <3>1, <3>3, <3>4, <3>5
    <3>7. n \in 1..written[c]
      BY <2>1, <2>3, <3>6, Facts DEF Ends
    <3> QED
      BY <1>2, <3>1, <3>7
  <2> QED
    BY <2>2, <2>3
<1> QED
  BY <1>1, <1>2 DEF EndReply

(* The end of a request answers or dismisses its call, or its reply gets   *)
(* lost.                                                                   *)
LEMMA EndKinds ==
  ASSUME IInv, IInv', ServiceInv, [Next]_vars, Withdrawn' = Withdrawn, NEW c \in Calls, Ends(c)
  PROVE  Service!Answer(c) \/ Service!Fail(c) \/ Service!Lose(c) \/ Service!Dismiss(c)
<1>1. /\ c \in requests /\ requests' = requests \ {c} /\ handler' = handler /\ handler # c
      /\ replies[c] = <<>> /\ c \notin closed /\ phase[c] = "handled" /\ phase' = phase
      /\ \A d \in Calls \ {c} : replies'[d] = replies[d]
  BY EndsEffect, Facts DEF Ends, Served
<1>2. Alive /\ Alive' = Alive /\ written' = written
  BY Serving DEF Ends
<1>3. CallStatus[c] = "picking"
  BY <1>1, StatusOf
<1>4. \A d \in Calls \ {c} : CallStatus'[d] = CallStatus[d]
  BY <1>1, StatusOf
<1>5. ASSUME NEW x \in EndReply(c), replies' = [replies EXCEPT ![c] = x]
      PROVE  Service!Answer(c) \/ Service!Fail(c)
  <2>1. replies'[c] = x
    BY <1>5, Facts
  <2>2. replies'[c] # <<>>
    BY <2>1 DEF EndReply
  <2>3. CallStatus'[c] = "answered"
    BY <1>1, <2>2, StatusOf
  <2>4. Service!Move(c, "picking", "answered")
    BY <1>3, <1>4, <2>3, StatusMoves
  <2>5. CASE \/ \E n \in 1..written[c] : replies' = [replies EXCEPT ![c] = <<Service!Success(n)>>]
             \/ replies' = [replies EXCEPT ![c] = <<Service!Cancelled>>]
    BY <1>2, <2>4, <2>5 DEF Service!Answer
  <2>6. CASE replies' = [replies EXCEPT ![c] = <<Service!Ended>>] /\ "read" \in Faults
    <3>1. "error" \in ServiceFailing
      BY <2>6 DEF ServiceFailing
    <3> QED
      BY <1>2, <2>4, <2>6, <3>1 DEF Service!Fail
  <2> QED
    BY <1>5, <2>5, <2>6, EndReplyIsAnswer
<1>6. ASSUME replies' = replies PROVE Service!Move(c, "picking", "dismissed")
  <2>1. CallStatus'[c] = "dismissed"
    BY <1>1, <1>6, StatusOf
  <2> QED
    BY <1>3, <1>4, <2>1, StatusMoves
<1>7. CASE closed' = closed \cup {c} /\ replies' = replies
  <2>1. c \in Withdrawn
    BY <1>1, <1>7, ClosedIsWithdrawn
  <2> QED
    BY <1>2, <1>6, <1>7, <2>1 DEF Service!Dismiss
<1>8. CASE replies' = replies /\ (bus # "up" \/ "send" \in Faults)
  BY <1>2, <1>6, <1>8, SilenceAllowed DEF Service!Lose
<1> QED
  BY <1>5, <1>7, <1>8 DEF Ends

(* The call whose object path is refused gets an error, if it can be sent. *)
LEMMA GivenUpKinds ==
  ASSUME IInv, ServiceInv, Withdrawn' = Withdrawn, NEW c \in Calls, GivenUp(c)
  PROVE  Service!Fail(c) \/ Service!Lose(c)
<1>1. /\ Alive /\ Alive' = Alive /\ written' = written
      /\ handler = c /\ handler' = "none" /\ c \notin requests
      /\ requests' = requests /\ phase' = phase
      /\ phase[c] = "handled" /\ replies[c] = <<>>
  BY Facts, Serving DEF GivenUp, Served
<1>2. "error" \in ServiceFailing
  BY <1>1, Facts DEF GivenUp, HandleTaken, ServiceFailing, SharedPaths
<1>3. CallStatus[c] = "picking"
  BY <1>1, StatusOf
<1>4. CASE replies' = [replies EXCEPT ![c] = <<Service!Error>>]
  <2>1. replies'[c] = <<Service!Error>> /\ \A d \in Calls \ {c} : replies'[d] = replies[d]
    BY <1>4, Facts
  <2>2. replies'[c] # <<>>
    BY <2>1
  <2>3. CallStatus'[c] = "answered" /\ \A d \in Calls \ {c} : CallStatus'[d] = CallStatus[d]
    BY <1>1, <2>1, <2>2, StatusOf, Constants
  <2>4. Service!Move(c, "picking", "answered")
    BY <1>3, <2>3, StatusMoves
  <2> QED
    BY <1>1, <1>2, <1>4, <2>4 DEF Service!Fail
<1>5. CASE replies' = replies /\ "silence" \in ServiceFailing
  <2>1. CallStatus'[c] = "dismissed" /\ \A d \in Calls \ {c} : CallStatus'[d] = CallStatus[d]
    BY <1>1, <1>5, StatusOf, Constants
  <2>2. Service!Move(c, "picking", "dismissed")
    BY <1>3, <2>1, StatusMoves
  <2> QED
    BY <1>1, <1>5, <2>2 DEF Service!Lose
<1> QED
  BY <1>1, <1>4, <1>5, ErrorReplyKinds DEF GivenUp

(* Every step of the portal is one of the service, or none.                *)
LEMMA ServiceStep ==
  ASSUME IInv, IInv', ServiceInv, [Next]_vars
  PROVE  [Service!Next]_(Service!serviceVars)
<1>1. CASE /\ UNCHANGED requestView /\ handler' = handler /\ Alive /\ Alive'
           /\ \E D \in SUBSET Calls : Withdrawn' = Withdrawn \cup D
  BY <1>1, WithdrawKind DEF Service!Next
<1>2. CASE Withdrawn' = Withdrawn
  <2>1. CASE Quiet \/ \E c \in Calls : Registered(c) \/ Drained(c)
    BY <1>2, <2>1, StutterKinds
  <2>2. CASE Gone
    BY <1>2, <2>2, GoneStops DEF Service!Next
  <2>3. ASSUME NEW c \in Calls, Called(c) \/ Refused(c) \/ Forked(c) \/ Grown(c)
        PROVE  Service!Next
    BY <1>2, <2>3, EarlyKinds DEF Service!Next
  <2>4. ASSUME NEW c \in Calls, Ends(c)
        PROVE  Service!Next
    BY <1>2, <2>4, EndKinds DEF Service!Next
  <2>5. ASSUME NEW c \in Calls, GivenUp(c)
        PROVE  Service!Next
    BY <1>2, <2>5, GivenUpKinds DEF Service!Next
  <2> QED
    BY <2>1, <2>2, <2>3, <2>4, <2>5, StepKinds DEF AnyKind, Event
<1> QED
  BY <1>1, <1>2, WithdrawnKinds

(* The portal implements FileChooserService, whatever fails: in any order  *)
(* in which it learns of pipes, dead pickers, closed requests and signals, *)
(* a call gets at most one answer, of paths that were picked.  It goes     *)
(* without one only if it is closed, outlives the portal or its reply gets *)
(* lost, and gets an error once a picker runs only if exporting or reading *)
(* may fail.                                                               *)
THEOREM Refinement == Spec => ImplementsService
<1>1. Init => ServiceInv
  BY DEF Init, ServiceInv, BusBreaksAsAllowed, ClosesAreAsked
<1>2. IInv /\ ServiceInv /\ [Next]_vars => ServiceInv'
  BY ServiceInvStep
<1>3. Init => Service!Init
  <2> SUFFICES ASSUME Init PROVE Service!Init
    OBVIOUS
  <2>1. Alive = TRUE
    BY DEF Init, PollenInit, Alive
  <2>2. CallStatus = [c \in Calls |-> "idle"]
    BY DEF Init, CallStatus
  <2>3. Withdrawn = {}
    BY DEF Init, Withdrawn
  <2> QED
    BY <2>1, <2>2, <2>3 DEF Init, PickerInit, Service!Init
<1>4. IInv /\ IInv' /\ ServiceInv /\ [Next]_vars => [Service!Next]_(Service!serviceVars)
  BY ServiceStep
<1> QED
  BY <1>1, <1>2, <1>3, <1>4, Invariance, PTL DEF Spec, ImplementsService, Service!Spec
=============================================================================
