------------------------- MODULE FilechooserTypes -------------------------
(***************************************************************************)
(* Type correctness of the portal, for any number of calls, process ids,   *)
(* paths and failures.                                                     *)
(***************************************************************************)
EXTENDS FilechooserProperties, TLAPS

(* The standing assumptions on the constants, as one fact. *)
LEMMA Constants ==
  /\ MaxEvents \in Nat \ {0}
  /\ NoPid \notin Pids
  /\ MaxLines \in Nat
  /\ SignalFd \notin Calls /\ BusFd \notin Calls
  /\ "none" \notin Calls /\ "reap" \notin Calls
BY MaxEventsAssumption, PickerAssumption, FilechooserAssumption

-----------------------------------------------------------------------------
(* The event loop *)

(* Queueing a descriptor in the ready list keeps it a list of sources. *)
LEMMA WakeType ==
  ASSUME NEW S, NEW list \in Seq(S), NEW s \in S
  PROVE  Wake(list, s) \in Seq(S)
BY DEF Wake

(* Between two callbacks the loop is in one of the states its batch and    *)
(* the value of the callback call for.                                     *)
LEMMA CallbackReturnsType ==
  ASSUME LoopTypeOK, events # <<>>, NEW ret \in {-1, 0}, NEW quit \in BOOLEAN,
         CallbackReturns(ret, quit)
  PROVE  /\ mode' \in Modes \ {"handler"}
         /\ events' \in Seq(Sources)
         /\ mode' \in {"dispatch", "handler"} <=> events' # <<>>
         /\ shouldQuit' \in BOOLEAN
         /\ retcode' \in {-1, 0}
BY DEF LoopTypeOK, CallbackReturns, Modes

(* Taking one entry out of the ready list. *)
LEMMA EpollDropType ==
  ASSUME LoopTypeOK, NEW level, EpollDrop(level)
  PROVE  LoopTypeOK' /\ mode' # "handler"
<1>1. PICK i \in 1..BatchLen :
        ready' = SubSeq(ready, 1, i - 1) \o SubSeq(ready, i + 1, Len(ready))
  BY DEF EpollDrop
<1>2. i \in 1..Len(ready)
  BY <1>1, Constants DEF BatchLen, LoopTypeOK
<1>3. SubSeq(ready, 1, i - 1) \in Seq(Sources) /\ SubSeq(ready, i + 1, Len(ready)) \in Seq(Sources)
  BY <1>2 DEF LoopTypeOK
<1>4. ready' \in Seq(Sources)
  BY <1>1, <1>3
<1> QED
  BY <1>4 DEF EpollDrop, LoopTypeOK

(* A batch is never empty, and what it takes from the ready list goes back.*)
LEMMA EpollWaitType ==
  ASSUME LoopTypeOK, NEW level, EpollWait(level)
  PROVE  LoopTypeOK' /\ mode' # "handler"
<1>1. ready \in Seq(Sources) /\ Len(ready) \in Nat \ {0}
  BY DEF EpollWait, LoopTypeOK
<1>2. BatchLen \in 1..Len(ready)
  BY <1>1, Constants DEF BatchLen
<1>3. /\ SubSeq(ready, 1, BatchLen) \in Seq(Sources)
      /\ Len(SubSeq(ready, 1, BatchLen)) = BatchLen
      /\ SubSeq(ready, BatchLen + 1, Len(ready)) \in Seq(Sources)
  BY <1>1, <1>2
<1>4. events' \in Seq(Sources) /\ Len(events') \in Nat \ {0}
  BY <1>2, <1>3 DEF EpollWait
<1>5. events' # <<>>
  BY <1>4
<1>6. ready' \in Seq(Sources)
  BY <1>3 DEF EpollWait
<1> QED
  BY <1>4, <1>5, <1>6 DEF EpollWait, LoopTypeOK, Modes

-----------------------------------------------------------------------------
(* Type correctness *)

(* Replies are only ever appended. *)
LEMMA WithRepliesType ==
  ASSUME PortalTypeOK, NEW R \in SUBSET Calls, NEW reply \in [Calls -> Replies]
  PROVE  WithReplies(R, reply) \in [Calls -> Seq(Replies)]
BY DEF PortalTypeOK, WithReplies

(* The response made of any number of selections is a reply, and so are    *)
(* the two constant ones.                                                  *)
LEMMA ReplyTypes ==
  /\ \A n \in Nat : ResponseFor(n) \in Replies
  /\ Error \in [Calls -> Replies]
  /\ Ended \in [Calls -> Replies]
BY DEF ResponseFor, Error, Ended, Replies

(* The requests whose reply is accepted are some of those that reply. *)
LEMMA SendableSubset ==
  ASSUME NEW R, NEW sent \in Sendable(R)
  PROVE  sent \subseteq R
BY DEF Sendable

(* What filechooser_request_cleanup and filechooser_request_finalize leave *)
(* behind is well typed.                                                   *)
LEMMA CleanupType ==
  ASSUME TypeOK, NEW R \in SUBSET Calls, filechooser_request_cleanup(R)
  PROVE  /\ requests' \subseteq Calls
         /\ callbacks' \subseteq Sources
         /\ ropen' \in [Calls -> BOOLEAN]
         /\ pipe' \in [Calls -> Nat]
         /\ buffer' \in [Calls -> Nat]
BY DEF TypeOK, LoopTypeOK, PickerTypeOK, PortalTypeOK, filechooser_request_cleanup, pollen_loop_remove_callback

LEMMA FinalizeType ==
  ASSUME TypeOK, NEW R \in SUBSET Calls, NEW sent \in SUBSET R,
         NEW bytes \in [Calls -> Nat],
         filechooser_request_finalize(R, bytes, sent)
  PROVE  /\ filechooser_request_cleanup(R)
         /\ replies' \in [Calls -> Seq(Replies)]
<1>1. [c \in Calls |-> ResponseFor(bytes[c])] \in [Calls -> Replies]
  BY ReplyTypes
<1>2. WithReplies(sent, [c \in Calls |-> ResponseFor(bytes[c])]) \in [Calls -> Seq(Replies)]
  BY <1>1, WithRepliesType DEF TypeOK
<1> QED
  BY <1>2 DEF filechooser_request_finalize

(* The end of the daemon empties what belonged to the process. *)
LEMMA DaemonGoneType ==
  ASSUME TypeOK, NEW how \in {"exited", "crashed"}, DaemonGone(how)
  PROVE  TypeOK'
<1>1. LoopTypeOK'
  BY DEF TypeOK, LoopTypeOK, DaemonGone, Modes, Sources
<1>2. PickerTypeOK'
  BY DEF TypeOK, PickerTypeOK, DaemonGone, ProcStates
<1>3. PortalTypeOK'
  BY DEF TypeOK, PortalTypeOK, DaemonGone
<1> QED
  BY <1>1, <1>2, <1>3, Constants DEF TypeOK, DaemonGone

(* A step of the daemon that ends a callback. *)
LEMMA CallbackEndType ==
  ASSUME TypeOK, mode \in {"dispatch", "handler"},
         NEW ret \in {-1, 0}, NEW quit \in BOOLEAN, CallbackReturns(ret, quit),
         callbacks' \subseteq Sources, ready' \in Seq(Sources),
         handler' = "none", PickerTypeOK', PortalTypeOK'
  PROVE  TypeOK'
<1>1. LoopTypeOK /\ events # <<>>
  BY DEF TypeOK, LoopTypeOK
<1>2. /\ mode' \in Modes \ {"handler"}
      /\ events' \in Seq(Sources)
      /\ mode' \in {"dispatch", "handler"} <=> events' # <<>>
      /\ shouldQuit' \in BOOLEAN
      /\ retcode' \in {-1, 0}
  BY <1>1, CallbackReturnsType
<1>3. LoopTypeOK'
  BY <1>2 DEF LoopTypeOK, Modes
<1> QED
  BY <1>2, <1>3 DEF TypeOK

(* The inbox without its oldest message. *)
LEMMA InboxTail ==
  ASSUME PortalTypeOK, inbox # <<>>
  PROVE  Tail(inbox) \in Seq(Messages)
BY DEF PortalTypeOK

(* The callbacks of the bus descriptor. *)
LEMMA BusType ==
  ASSUME TypeOK,
         \/ BusConnectionLost
         \/ \E c \in Calls : MethodCall(c) \/ method_close(c) \/ CloseUnknownObject(c)
         \/ handle_name_lost
  PROVE  TypeOK'
<1> USE DEF vars, pickerVars, procVars, pipeVars, busVars, requestVars
<1>a. mode = "dispatch" => handler = "none"
  BY DEF TypeOK
<1>1. CASE BusConnectionLost
  <2>1. PICK ret \in {-1, 0} : CallbackReturns(ret, FALSE)
    BY <1>1 DEF BusConnectionLost
  <2>2. PickerTypeOK' /\ PortalTypeOK'
    BY <1>1 DEF BusConnectionLost, TypeOK, PickerTypeOK, PortalTypeOK
  <2> QED
    BY <1>1, <1>a, <2>1, <2>2, CallbackEndType
       DEF BusConnectionLost, Dispatching, TypeOK, LoopTypeOK
<1>2. ASSUME NEW c \in Calls, MethodCallFails(c) PROVE TypeOK'
  <2>1. PICK sent \in Sendable({c}) : replies' = WithReplies(sent, Error)
    BY <1>2 DEF MethodCallFails
  <2>2. replies' \in [Calls -> Seq(Replies)]
    BY <2>1, SendableSubset, ReplyTypes, WithRepliesType DEF TypeOK
  <2>3. PickerTypeOK'
    BY <1>2 DEF MethodCallFails, TypeOK, PickerTypeOK
  <2>4. PortalTypeOK'
    BY <1>2, <2>2, InboxTail DEF MethodCallFails, MessageIs, TypeOK, PortalTypeOK
  <2> QED
    BY <1>2, <1>a, <2>3, <2>4, CallbackEndType
       DEF MethodCallFails, MessageIs, Dispatching, TypeOK, LoopTypeOK
<1>3. ASSUME NEW c \in Calls, MethodCallForks(c) PROVE TypeOK'
  <2>1. LoopTypeOK' /\ mode' = "handler"
    BY <1>3 DEF MethodCallForks, MessageIs, Dispatching, CallbackContinues, TypeOK,
                LoopTypeOK, Modes
  <2>2. PickerTypeOK'
    BY <1>3 DEF MethodCallForks, exec_picker, FreePids, ProcStates, TypeOK, PickerTypeOK
  <2>3. PortalTypeOK' /\ handler' # "none"
    BY <1>3, InboxTail, Constants DEF MethodCallForks, MessageIs, TypeOK, PortalTypeOK
  <2> QED
    BY <2>1, <2>2, <2>3 DEF TypeOK
<1>4. ASSUME NEW c \in Calls, MethodCallVtableFails(c) PROVE TypeOK'
  <2>1. PICK sent \in Sendable({c}) : replies' = WithReplies(sent, Error)
    BY <1>4 DEF MethodCallVtableFails
  <2>2. replies' \in [Calls -> Seq(Replies)]
    BY <2>1, SendableSubset, ReplyTypes, WithRepliesType DEF TypeOK
  <2>3. PickerTypeOK' /\ PortalTypeOK'
    BY <1>4, <2>2 DEF MethodCallVtableFails, TypeOK, PickerTypeOK, PortalTypeOK
  <2>4. mode = "handler"
    BY <1>4, Constants DEF MethodCallVtableFails, TypeOK
  <2>5. callbacks' \subseteq Sources /\ ready' \in Seq(Sources)
    BY <1>4 DEF MethodCallVtableFails, TypeOK, LoopTypeOK
  <2> QED
    BY <1>4, <2>3, <2>4, <2>5, CallbackEndType DEF MethodCallVtableFails
<1>5. ASSUME NEW c \in Calls, MethodCallRegisters(c) PROVE TypeOK'
  <2>0. Wake(ready, c) \in Seq(Sources)
    BY WakeType DEF TypeOK, LoopTypeOK, Sources
  <2>1. callbacks' \subseteq Sources /\ ready' \in Seq(Sources)
    BY <1>5, <2>0 DEF MethodCallRegisters, pollen_loop_add_fd, TypeOK, LoopTypeOK, Sources
  <2>2. PickerTypeOK' /\ PortalTypeOK'
    BY <1>5 DEF MethodCallRegisters, TypeOK, PickerTypeOK, PortalTypeOK
  <2>3. mode = "handler"
    BY <1>5, Constants DEF MethodCallRegisters, TypeOK
  <2> QED
    BY <1>5, <2>1, <2>2, <2>3, CallbackEndType DEF MethodCallRegisters
<1>6. ASSUME NEW c \in Calls, method_close(c) PROVE TypeOK'
  <2>1. PICK sent \in Sendable({c}) :
          closed' = closed \cup sent /\ filechooser_request_cleanup(sent)
    BY <1>6 DEF method_close
  <2>2. sent \in SUBSET Calls
    BY <2>1, SendableSubset
  <2>3. /\ requests' \subseteq Calls
        /\ callbacks' \subseteq Sources
        /\ ropen' \in [Calls -> BOOLEAN]
        /\ pipe' \in [Calls -> Nat]
        /\ buffer' \in [Calls -> Nat]
    BY <2>1, <2>2, CleanupType
  <2>4. PickerTypeOK'
    BY <1>6, <2>3 DEF method_close, TermAfterKill, TypeOK, PickerTypeOK
  <2>5. PortalTypeOK'
    BY <1>6, <2>1, <2>2, <2>3, InboxTail DEF method_close, MessageIs, TypeOK, PortalTypeOK
  <2> QED
    BY <1>6, <1>a, <2>3, <2>4, <2>5, CallbackEndType
       DEF method_close, MessageIs, Dispatching, TypeOK, LoopTypeOK
<1>7. ASSUME NEW c \in Calls, CloseUnknownObject(c) PROVE TypeOK'
  <2>1. PickerTypeOK' /\ PortalTypeOK'
    BY <1>7, InboxTail
       DEF CloseUnknownObject, MessageIs, TypeOK, PickerTypeOK, PortalTypeOK
  <2> QED
    BY <1>7, <1>a, <2>1, CallbackEndType
       DEF CloseUnknownObject, MessageIs, Dispatching, TypeOK, LoopTypeOK
<1>8. CASE handle_name_lost
  <2>1. PickerTypeOK' /\ PortalTypeOK'
    BY <1>8, InboxTail
       DEF handle_name_lost, MessageIs, TypeOK, PickerTypeOK, PortalTypeOK
  <2> QED
    BY <1>8, <1>a, <2>1, CallbackEndType
       DEF handle_name_lost, MessageIs, Dispatching, TypeOK, LoopTypeOK
<1> QED
  BY <1>1, <1>2, <1>3, <1>4, <1>5, <1>6, <1>7, <1>8 DEF MethodCall

(* The callbacks of the pipes. *)
LEMMA PipeType ==
  ASSUME TypeOK, NEW c \in Calls, request_fd_event_handler(c) \/ StaleDispatch(c)
  PROVE  TypeOK'
<1> USE DEF pickerVars, procVars, pipeVars, busVars, requestVars
<1>a. mode = "dispatch" => handler = "none"
  BY DEF TypeOK
<1>b. AllBytes \in [Calls -> Nat]
  BY DEF AllBytes, TypeOK, PickerTypeOK, PortalTypeOK
<1>1. CASE PipeDrained(c)
  <2>1. PickerTypeOK' /\ PortalTypeOK'
    BY <1>1, <1>b DEF PipeDrained, TypeOK, PickerTypeOK, PortalTypeOK
  <2> QED
    BY <1>1, <1>a, <2>1, CallbackEndType
       DEF PipeDrained, RequestCallbackRuns, TypeOK, LoopTypeOK
<1>2. CASE PipeEof(c)
  <2>1. PICK sent \in Sendable({c}) :
          /\ filechooser_request_finalize({c}, AllBytes, sent)
          /\ CallbackReturns(IF sent = {} THEN -1 ELSE 0, FALSE)
    BY <1>2 DEF PipeEof
  <2>2. {c} \in SUBSET Calls /\ sent \in SUBSET {c}
    BY SendableSubset
  <2>3. replies' \in [Calls -> Seq(Replies)] /\ filechooser_request_cleanup({c})
    BY <2>1, <2>2, <1>b, FinalizeType
  <2>4. /\ requests' \subseteq Calls
        /\ callbacks' \subseteq Sources
        /\ ropen' \in [Calls -> BOOLEAN]
        /\ pipe' \in [Calls -> Nat]
        /\ buffer' \in [Calls -> Nat]
    BY <2>2, <2>3, CleanupType
  <2>5. PickerTypeOK' /\ PortalTypeOK'
    BY <1>2, <2>3, <2>4 DEF PipeEof, TypeOK, PickerTypeOK, PortalTypeOK
  <2>6. (IF sent = {} THEN -1 ELSE 0) \in {-1, 0}
    OBVIOUS
  <2> QED
    BY <1>2, <1>a, <2>1, <2>4, <2>5, <2>6, CallbackEndType
       DEF PipeEof, RequestCallbackRuns, TypeOK, LoopTypeOK
<1>3. CASE PipeError(c)
  <2>1. PICK sent \in Sendable({c}) : replies' = WithReplies(sent, Ended)
    BY <1>3 DEF PipeError
  <2>2. replies' \in [Calls -> Seq(Replies)]
    BY <2>1, SendableSubset, ReplyTypes, WithRepliesType DEF TypeOK
  <2>3. filechooser_request_cleanup({c}) /\ {c} \in SUBSET Calls
    BY <1>3 DEF PipeError
  <2>4. /\ requests' \subseteq Calls
        /\ callbacks' \subseteq Sources
        /\ ropen' \in [Calls -> BOOLEAN]
        /\ pipe' \in [Calls -> Nat]
        /\ buffer' \in [Calls -> Nat]
    BY <2>3, CleanupType
  <2>5. PickerTypeOK' /\ PortalTypeOK'
    BY <1>3, <2>2, <2>4 DEF PipeError, TypeOK, PickerTypeOK, PortalTypeOK
  <2> QED
    BY <1>3, <1>a, <2>4, <2>5, CallbackEndType
       DEF PipeError, RequestCallbackRuns, TypeOK, LoopTypeOK
<1>4. CASE StaleDispatch(c) /\ ~DaemonGone("crashed")
  <2>1. PICK ret \in {-1, 0} : CallbackReturns(ret, FALSE)
    BY <1>4 DEF StaleDispatch
  <2>2. PickerTypeOK' /\ PortalTypeOK'
    BY <1>4 DEF StaleDispatch, TypeOK, PickerTypeOK, PortalTypeOK
  <2> QED
    BY <1>4, <1>a, <2>1, <2>2, CallbackEndType
       DEF StaleDispatch, Dispatching, TypeOK, LoopTypeOK
<1>5. CASE DaemonGone("crashed")
  BY <1>5, DaemonGoneType
<1> QED
  BY <1>1, <1>2, <1>3, <1>4, <1>5 DEF request_fd_event_handler

(* The callbacks of the signalfd. *)
LEMMA SignalType ==
  ASSUME TypeOK,
         \/ sigint_sigterm_handler \/ sigchld_handler \/ ReapDone
         \/ \E c \in Calls : ReapChild(c)
  PROVE  TypeOK'
<1> USE DEF pickerVars, procVars, pipeVars, busVars, requestVars
<1>a. mode = "dispatch" => handler = "none"
  BY DEF TypeOK
<1>1. CASE sigint_sigterm_handler
  <2>1. PickerTypeOK' /\ PortalTypeOK'
    BY <1>1 DEF sigint_sigterm_handler, TypeOK, PickerTypeOK, PortalTypeOK
  <2> QED
    BY <1>1, <1>a, <2>1, CallbackEndType
       DEF sigint_sigterm_handler, Dispatching, TypeOK, LoopTypeOK
<1>2. CASE sigchld_handler
  <2>1. LoopTypeOK' /\ mode' = "handler"
    BY <1>2 DEF sigchld_handler, Dispatching, CallbackContinues, TypeOK, LoopTypeOK, Modes
  <2>2. PickerTypeOK' /\ PortalTypeOK' /\ handler' # "none"
    BY <1>2 DEF sigchld_handler, TypeOK, PickerTypeOK, PortalTypeOK
  <2> QED
    BY <2>1, <2>2 DEF TypeOK
<1>3. CASE ReapDone
  <2>1. PickerTypeOK' /\ PortalTypeOK'
    BY <1>3 DEF ReapDone, TypeOK, PickerTypeOK, PortalTypeOK
  <2>2. mode = "handler"
    BY <1>3 DEF ReapDone, TypeOK
  <2> QED
    BY <1>3, <2>1, <2>2, CallbackEndType DEF ReapDone, TypeOK, LoopTypeOK
<1>4. ASSUME NEW z \in Calls, ReapChild(z) PROVE TypeOK'
  <2>1. PICK sent \in Sendable(RequestsOf(z)) :
          filechooser_request_finalize(RequestsOf(z), buffer, sent)
    BY <1>4 DEF ReapChild
  <2>2. RequestsOf(z) \in SUBSET Calls /\ sent \in SUBSET RequestsOf(z)
    BY SendableSubset DEF RequestsOf, TypeOK, PortalTypeOK
  <2>3. buffer \in [Calls -> Nat]
    BY DEF TypeOK, PortalTypeOK
  <2>4. replies' \in [Calls -> Seq(Replies)] /\ filechooser_request_cleanup(RequestsOf(z))
    BY <2>1, <2>2, <2>3, FinalizeType
  <2>5. /\ requests' \subseteq Calls
        /\ callbacks' \subseteq Sources
        /\ ropen' \in [Calls -> BOOLEAN]
        /\ pipe' \in [Calls -> Nat]
        /\ buffer' \in [Calls -> Nat]
    BY <2>2, <2>4, CleanupType
  <2>6. PickerTypeOK' /\ PortalTypeOK'
    BY <1>4, <2>4, <2>5 DEF ReapChild, TypeOK, PickerTypeOK, PortalTypeOK, ProcStates
  <2> QED
    BY <1>4, <2>5, <2>6 DEF ReapChild, TypeOK, LoopTypeOK
<1> QED
  BY <1>1, <1>2, <1>3, <1>4

(* Steps of the client, of the bus and of whoever signals the daemon. *)
LEMMA EnvironmentType ==
  ASSUME TypeOK,
         \/ \E c \in Calls : ClientCall(c) \/ ClientClose(c)
         \/ LoseName \/ LoseBus \/ SendTerm
  PROVE  TypeOK'
<1> USE DEF pickerVars, procVars, pipeVars, busVars, requestVars
<1>1. BusFd \in Sources /\ SignalFd \in Sources
  BY DEF Sources
<1>2. ready \in Seq(Sources)
  BY DEF TypeOK, LoopTypeOK
<1>3. Wake(ready, BusFd) \in Seq(Sources) /\ Wake(ready, SignalFd) \in Seq(Sources)
  BY <1>1, <1>2, WakeType
<1>4. \A m \in Messages : Append(inbox, m) \in Seq(Messages)
  BY DEF TypeOK, PortalTypeOK
<1>5. NameLost \in Messages /\ \A c \in Calls : Open(c) \in Messages /\ Close(c) \in Messages
  BY DEF Messages, NameLost, Open, Close
<1>6. ASSUME NEW c \in Calls, ClientCall(c) PROVE TypeOK'
  BY <1>3, <1>4, <1>5, <1>6
     DEF ClientCall, TypeOK, LoopTypeOK, PickerTypeOK, PortalTypeOK
<1>7. ASSUME NEW c \in Calls, ClientClose(c) PROVE TypeOK'
  BY <1>3, <1>4, <1>5, <1>7
     DEF ClientClose, TypeOK, LoopTypeOK, PickerTypeOK, PortalTypeOK
<1>8. CASE LoseName
  BY <1>3, <1>4, <1>5, <1>8
     DEF LoseName, TypeOK, LoopTypeOK, PickerTypeOK, PortalTypeOK
<1>9. CASE LoseBus
  <2>0. inbox \in Seq(Messages) /\ <<>> \in Seq(Messages)
    BY DEF TypeOK, PortalTypeOK
  <2>1. inbox' \in Seq(Messages)
    BY <1>9, <2>0 DEF LoseBus
  <2>2. LoopTypeOK' /\ PickerTypeOK' /\ UNCHANGED <<mode, handler>>
    BY <1>3, <1>9 DEF LoseBus, TypeOK, LoopTypeOK, PickerTypeOK
  <2>3. PortalTypeOK'
    BY <1>9, <2>1 DEF LoseBus, TypeOK, PortalTypeOK
  <2> QED
    BY <2>2, <2>3 DEF TypeOK
<1>10. CASE SendTerm
  BY <1>3, <1>10 DEF SendTerm, TypeOK, LoopTypeOK, PickerTypeOK, PortalTypeOK
<1> QED
  BY <1>6, <1>7, <1>8, <1>9, <1>10

(* Steps of the pickers. *)
LEMMA ChildType ==
  ASSUME TypeOK, NEW c \in Calls, Child(c)
  PROVE  TypeOK'
<1> USE DEF pickerVars, procVars, pipeVars, busVars, requestVars, loopUnchanged, appUnchanged
<1>1. ready \in Seq(Sources) /\ c \in Sources /\ SignalFd \in Sources
  BY DEF TypeOK, LoopTypeOK, Sources
<1>2. WakePipe(c) \in Seq(Sources)
  BY <1>1, WakeType DEF WakePipe
<1>3. Wake(WakePipe(c), SignalFd) \in Seq(Sources)
  BY <1>1, <1>2, WakeType
<1>4. /\ ready' \in Seq(Sources)
      /\ signals' \subseteq {"TERM", "CHLD"}
  BY <1>1, <1>2, <1>3 DEF Child, Start, Write, CloseOutput, UnblocksTerm, Exits, DiesOfTerm,
     ChildSignals, TypeOK, PortalTypeOK
<1>5. /\ LoopTypeOK'
      /\ UNCHANGED <<mode, handler>>
      /\ PortalTypeOK'
  BY <1>4 DEF Child, Start, Write, CloseOutput, UnblocksTerm, Exits, DiesOfTerm,
     TypeOK, LoopTypeOK, PortalTypeOK
<1>6. CASE Start(c)
  <2>1. PickerTypeOK'
    BY <1>6 DEF Start, ChildStart, TypeOK, PickerTypeOK, ProcStates
  <2> QED
    BY <1>5, <2>1 DEF TypeOK
<1>7. CASE Write(c)
  <2>1. written[c] + 1 \in 0..MaxLines /\ pipe[c] + 1 \in Nat
    BY <1>7, Constants DEF Write, PickerWrite, TypeOK, PickerTypeOK
  <2>2. PickerTypeOK'
    BY <1>7, <2>1 DEF Write, PickerWrite, TypeOK, PickerTypeOK
  <2> QED
    BY <1>5, <2>2 DEF TypeOK
<1>8. CASE CloseOutput(c) \/ UnblocksTerm(c)
  <2>1. PickerTypeOK'
    BY <1>8 DEF CloseOutput, PickerCloseOutput, UnblocksTerm, PickerUnblocksTerm,
                TypeOK, PickerTypeOK
  <2> QED
    BY <1>5, <2>1 DEF TypeOK
<1>9. CASE Exits(c) \/ DiesOfTerm(c)
  <2>1. ChildGone(c, Fate) /\ Fate \in ProcStates
    BY <1>9 DEF Exits, DiesOfTerm, ChildExit, ChildTermDeath, Fate, ProcStates
  <2>2. PickerTypeOK'
    BY <2>1 DEF ChildGone, TypeOK, PickerTypeOK
  <2> QED
    BY <1>5, <2>2 DEF TypeOK
<1> QED
  BY <1>6, <1>7, <1>8, <1>9 DEF Child

(* Every step keeps the types. *)
LEMMA NextType ==
  ASSUME TypeOK, [Next]_vars
  PROVE  TypeOK'
<1>1. CASE Epoll
  <2>1. LoopTypeOK' /\ mode' # "handler" /\ mode # "handler"
    BY <1>1, EpollDropType, EpollWaitType DEF Epoll, EpollDrop, EpollWait, TypeOK
  <2>2. PickerTypeOK' /\ PortalTypeOK' /\ handler' = handler
    BY <1>1 DEF Epoll, TypeOK, PickerTypeOK, PortalTypeOK,
                pickerVars, procVars, pipeVars, busVars, requestVars
  <2> QED
    BY <2>1, <2>2 DEF TypeOK
<1>2. CASE Exit
  BY <1>2, DaemonGoneType DEF Exit
<1>3. CASE Daemon /\ ~Epoll /\ ~Exit
  BY <1>3, BusType, PipeType, SignalType DEF Daemon
<1>4. CASE World
  BY <1>4, EnvironmentType, ChildType DEF World
<1>5. CASE UNCHANGED vars
  BY <1>5 DEF TypeOK, LoopTypeOK, PickerTypeOK, PortalTypeOK, vars, pollenVars,
              pickerVars, procVars, pipeVars, busVars, requestVars
<1> QED
  BY <1>1, <1>2, <1>3, <1>4, <1>5 DEF Next, Quiescent

(* The initial state is well typed. *)
LEMMA InitType == Init => TypeOK
<1> SUFFICES ASSUME Init PROVE TypeOK
  OBVIOUS
<1>1. LoopTypeOK
  <2>1. <<>> \in Seq(Sources) /\ {BusFd, SignalFd} \subseteq Sources
    BY DEF Sources
  <2>2. mode = "wait" /\ events = <<>>
    BY DEF Init, PollenInit
  <2> QED
    BY <2>1, <2>2 DEF Init, PollenInit, LoopTypeOK, Modes
<1>2. PickerTypeOK
  BY Constants DEF Init, PickerInit, PickerTypeOK, ProcStates
<1>3. PortalTypeOK
  BY DEF Init, PortalTypeOK
<1> QED
  BY <1>1, <1>2, <1>3 DEF Init, PollenInit, TypeOK

(* Every variable keeps its type in every behaviour of the portal. *)
THEOREM TypeCorrect == Spec => []TypeOK
<1>1. Init => TypeOK
  BY InitType
<1>2. TypeOK /\ [Next]_vars => TypeOK'
  BY NextType
<1> QED
  BY <1>1, <1>2, PTL DEF Spec
=============================================================================
