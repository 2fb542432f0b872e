------------------------- MODULE FilechooserSafety -------------------------
(***************************************************************************)
(* The inductive invariant of the portal and what follows from it: at most *)
(* one reply to a call, pickers that are never mistaken for one another,   *)
(* callbacks whose request exists, and replies and signals that only go    *)
(* where they belong.                                                      *)
(***************************************************************************)
EXTENDS FilechooserTypes

(* IInv without the types, which FilechooserTypes deals with. *)
Core ==
  /\ CallbackDataLive
  /\ MethodCallsOnce
  /\ UntouchedUntilHandled
  /\ RequestsServed
  /\ PidsDistinct
  /\ RepliesBounded

LEMMA IInvParts == IInv <=> TypeOK /\ Core
BY DEF IInv, Core

-----------------------------------------------------------------------------
(* Messages *)

(* A method call is none of the other messages, and names its call. *)
LEMMA OpenDiffers ==
  \A c, d \in Calls : Open(c) # Close(d) /\ Open(c) # NameLost /\ (Open(c) = Open(d) => c = d)
BY DEF Open, Close, NameLost

(* Taking the oldest message, and marking the call it makes as handled. *)
LEMMA TakeMessage ==
  ASSUME PortalTypeOK, MethodCallsOnce, inbox # <<>>, inbox' = Tail(inbox),
         \A c \in Calls : phase'[c] = phase[c] \/ Head(inbox) = Open(c)
  PROVE  MethodCallsOnce'
<1>1. inbox \in Seq(Messages) /\ Head(inbox) = inbox[1] /\ Len(inbox) \in Nat \ {0}
  BY DEF PortalTypeOK
<1>2. \A i \in 1..Len(inbox') : inbox'[i] = inbox[i + 1] /\ i + 1 \in 1..Len(inbox)
  BY <1>1
<1>3. ASSUME NEW c \in Calls, NEW i \in 1..Len(inbox'), NEW j \in 1..Len(inbox'),
             inbox'[i] = Open(c)
      PROVE  phase'[c] = "sent" /\ (inbox'[j] = Open(c) => i = j)
  <2>1. inbox[i + 1] = Open(c) /\ i + 1 \in 1..Len(inbox)
    BY <1>2, <1>3
  <2>2. phase[c] = "sent" /\ \A k \in 1..Len(inbox) : inbox[k] = Open(c) => i + 1 = k
    BY <2>1 DEF MethodCallsOnce
  <2>3. inbox[1] # Open(c) /\ Len(inbox') \in Nat
    BY <1>1, <2>2
  <2>4. phase'[c] = phase[c]
    BY <1>1, <2>3
  <2>5. inbox'[j] = Open(c) => i = j
    BY <1>2, <2>2, <2>3
  <2> QED
    BY <2>2, <2>4, <2>5
<1> QED
  BY <1>3 DEF MethodCallsOnce

(* A message arrives that is no method call. *)
LEMMA OtherMessage ==
  ASSUME PortalTypeOK, MethodCallsOnce, NEW m, inbox' = Append(inbox, m),
         \A c \in Calls : m # Open(c), phase' = phase
  PROVE  MethodCallsOnce'
<1>1. inbox \in Seq(Messages) /\ Len(inbox) \in Nat
  BY DEF PortalTypeOK
<1>2. /\ Len(inbox') = Len(inbox) + 1
      /\ inbox'[Len(inbox) + 1] = m
      /\ \A i \in 1..Len(inbox) : inbox'[i] = inbox[i]
  BY <1>1
<1> QED
  BY <1>1, <1>2 DEF MethodCallsOnce

(* The method call arrives of a call that has not been made before. *)
LEMMA NewMessage ==
  ASSUME PortalTypeOK, MethodCallsOnce, NEW c \in Calls, phase[c] = "new",
         inbox' = Append(inbox, Open(c)), phase' = [phase EXCEPT ![c] = "sent"]
  PROVE  MethodCallsOnce'
<1>1. inbox \in Seq(Messages) /\ Len(inbox) \in Nat /\ phase \in [Calls -> {"new", "sent", "handled"}]
  BY DEF PortalTypeOK
<1>2. /\ Len(inbox') = Len(inbox) + 1
      /\ inbox'[Len(inbox) + 1] = Open(c)
      /\ \A i \in 1..Len(inbox) : inbox'[i] = inbox[i]
  BY <1>1
<1>3. \A i \in 1..Len(inbox) : inbox[i] # Open(c)
  BY DEF MethodCallsOnce
<1>4. ASSUME NEW d \in Calls, NEW i \in 1..Len(inbox'), NEW j \in 1..Len(inbox'),
             inbox'[i] = Open(d)
      PROVE  phase'[d] = "sent" /\ (inbox'[j] = Open(d) => i = j)
  <2>1. CASE d = c
    BY <1>1, <1>2, <1>3, <1>4, <2>1
  <2>2. CASE d # c
    <3>1. i \in 1..Len(inbox)
      BY <1>1, <1>2, <1>4, <2>2, OpenDiffers
    <3>2. inbox'[j] = Open(d) => j \in 1..Len(inbox)
      BY <1>1, <1>2, <2>2, OpenDiffers
    <3> QED
      BY <1>1, <1>2, <1>4, <2>2, <3>1, <3>2 DEF MethodCallsOnce
  <2> QED
    BY <2>1, <2>2
<1> QED
  BY <1>4 DEF MethodCallsOnce

-----------------------------------------------------------------------------
(* Kinds of steps *)

(* The first reply to a call. *)
LEMMA FirstReply == \A x : Append(<<>>, x) = <<x>>
OBVIOUS

(* A step that touches no request, picker process or reply. *)
LEMMA QuietStep ==
  ASSUME IInv, MethodCallsOnce',
         UNCHANGED <<callbacks, phase, replies, requests, buffer, closed, proc, pid,
                     written, pipe>>,
         handler' = handler \/ {handler, handler'} \subseteq {"none", "reap"},
         Alive' <=> Alive
  PROVE  Core'
<1>0. Core /\ requests \subseteq Calls
  BY DEF IInv, Core, TypeOK, PortalTypeOK
<1>1. \A c \in Calls : handler' = c <=> handler = c
  BY Constants
<1>2. CallbackDataLive' /\ PidsDistinct' /\ RepliesBounded'
  BY <1>0 DEF Core, CallbackDataLive, PidsDistinct, Unreaped, RepliesBounded
<1>3. UntouchedUntilHandled'
  BY <1>0, <1>1 DEF Core, UntouchedUntilHandled, Untouched
<1>4. handler' \notin requests'
  BY <1>0, <1>1 DEF Core, RequestsServed
<1>5. RequestsServed'
  BY <1>0, <1>1, <1>4 DEF Core, RequestsServed, Served, Unreaped
<1> QED
  BY <1>0, <1>2, <1>3, <1>5 DEF Core

(* The requests R end: those in sent with a reply, and those in shut       *)
(* because they were closed.  No request that stays has its picker waited  *)
(* for.                                                                    *)
LEMMA EndStep ==
  ASSUME IInv, MethodCallsOnce',
         NEW R \in SUBSET requests, NEW sent \in SUBSET R, NEW shut \in SUBSET R,
         sent \cap shut = {},
         NEW reply \in [Calls -> Replies],
         \A c \in R : reply[c].uris <= written[c],
         filechooser_request_cleanup(R),
         replies' = WithReplies(sent, reply),
         closed' = closed \cup shut,
         \A c \in Calls : Unreaped(c)' => Unreaped(c),
         \A c \in Calls : proc'[c] = proc[c] \/ (Unreaped(c) /\ c \notin requests \ R /\ c # handler),
         UNCHANGED <<phase, pid, written, handler>>,
         Alive' <=> Alive
  PROVE  Core'
<1>1. Core /\ requests \subseteq Calls
  BY DEF IInv, Core, TypeOK, PortalTypeOK
<1>2. \A c \in R : Served(c)
  BY <1>1 DEF Core, RequestsServed
<1>3. CallbackDataLive'
  BY <1>1 DEF Core, CallbackDataLive, filechooser_request_cleanup, pollen_loop_remove_callback
<1>4. UntouchedUntilHandled'
  <2>1. SUFFICES ASSUME NEW c \in Calls, phase'[c] # "handled"
                 PROVE  Untouched(c)'
    BY DEF UntouchedUntilHandled
  <2>2. Untouched(c) /\ c \notin R
    BY <1>1, <1>2, <2>1 DEF Core, UntouchedUntilHandled, Served
  <2>3. replies'[c] = replies[c]
    BY <2>2 DEF WithReplies
  <2>4. proc'[c] = proc[c]
    BY <2>2 DEF Untouched, Unreaped
  <2> QED
    BY <2>2, <2>3, <2>4 DEF Untouched, filechooser_request_cleanup, pollen_loop_remove_callback
<1>5. RequestsServed'
  <2>1. ASSUME NEW c \in Calls, c \in requests' \/ handler' = c
        PROVE  Served(c)'
    <3>1. Served(c) /\ c \notin R
      BY <1>1, <2>1 DEF Core, RequestsServed, filechooser_request_cleanup, pollen_loop_remove_callback
    <3>2. replies'[c] = replies[c]
      BY <3>1 DEF WithReplies
    <3>3. proc'[c] = proc[c]
      BY <2>1, <3>1 DEF filechooser_request_cleanup, pollen_loop_remove_callback
    <3>4. buffer'[c] = buffer[c] /\ pipe'[c] = pipe[c]
      BY <3>1 DEF filechooser_request_cleanup, pollen_loop_remove_callback
    <3> QED
      BY <3>1, <3>2, <3>3, <3>4 DEF Served, Unreaped
  <2> QED
    BY <1>1, <2>1 DEF Core, RequestsServed, filechooser_request_cleanup, pollen_loop_remove_callback
<1>6. PidsDistinct'
  BY <1>1 DEF Core, PidsDistinct
<1>7. RepliesBounded'
  <2>1. SUFFICES ASSUME NEW c \in Calls
                 PROVE  /\ replies'[c] # <<>> => c \notin closed' /\ Len(replies'[c]) = 1
                        /\ \A i \in 1..Len(replies'[c]) : replies'[c][i].uris <= written'[c]
    BY DEF RepliesBounded
  <2>2. CASE c \in sent
    <3>1. replies[c] = <<>> /\ c \notin closed
      BY <1>2, <2>2 DEF Served
    <3>2. replies'[c] = Append(<<>>, reply[c])
      BY <2>2, <3>1 DEF WithReplies
    <3>3. replies'[c] = <<reply[c]>>
      BY <3>2, FirstReply
    <3>4. reply[c].uris <= written'[c]
      BY <2>2
    <3> QED
      BY <2>2, <3>1, <3>3, <3>4
  <2>3. CASE c \in R \ sent
    <3>1. replies'[c] = <<>>
      BY <1>2, <2>3 DEF Served, WithReplies
    <3> QED
      BY <3>1
  <2>4. CASE c \notin R
    <3>1. replies'[c] = replies[c] /\ (c \in closed' <=> c \in closed)
      BY <2>4 DEF WithReplies
    <3> QED
      BY <1>1, <3>1 DEF Core, RepliesBounded
  <2> QED
    BY <2>2, <2>3, <2>4
<1> QED
  BY <1>3, <1>4, <1>5, <1>6, <1>7 DEF Core

(* The process is gone: nothing is being served any more. *)
LEMMA GoneStep ==
  ASSUME IInv, NEW how \in {"exited", "crashed"}, DaemonGone(how)
  PROVE  Core'
<1>1. Core /\ requests \subseteq Calls
  BY DEF IInv, Core, TypeOK, PortalTypeOK
<1>2. \A c \in Calls : c \notin requests' /\ handler' # c /\ (Unreaped(c)' => Unreaped(c))
  BY Constants, <1>1 DEF DaemonGone, Unreaped
<1>3. CallbackDataLive' /\ RequestsServed'
  BY <1>2 DEF DaemonGone, CallbackDataLive, RequestsServed
<1>4. MethodCallsOnce'
  BY DEF DaemonGone, MethodCallsOnce
<1>5. UntouchedUntilHandled'
  BY <1>1, <1>2 DEF DaemonGone, Core, UntouchedUntilHandled, Untouched
<1>6. PidsDistinct' /\ RepliesBounded'
  BY <1>1, <1>2 DEF DaemonGone, Core, PidsDistinct, RepliesBounded
<1> QED
  BY <1>3, <1>4, <1>5, <1>6 DEF Core

-----------------------------------------------------------------------------
(* The callbacks of the bus descriptor *)

(* Handling a message leaves the daemon alive and the inbox one shorter. *)
LEMMA MessageTaken ==
  ASSUME IInv, NEW m, MessageIs(m), inbox' = Tail(inbox), m = Head(inbox),
         \A c \in Calls : phase'[c] = phase[c] \/ m = Open(c)
  PROVE  MethodCallsOnce' /\ mode = "dispatch" /\ handler = "none"
<1>1. PortalTypeOK /\ MethodCallsOnce /\ inbox # <<>> /\ mode = "dispatch"
  BY DEF IInv, TypeOK, MessageIs, Dispatching
<1>2. MethodCallsOnce'
  BY <1>1, TakeMessage
<1> QED
  BY <1>1, <1>2 DEF IInv, TypeOK

(* A callback that returns leaves the daemon alive. *)
LEMMA ReturnAlive ==
  ASSUME NEW ret, NEW quit, CallbackReturns(ret, quit)
  PROVE  Alive'
BY DEF CallbackReturns, Alive

(* A call that fails before its picker runs is answered once. *)
LEMMA MethodCallFailsSafe ==
  ASSUME IInv, NEW c \in Calls, MethodCallFails(c)
  PROVE  Core'
<1>1. /\ Core /\ requests \subseteq Calls /\ replies \in [Calls -> Seq(Replies)]
      /\ phase \in [Calls -> {"new", "sent", "handled"}]
      /\ inbox \in Seq(Messages)
      /\ written \in [Calls -> 0..MaxLines]
  BY DEF IInv, Core, TypeOK, PortalTypeOK, PickerTypeOK
<1>2. /\ MessageIs(Open(c)) /\ Head(inbox) = Open(c) /\ inbox # <<>>
      /\ phase' = [phase EXCEPT ![c] = "handled"]
      /\ inbox' = Tail(inbox)
      /\ UNCHANGED <<callbacks, requests, buffer, closed, handler, proc, pid, written, pipe>>
      /\ Alive' /\ Alive
  BY ReturnAlive DEF MethodCallFails, MessageIs, Dispatching, Alive, pickerVars, procVars,
                     pipeVars, requestVars
<1>3. MethodCallsOnce'
  BY <1>1, <1>2, MessageTaken
<1>4. phase[c] = "sent" /\ Untouched(c)
  <2>1. inbox[1] = Open(c) /\ 1 \in 1..Len(inbox)
    BY <1>1, <1>2
  <2>2. phase[c] = "sent"
    BY <1>1, <2>1 DEF Core, MethodCallsOnce
  <2> QED
    BY <1>1, <2>2 DEF Core, UntouchedUntilHandled
<1>5. PICK sent \in Sendable({c}) : replies' = WithReplies(sent, Error)
  BY DEF MethodCallFails
<1>6. \A d \in Calls \ {c} : replies'[d] = replies[d]
  BY <1>5, SendableSubset DEF WithReplies
<1>7. replies'[c] \in {<<>>, <<Error[c]>>}
  <2>1. replies'[c] \in {<<>>, Append(<<>>, Error[c])}
    BY <1>4, <1>5 DEF WithReplies, Untouched
  <2> QED
    BY <2>1, FirstReply
<1>8. CallbackDataLive' /\ PidsDistinct'
  BY <1>1, <1>2 DEF Core, CallbackDataLive, PidsDistinct, Unreaped
<1>9. UntouchedUntilHandled'
  BY <1>1, <1>2, <1>6 DEF Core, UntouchedUntilHandled, Untouched
<1>10. RequestsServed'
  BY <1>1, <1>2, <1>4, <1>6 DEF Core, RequestsServed, Served, Unreaped, Untouched
<1>11. RepliesBounded'
  <2>1. c \notin closed' /\ Error[c].uris <= written'[c]
    BY <1>1, <1>2, <1>4, Constants DEF Untouched, Error
  <2>2. ASSUME NEW d \in Calls \ {c}
        PROVE  /\ replies'[d] # <<>> => d \notin closed' /\ Len(replies'[d]) = 1
               /\ \A i \in 1..Len(replies'[d]) : replies'[d][i].uris <= written'[d]
    BY <1>1, <1>2, <1>6 DEF Core, RepliesBounded
  <2>3. /\ replies'[c] # <<>> => c \notin closed' /\ Len(replies'[c]) = 1
        /\ \A i \in 1..Len(replies'[c]) : replies'[c][i].uris <= written'[c]
    BY <1>7, <2>1
  <2> QED
    BY <2>2, <2>3 DEF RepliesBounded
<1> QED
  BY <1>3, <1>8, <1>9, <1>10, <1>11 DEF Core

(* A picker is forked under a process id that no unreaped child has. *)
LEMMA MethodCallForksSafe ==
  ASSUME IInv, NEW c \in Calls, MethodCallForks(c)
  PROVE  Core'
<1>1. /\ Core /\ requests \subseteq Calls
      /\ phase \in [Calls -> {"new", "sent", "handled"}]
      /\ inbox \in Seq(Messages)
      /\ proc \in [Calls -> ProcStates] /\ pid \in [Calls -> Pids \cup {NoPid}]
  BY DEF IInv, Core, TypeOK, PortalTypeOK, PickerTypeOK
<1>2. /\ MessageIs(Open(c)) /\ Head(inbox) = Open(c) /\ inbox # <<>>
      /\ phase' = [phase EXCEPT ![c] = "handled"]
      /\ inbox' = Tail(inbox)
      /\ proc' = [proc EXCEPT ![c] = "forked"]
      /\ handler' = c
      /\ UNCHANGED <<callbacks, requests, buffer, closed, written, pipe, replies>>
      /\ Alive' /\ Alive
  BY DEF MethodCallForks, exec_picker, CallbackContinues, MessageIs, Dispatching, Alive, requestVars
<1>3. MethodCallsOnce' /\ handler = "none"
  BY <1>1, <1>2, MessageTaken
<1>4. phase[c] = "sent" /\ Untouched(c)
  <2>1. inbox[1] = Open(c) /\ 1 \in 1..Len(inbox)
    BY <1>1, <1>2
  <2>2. phase[c] = "sent"
    BY <1>1, <2>1 DEF Core, MethodCallsOnce
  <2> QED
    BY <1>1, <2>2 DEF Core, UntouchedUntilHandled
<1>5. CallbackDataLive' /\ RepliesBounded'
  BY <1>1, <1>2 DEF Core, CallbackDataLive, RepliesBounded
<1>6. UntouchedUntilHandled'
  BY <1>1, <1>2 DEF Core, UntouchedUntilHandled, Untouched
<1>7. RequestsServed'
  BY <1>1, <1>2, <1>4 DEF Core, RequestsServed, Served, Unreaped, Untouched
<1>8. PidsDistinct'
  <2>1. PICK p \in FreePids : pid' = [pid EXCEPT ![c] = p]
    BY DEF MethodCallForks, exec_picker
  <2>2. \A d \in Calls : Unreaped(d) => pid[d] # p
    BY <2>1 DEF FreePids
  <2> QED
    BY <1>1, <1>2, <2>1, <2>2 DEF Core, PidsDistinct, Unreaped
<1> QED
  BY <1>3, <1>5, <1>6, <1>7, <1>8 DEF Core

(* The rest of the method answers with an error or registers the request. *)
LEMMA MethodCallEndsSafe ==
  ASSUME IInv, NEW c \in Calls, MethodCallVtableFails(c) \/ MethodCallRegisters(c)
  PROVE  Core'
<1>1. /\ Core /\ requests \subseteq Calls
      /\ written \in [Calls -> 0..MaxLines]
  BY DEF IInv, Core, TypeOK, PortalTypeOK, PickerTypeOK
<1>2. /\ handler = c /\ Served(c) /\ c \notin requests
      /\ handler' = "none" /\ mode = "handler" /\ Alive
  BY <1>1, Constants DEF MethodCallVtableFails, MethodCallRegisters, Core, RequestsServed,
                         Alive, IInv, TypeOK
<1>3. /\ UNCHANGED <<phase, inbox, buffer, closed, proc, pid, written, pipe>>
      /\ Alive'
  BY ReturnAlive DEF MethodCallVtableFails, MethodCallRegisters, pickerVars, procVars,
                     pipeVars, requestVars, busVars
<1>4. MethodCallsOnce' /\ PidsDistinct'
  BY <1>1, <1>3 DEF Core, MethodCallsOnce, PidsDistinct, Unreaped
<1>5. CASE MethodCallVtableFails(c)
  <2>1. PICK sent \in Sendable({c}) : replies' = WithReplies(sent, Error)
    BY <1>5 DEF MethodCallVtableFails
  <2>2. UNCHANGED <<requests, callbacks>>
    BY <1>5 DEF MethodCallVtableFails, requestVars
  <2>3. \A d \in Calls \ {c} : replies'[d] = replies[d]
    BY <2>1, SendableSubset DEF WithReplies
  <2>4. replies'[c] \in {<<>>, <<Error[c]>>}
    <3>1. replies'[c] \in {<<>>, Append(<<>>, Error[c])}
      BY <1>2, <2>1 DEF WithReplies, Served
    <3> QED
      BY <3>1, FirstReply
  <2>5. CallbackDataLive'
    BY <1>1, <2>2 DEF Core, CallbackDataLive
  <2>6. UntouchedUntilHandled'
    BY <1>1, <1>2, <1>3, <2>2, <2>3, Constants DEF Core, UntouchedUntilHandled, Untouched, Served
  <2>7. RequestsServed'
    BY <1>1, <1>2, <1>3, <2>2, <2>3, Constants DEF Core, RequestsServed, Served, Unreaped
  <2>8. RepliesBounded'
    <3>1. c \notin closed' /\ Error[c].uris <= written'[c]
      BY <1>1, <1>2, <1>3, Constants DEF Served, Error
    <3>2. /\ replies'[c] # <<>> => c \notin closed' /\ Len(replies'[c]) = 1
          /\ \A i \in 1..Len(replies'[c]) : replies'[c][i].uris <= written'[c]
      BY <2>4, <3>1
    <3>3. ASSUME NEW d \in Calls \ {c}
          PROVE  /\ replies'[d] # <<>> => d \notin closed' /\ Len(replies'[d]) = 1
                 /\ \A i \in 1..Len(replies'[d]) : replies'[d][i].uris <= written'[d]
      BY <1>1, <1>3, <2>3 DEF Core, RepliesBounded
    <3> QED
      BY <3>2, <3>3 DEF RepliesBounded
  <2> QED
    BY <1>4, <2>5, <2>6, <2>7, <2>8 DEF Core
<1>6. CASE MethodCallRegisters(c)
  <2>1. requests' = requests \cup {c} /\ callbacks' \subseteq callbacks \cup {c} /\ replies' = replies
    BY <1>6 DEF MethodCallRegisters, pollen_loop_add_fd, busVars
  <2>2. CallbackDataLive' /\ RepliesBounded'
    BY <1>1, <1>3, <2>1 DEF Core, CallbackDataLive, RepliesBounded
  <2>3. UntouchedUntilHandled'
    BY <1>1, <1>2, <1>3, <2>1, Constants DEF Core, UntouchedUntilHandled, Untouched, Served
  <2>4. RequestsServed'
    BY <1>1, <1>2, <1>3, <2>1, Constants DEF Core, RequestsServed, Served, Unreaped
  <2> QED
    BY <1>4, <2>2, <2>3, <2>4 DEF Core
<1> QED
  BY <1>5, <1>6

(* A request that is closed ends without a reply, or not at all. *)
LEMMA CloseSafe ==
  ASSUME IInv, NEW r \in Calls, method_close(r)
  PROVE  Core'
<1>1. PICK m \in Calls : MessageIs(Close(m))
  BY DEF method_close
<1>2. MethodCallsOnce' /\ mode = "dispatch"
  BY <1>1, MessageTaken DEF method_close, MessageIs
<1>3. PICK sent \in Sendable({r}) :
        closed' = closed \cup sent /\ filechooser_request_cleanup(sent)
  BY DEF method_close
<1>4. sent \in SUBSET requests
  BY <1>3, SendableSubset DEF method_close
<1>5. replies' = WithReplies({}, Error)
  BY DEF method_close, WithReplies, IInv, TypeOK, PortalTypeOK
<1>6. UNCHANGED <<phase, proc, pid, written, handler>>
  BY DEF method_close
<1>7. Alive' /\ Alive
  BY <1>2, ReturnAlive DEF method_close, Alive
<1>8. /\ \A c \in Calls : Unreaped(c)' => Unreaped(c)
      /\ \A c \in Calls : proc'[c] = proc[c]
  BY <1>6 DEF Unreaped
<1>9. {} \in SUBSET sent /\ {} \cap sent = {} /\ sent \in SUBSET sent
  OBVIOUS
<1>10. \A c \in sent : Error[c].uris <= written[c]
  BY <1>4, Constants DEF Error, IInv, TypeOK, PortalTypeOK, PickerTypeOK
<1> QED
  BY <1>2, <1>3, <1>4, <1>5, <1>6, <1>7, <1>8, <1>9, <1>10, ReplyTypes, EndStep

(* The other messages, and the end of the connection. *)
LEMMA OtherBusSafe ==
  ASSUME IInv,
         BusConnectionLost \/ handle_name_lost \/ \E c \in Calls : CloseUnknownObject(c)
  PROVE  Core'
<1>1. MethodCallsOnce'
  <2>1. CASE BusConnectionLost
    BY <2>1 DEF BusConnectionLost, MethodCallsOnce
  <2>2. CASE handle_name_lost
    BY <2>2, MessageTaken DEF handle_name_lost, MessageIs
  <2>3. ASSUME NEW c \in Calls, CloseUnknownObject(c) PROVE MethodCallsOnce'
    BY <2>3, MessageTaken DEF CloseUnknownObject, MessageIs
  <2> QED
    BY <2>1, <2>2, <2>3
<1>2. Alive /\ Alive'
  BY ReturnAlive DEF BusConnectionLost, handle_name_lost, CloseUnknownObject, MessageIs,
                     Dispatching, Alive
<1>3. UNCHANGED <<callbacks, phase, replies, requests, buffer, closed, proc, pid, written,
                  pipe, handler>>
  BY DEF BusConnectionLost, handle_name_lost, CloseUnknownObject, pickerVars, procVars,
         pipeVars, requestVars
<1> QED
  BY <1>1, <1>2, <1>3, QuietStep

-----------------------------------------------------------------------------
(* The callbacks of the pipes and of the signalfd *)

(* Reading the pipe moves selections and loses none. *)
LEMMA DrainedSafe ==
  ASSUME IInv, NEW c \in Calls, PipeDrained(c)
  PROVE  Core'
<1>1. /\ Core /\ requests \subseteq Calls
      /\ buffer \in [Calls -> Nat] /\ pipe \in [Calls -> Nat]
      /\ written \in [Calls -> 0..MaxLines]
  BY DEF IInv, Core, TypeOK, PortalTypeOK, PickerTypeOK
<1>2. /\ UNCHANGED <<callbacks, phase, replies, requests, closed, proc, pid, written,
                     handler, inbox>>
      /\ Alive /\ Alive'
  BY ReturnAlive DEF PipeDrained, RequestCallbackRuns, Alive, procVars, busVars
<1>3. c \in requests
  BY <1>1 DEF PipeDrained, RequestCallbackRuns, Core, CallbackDataLive
<1>4. /\ buffer' = [buffer EXCEPT ![c] = buffer[c] + pipe[c]]
      /\ pipe' = [pipe EXCEPT ![c] = 0]
  BY DEF PipeDrained, AllBytes
<1>5. /\ CallbackDataLive' /\ MethodCallsOnce' /\ PidsDistinct' /\ RepliesBounded'
  BY <1>1, <1>2 DEF Core, CallbackDataLive, MethodCallsOnce, PidsDistinct, Unreaped,
                    RepliesBounded
<1>6. UntouchedUntilHandled'
  BY <1>1, <1>2, <1>3, <1>4 DEF Core, UntouchedUntilHandled, Untouched
<1>7. RequestsServed'
  BY <1>1, <1>2, <1>4 DEF Core, RequestsServed, Served, Unreaped
<1> QED
  BY <1>5, <1>6, <1>7 DEF Core

(* End of file and a failing read end the request with one reply, which    *)
(* names what the picker has written.                                      *)
LEMMA PipeEndSafe ==
  ASSUME IInv, NEW c \in Calls, PipeEof(c) \/ PipeError(c)
  PROVE  Core'
<1>1. /\ Core /\ requests \subseteq Calls
      /\ buffer \in [Calls -> Nat] /\ pipe \in [Calls -> Nat]
      /\ written \in [Calls -> 0..MaxLines]
      /\ inbox \in Seq(Messages)
  BY DEF IInv, Core, TypeOK, PortalTypeOK, PickerTypeOK
<1>2. {c} \in SUBSET requests
  BY <1>1 DEF PipeEof, PipeError, RequestCallbackRuns, Core, CallbackDataLive
<1>3. /\ UNCHANGED <<phase, proc, pid, written, handler, inbox, closed>>
      /\ Alive /\ Alive'
  BY ReturnAlive DEF PipeEof, PipeError, RequestCallbackRuns, Alive, procVars
<1>4. \A d \in Calls : (Unreaped(d)' => Unreaped(d)) /\ proc'[d] = proc[d]
  BY <1>3 DEF Unreaped
<1>5. MethodCallsOnce'
  BY <1>1, <1>3 DEF Core, MethodCallsOnce
<1>6. CASE PipeEof(c)
  <2> DEFINE reply == [d \in Calls |-> ResponseFor(AllBytes[d])]
  <2>1. PICK sent \in Sendable({c}) : filechooser_request_finalize({c}, AllBytes, sent)
    BY <1>6 DEF PipeEof
  <2>2. AllBytes \in [Calls -> Nat] /\ AllBytes[c] = written[c]
    BY <1>1, <1>2 DEF AllBytes, Core, RequestsServed, Served
  <2>3. reply \in [Calls -> Replies] /\ reply[c].uris <= written[c]
    BY <1>1, <2>2, ReplyTypes, Constants DEF ResponseFor
  <2>4. replies' = WithReplies(sent, reply) /\ filechooser_request_cleanup({c})
    BY <2>1 DEF filechooser_request_finalize
  <2>5. sent \in SUBSET {c} /\ {} \in SUBSET {c} /\ sent \cap {} = {} /\ closed' = closed \cup {}
    BY <1>3, SendableSubset
  <2> HIDE DEF reply
  <2>6. \A d \in {c} : reply[d].uris <= written[d]
    BY <2>3
  <2> QED
    BY <1>2, <1>3, <1>4, <1>5, <2>3, <2>4, <2>5, <2>6, EndStep
<1>7. CASE PipeError(c)
  <2>1. PICK sent \in Sendable({c}) : replies' = WithReplies(sent, Ended)
    BY <1>7 DEF PipeError
  <2>2. filechooser_request_cleanup({c})
    BY <1>7 DEF PipeError
  <2>3. sent \in SUBSET {c} /\ {} \in SUBSET {c} /\ sent \cap {} = {} /\ closed' = closed \cup {}
    BY <1>3, SendableSubset
  <2>4. \A d \in {c} : Ended[d].uris <= written[d]
    BY <1>1, Constants DEF Ended
  <2> QED
    BY <1>2, <1>3, <1>4, <1>5, <2>1, <2>2, <2>3, <2>4, ReplyTypes, EndStep
<1> QED
  BY <1>6, <1>7

(* A child that has been waited for takes its own request along and no     *)
(* other: all others have pickers with other process ids.                  *)
LEMMA ReapSafe ==
  ASSUME IInv, NEW z \in Calls, ReapChild(z)
  PROVE  Core'
<1> DEFINE reply == [d \in Calls |-> ResponseFor(buffer[d])]
<1>1. /\ Core /\ requests \subseteq Calls
      /\ buffer \in [Calls -> Nat] /\ pipe \in [Calls -> Nat]
      /\ written \in [Calls -> 0..MaxLines]
      /\ proc \in [Calls -> ProcStates]
  BY DEF IInv, Core, TypeOK, PortalTypeOK, PickerTypeOK
<1>2. RequestsOf(z) \in SUBSET requests /\ RequestsOf(z) \subseteq {z}
  <2>1. \A r \in requests : Unreaped(r)
    BY <1>1 DEF Core, RequestsServed, Served
  <2>2. Unreaped(z)
    BY DEF ReapChild, Unreaped
  <2> QED
    BY <1>1, <2>1, <2>2 DEF Core, PidsDistinct, RequestsOf
<1>3. /\ UNCHANGED <<phase, pid, written, handler, inbox, closed>>
      /\ proc' = [proc EXCEPT ![z] = "reaped"]
      /\ handler = "reap" /\ Unreaped(z)
      /\ Alive' <=> Alive
  BY DEF ReapChild, Unreaped, Alive
<1>4. z \notin requests \ RequestsOf(z) /\ handler # z
  BY <1>3, Constants DEF RequestsOf
<1>5. /\ \A d \in Calls : Unreaped(d)' => Unreaped(d)
      /\ \A d \in Calls : proc'[d] = proc[d]
            \/ (Unreaped(d) /\ d \notin requests \ RequestsOf(z) /\ d # handler)
  BY <1>1, <1>3, <1>4 DEF Unreaped
<1>6. MethodCallsOnce'
  BY <1>1, <1>3 DEF Core, MethodCallsOnce
<1>7. PICK sent \in Sendable(RequestsOf(z)) :
        filechooser_request_finalize(RequestsOf(z), buffer, sent)
  BY DEF ReapChild
<1>8. replies' = WithReplies(sent, reply) /\ filechooser_request_cleanup(RequestsOf(z))
  BY <1>7 DEF filechooser_request_finalize
<1>9. reply \in [Calls -> Replies]
  BY <1>1, ReplyTypes
<1>10. \A d \in RequestsOf(z) : reply[d].uris <= written[d]
  BY <1>1, <1>2, Constants DEF Core, RequestsServed, Served, ResponseFor
<1>11. /\ sent \in SUBSET RequestsOf(z) /\ {} \in SUBSET RequestsOf(z)
       /\ sent \cap {} = {} /\ closed' = closed \cup {}
  BY <1>3, SendableSubset
<1> HIDE DEF reply
<1> QED
  BY <1>2, <1>3, <1>5, <1>6, <1>8, <1>9, <1>10, <1>11, EndStep

(* Entering and leaving a signal handler, and a callback that was freed.   *)
LEMMA OtherCallbackSafe ==
  ASSUME IInv,
         \/ sigint_sigterm_handler \/ sigchld_handler \/ ReapDone
         \/ \E c \in Calls : StaleDispatch(c) /\ ~DaemonGone("crashed")
  PROVE  Core'
<1>1. MethodCallsOnce' /\ Alive
  BY Constants DEF IInv, TypeOK, MethodCallsOnce, sigint_sigterm_handler, sigchld_handler,
     ReapDone, StaleDispatch, Dispatching, Alive, busVars
<1>2. Alive'
  BY ReturnAlive DEF sigint_sigterm_handler, sigchld_handler, ReapDone, StaleDispatch,
     CallbackContinues, Alive
<1>3. UNCHANGED <<callbacks, phase, replies, requests, buffer, closed, proc, pid, written,
                  pipe>>
  BY DEF sigint_sigterm_handler, sigchld_handler, ReapDone, StaleDispatch, pickerVars,
         procVars, pipeVars, busVars, requestVars
<1>4. handler' = handler \/ {handler, handler'} \subseteq {"none", "reap"}
  BY DEF sigint_sigterm_handler, sigchld_handler, ReapDone, StaleDispatch, Dispatching,
         IInv, TypeOK
<1> QED
  BY <1>1, <1>2, <1>3, <1>4, QuietStep

-----------------------------------------------------------------------------
(* The environment and the pickers *)

(* A client makes its call: the message is the only one of its kind. *)
LEMMA ClientCallSafe ==
  ASSUME IInv, NEW c \in Calls, ClientCall(c)
  PROVE  Core'
<1>1. /\ Core /\ PortalTypeOK
      /\ phase \in [Calls -> {"new", "sent", "handled"}]
  BY DEF IInv, Core, TypeOK, PortalTypeOK
<1>2. MethodCallsOnce'
  BY <1>1, NewMessage DEF ClientCall, Core
<1>3. /\ UNCHANGED <<callbacks, replies, requests, buffer, closed, proc, pid, written,
                     pipe, handler, mode>>
      /\ phase[c] = "new" /\ phase' = [phase EXCEPT ![c] = "sent"]
  BY DEF ClientCall, pickerVars, procVars, pipeVars, requestVars
<1>4. CallbackDataLive' /\ PidsDistinct' /\ RepliesBounded'
  BY <1>1, <1>3 DEF Core, CallbackDataLive, PidsDistinct, Unreaped, RepliesBounded
<1>5. UntouchedUntilHandled'
  BY <1>1, <1>3 DEF Core, UntouchedUntilHandled, Untouched
<1>6. RequestsServed'
  BY <1>1, <1>3 DEF Core, RequestsServed, Served, Unreaped, Alive
<1> QED
  BY <1>2, <1>4, <1>5, <1>6 DEF Core

(* Other messages and signals arrive, or the connection breaks. *)
LEMMA ArrivalSafe ==
  ASSUME IInv, \/ \E c \in Calls : ClientClose(c)
               \/ LoseName \/ LoseBus \/ SendTerm
  PROVE  Core'
<1>1. PortalTypeOK /\ MethodCallsOnce
  BY DEF IInv, TypeOK
<1>2. UNCHANGED <<callbacks, phase, replies, requests, buffer, closed, proc, pid, written,
                  pipe, handler, mode>>
  BY DEF ClientClose, LoseName, LoseBus, SendTerm, pickerVars, procVars, pipeVars,
         busVars, requestVars
<1>3. MethodCallsOnce'
  <2>1. ASSUME NEW c \in Calls, ClientClose(c) PROVE MethodCallsOnce'
    BY <1>1, <1>2, <2>1, OpenDiffers, OtherMessage DEF ClientClose
  <2>2. CASE LoseName
    BY <1>1, <1>2, <2>2, OpenDiffers, OtherMessage DEF LoseName
  <2>3. CASE LoseBus
    BY <1>1, <1>2, <2>3 DEF LoseBus, MethodCallsOnce
  <2>4. CASE SendTerm
    BY <1>1, <2>4 DEF SendTerm, MethodCallsOnce, busVars
  <2> QED
    BY <2>1, <2>2, <2>3, <2>4
<1>4. Alive' <=> Alive
  BY <1>2 DEF Alive
<1> QED
  BY <1>2, <1>3, <1>4, QuietStep

(* A picker writes: the pipe holds one selection more, as does the count.  *)
LEMMA WriteSafe ==
  ASSUME IInv, NEW c \in Calls, Write(c)
  PROVE  Core'
<1>1. /\ Core /\ requests \subseteq Calls
      /\ buffer \in [Calls -> Nat] /\ pipe \in [Calls -> Nat]
      /\ written \in [Calls -> 0..MaxLines]
      /\ replies \in [Calls -> Seq(Replies)]
  BY DEF IInv, Core, TypeOK, PortalTypeOK, PickerTypeOK
<1>2. /\ UNCHANGED <<callbacks, phase, replies, requests, buffer, closed, proc, pid,
                     handler, mode, inbox>>
      /\ written' = [written EXCEPT ![c] = @ + 1]
      /\ pipe' = [pipe EXCEPT ![c] = @ + 1]
      /\ proc[c] = "running"
  BY DEF Write, PickerWrite, loopUnchanged, appUnchanged, procVars, busVars, requestVars
<1>3. CallbackDataLive' /\ MethodCallsOnce' /\ PidsDistinct'
  BY <1>1, <1>2 DEF Core, CallbackDataLive, MethodCallsOnce, PidsDistinct, Unreaped
<1>4. UntouchedUntilHandled'
  BY <1>1, <1>2 DEF Core, UntouchedUntilHandled, Untouched
<1>5. RequestsServed'
  <2>1. ASSUME NEW d \in Calls, d \in requests' \/ handler' = d PROVE Served(d)'
    <3>1. Served(d)
      BY <1>1, <1>2, <2>1 DEF Core, RequestsServed
    <3>2. buffer[d] \in Nat /\ pipe[d] \in Nat /\ written[d] \in Nat
      BY <1>1, Constants
    <3>3. \/ pipe'[d] = pipe[d] /\ written'[d] = written[d]
          \/ pipe'[d] = pipe[d] + 1 /\ written'[d] = written[d] + 1
      BY <1>1, <1>2
    <3>4. buffer'[d] + pipe'[d] = written'[d]
      BY <1>2, <3>1, <3>2, <3>3 DEF Served
    <3> QED
      BY <1>2, <3>1, <3>4 DEF Served, Unreaped
  <2> QED
    BY <1>1, <1>2, <2>1 DEF Core, RequestsServed, Alive
<1>6. RepliesBounded'
  <2>1. SUFFICES ASSUME NEW d \in Calls, NEW i \in 1..Len(replies[d])
                 PROVE  replies[d][i].uris <= written'[d]
    BY <1>1, <1>2 DEF Core, RepliesBounded
  <2>2. replies[d][i].uris \in Nat /\ replies[d][i].uris <= written[d]
    <3>1. replies[d] \in Seq(Replies) /\ replies[d][i] \in Replies
      BY <1>1
    <3> QED
      BY <1>1, <3>1 DEF Core, RepliesBounded, Replies
  <2>3. written[d] \in Nat /\ written'[d] \in {written[d], written[d] + 1}
    BY <1>1, <1>2, Constants
  <2> QED
    BY <2>2, <2>3
<1> QED
  BY <1>3, <1>4, <1>5, <1>6 DEF Core

(* A picker starts or ends.  It becomes a zombie as long as there is a     *)
(* daemon to wait for it.                                                  *)
LEMMA ChildLifeSafe ==
  ASSUME IInv, NEW c \in Calls, Start(c) \/ Exits(c) \/ DiesOfTerm(c)
  PROVE  Core'
<1>1. /\ Core /\ requests \subseteq Calls
      /\ proc \in [Calls -> ProcStates]
      /\ handler \in Calls => Alive
  BY Constants DEF IInv, Core, TypeOK, PortalTypeOK, PickerTypeOK, Alive
<1>2. /\ UNCHANGED <<callbacks, phase, replies, requests, buffer, closed, pid, written,
                     pipe, handler, mode, inbox>>
      /\ Living(c)
  BY DEF Start, ChildStart, Exits, DiesOfTerm, ChildExit, ChildTermDeath, ChildGone, Living,
         loopUnchanged, appUnchanged, pipeVars, busVars, requestVars
<1>3. PICK s \in ProcStates :
        proc' = [proc EXCEPT ![c] = s] /\ (Alive => s \in {"running", "zombie"})
                                       /\ s \in {"running", "zombie", "reaped"}
  BY DEF Start, ChildStart, Exits, DiesOfTerm, ChildExit, ChildTermDeath, ChildGone, Fate,
         ProcStates
<1>4. \A d \in Calls : (Unreaped(d)' => Unreaped(d)) /\ (Alive /\ Unreaped(d) => Unreaped(d)')
  BY <1>1, <1>2, <1>3 DEF Unreaped, Living
<1>5. CallbackDataLive' /\ MethodCallsOnce' /\ RepliesBounded'
  BY <1>1, <1>2 DEF Core, CallbackDataLive, MethodCallsOnce, RepliesBounded
<1>6. PidsDistinct'
  BY <1>1, <1>2, <1>4 DEF Core, PidsDistinct
<1>7. UntouchedUntilHandled'
  BY <1>1, <1>2, <1>3 DEF Core, UntouchedUntilHandled, Untouched, Living
<1>8. RequestsServed'
  <2>1. ~Alive => requests = {} /\ handler \notin Calls
    BY <1>1 DEF Core, RequestsServed
  <2>2. ASSUME NEW d \in Calls, d \in requests' \/ handler' = d PROVE Served(d)'
    BY <1>1, <1>2, <1>4, <2>1, <2>2 DEF Core, RequestsServed, Served
  <2> QED
    BY <1>1, <1>2, <2>2 DEF Core, RequestsServed, Alive
<1> QED
  BY <1>5, <1>6, <1>7, <1>8 DEF Core

(* A picker closes its output or resets its signal mask. *)
LEMMA ChildQuietSafe ==
  ASSUME IInv, NEW c \in Calls, CloseOutput(c) \/ UnblocksTerm(c)
  PROVE  Core'
<1>1. UNCHANGED <<callbacks, phase, replies, requests, buffer, closed, proc, pid, written,
                  pipe, handler, mode, inbox>>
  BY DEF CloseOutput, PickerCloseOutput, UnblocksTerm, PickerUnblocksTerm, loopUnchanged,
         appUnchanged, procVars, pipeVars, busVars, requestVars
<1>2. MethodCallsOnce' /\ (Alive' <=> Alive)
  BY <1>1 DEF IInv, MethodCallsOnce, Alive
<1> QED
  BY <1>1, <1>2, QuietStep

-----------------------------------------------------------------------------
(* The theorems *)

(* The inductive invariant holds initially and is kept by every step. *)
LEMMA InitIInv == Init => IInv
<1> SUFFICES ASSUME Init PROVE Core
  BY InitType, IInvParts
<1>1. CallbackDataLive
  BY Constants DEF Init, PollenInit, CallbackDataLive
<1>2. MethodCallsOnce /\ UntouchedUntilHandled /\ RepliesBounded
  BY Constants DEF Init, PickerInit, MethodCallsOnce, UntouchedUntilHandled, Untouched,
                   RepliesBounded
<1>3. RequestsServed /\ PidsDistinct
  BY Constants DEF Init, PickerInit, RequestsServed, PidsDistinct, Unreaped
<1> QED
  BY <1>1, <1>2, <1>3 DEF Core

LEMMA NextIInv ==
  ASSUME IInv, [Next]_vars
  PROVE  IInv'
<1>1. TypeOK'
  BY NextType DEF IInv
<1>2. CASE Epoll
  <2>1. UNCHANGED <<callbacks, phase, replies, requests, buffer, closed, proc, pid, written,
                    pipe, handler, inbox>>
    BY <1>2 DEF Epoll, EpollDrop, EpollWait, pickerVars, procVars, pipeVars, busVars,
                requestVars
  <2>2. MethodCallsOnce' /\ (Alive' <=> Alive)
    BY <1>2, <2>1 DEF IInv, MethodCallsOnce, Alive, Epoll, EpollDrop, EpollWait
  <2>3. Core'
    BY <2>1, <2>2, QuietStep
  <2> QED
    BY <1>1, <2>3 DEF IInv, Core
<1>3. CASE Daemon /\ ~Epoll
  <2>1. ASSUME NEW c \in Calls, MethodCall(c) PROVE Core'
    BY <2>1, MethodCallFailsSafe, MethodCallForksSafe, MethodCallEndsSafe DEF MethodCall
  <2>2. ASSUME NEW c \in Calls, method_close(c) \/ CloseUnknownObject(c) PROVE Core'
    BY <2>2, CloseSafe, OtherBusSafe
  <2>3. ASSUME BusConnectionLost \/ handle_name_lost PROVE Core'
    BY <2>3, OtherBusSafe
  <2>4. ASSUME NEW c \in Calls, request_fd_event_handler(c) PROVE Core'
    BY <2>4, DrainedSafe, PipeEndSafe DEF request_fd_event_handler
  <2>5. ASSUME NEW c \in Calls, StaleDispatch(c) PROVE Core'
    BY <2>5, OtherCallbackSafe, GoneStep
  <2>6. ASSUME sigint_sigterm_handler \/ sigchld_handler \/ ReapDone PROVE Core'
    BY <2>6, OtherCallbackSafe
  <2>7. ASSUME NEW c \in Calls, ReapChild(c) PROVE Core'
    BY <2>7, ReapSafe
  <2>8. ASSUME Exit PROVE Core'
    BY <2>8, GoneStep DEF Exit
  <2>9. Core'
    BY <1>3, <2>1, <2>2, <2>3, <2>4, <2>5, <2>6, <2>7, <2>8 DEF Daemon
  <2> QED
    BY <1>1, <2>9 DEF IInv, Core
<1>4. CASE World
  <2>1. ASSUME NEW c \in Calls, Child(c) PROVE Core'
    BY <2>1, WriteSafe, ChildLifeSafe, ChildQuietSafe DEF Child
  <2>2. Core'
    BY <1>4, <2>1, ClientCallSafe, ArrivalSafe DEF World
  <2> QED
    BY <1>1, <2>2 DEF IInv, Core
<1>5. CASE UNCHANGED vars
  <2>1. UNCHANGED <<callbacks, phase, replies, requests, buffer, closed, proc, pid, written,
                    pipe, handler, inbox, mode>>
    BY <1>5 DEF vars, pollenVars, pickerVars, procVars, pipeVars, busVars, requestVars
  <2>2. MethodCallsOnce' /\ (Alive' <=> Alive)
    BY <2>1 DEF IInv, MethodCallsOnce, Alive
  <2>3. Core'
    BY <2>1, <2>2, QuietStep
  <2> QED
    BY <1>1, <2>3 DEF IInv, Core
<1> QED
  BY <1>2, <1>3, <1>4, <1>5 DEF Next, Quiescent

(* The inductive invariant holds in every behaviour. *)
THEOREM Invariance == Spec => []IInv
<1>1. Init => IInv
  BY InitIInv
<1>2. IInv /\ [Next]_vars => IInv'
  BY NextIInv
<1> QED
  BY <1>1, <1>2, PTL DEF Spec

(* However end of file, the death of the picker, Close and failures race,  *)
(* a client gets at most one reply to a call, and none after a Close.      *)
THEOREM OneReply == Spec => []AtMostOneReply
<1>1. ASSUME IInv, NEW c \in Calls
      PROVE  Len(replies[c]) <= IF c \in closed THEN 0 ELSE 1
  <2>1. CASE replies[c] = <<>>
    <3>1. Len(replies[c]) = 0
      BY <2>1
    <3> QED
      BY <3>1
  <2>2. CASE replies[c] # <<>>
    <3>1. c \notin closed /\ Len(replies[c]) = 1
      BY <1>1, <2>2 DEF IInv, RepliesBounded
    <3> QED
      BY <3>1
  <2> QED
    BY <2>1, <2>2
<1>2. IInv => AtMostOneReply
  BY <1>1 DEF AtMostOneReply
<1> QED
  BY <1>2, Invariance, PTL

(* A request never holds the process id of another picker, however process *)
(* ids are reused.                                                         *)
THEOREM OwnPicker == Spec => []PickerPidIsOwn
<1>1. IInv => PickerPidIsOwn
  BY DEF IInv, TypeOK, PortalTypeOK, RequestsServed, Served, PidsDistinct, PickerPidIsOwn
<1> QED
  BY <1>1, Invariance, PTL

(* What a picker has written is neither lost nor counted twice while its   *)
(* request lives, and no reply names more than that.                       *)
THEOREM Conserved == Spec => []SelectionConserved
<1>1. IInv => SelectionConserved
  BY DEF IInv, TypeOK, PortalTypeOK, RequestsServed, Served, RepliesBounded, SelectionConserved
<1> QED
  BY <1>1, Invariance, PTL

(* No registered pipe callback outlives its request. *)
THEOREM LiveCallbackData == Spec => []CallbackDataLive
<1>1. IInv => CallbackDataLive
  BY DEF IInv
<1> QED
  BY <1>1, Invariance, PTL

-----------------------------------------------------------------------------
(* What a step may never do *)

(* Only method_close sends signals. *)
LEMMA OnlyCloseSignals ==
  ASSUME [Next]_vars, \A r \in Calls : ~method_close(r)
  PROVE  termPending' = termPending
<1> USE DEF pickerVars, procVars
<1>1. CASE Daemon
  <2>1. CASE \E c \in Calls : MethodCall(c)
    BY <2>1 DEF MethodCall, MethodCallFails, MethodCallForks, exec_picker,
                MethodCallVtableFails, MethodCallRegisters
  <2>2. CASE \E c \in Calls : request_fd_event_handler(c) \/ StaleDispatch(c)
    BY <2>2 DEF request_fd_event_handler, PipeDrained, PipeEof, PipeError, StaleDispatch,
                DaemonGone
  <2>3. CASE Epoll \/ BusConnectionLost \/ handle_name_lost
             \/ \E c \in Calls : CloseUnknownObject(c)
    BY <2>3 DEF Epoll, BusConnectionLost, handle_name_lost, CloseUnknownObject
  <2>4. CASE sigint_sigterm_handler \/ sigchld_handler \/ ReapDone \/ Exit
             \/ \E c \in Calls : ReapChild(c)
    BY <2>4 DEF sigint_sigterm_handler, sigchld_handler, ReapDone, Exit, DaemonGone, ReapChild
  <2> QED
    BY <1>1, <2>1, <2>2, <2>3, <2>4 DEF Daemon
<1>2. CASE \E c \in Calls : Child(c)
  BY <1>2 DEF Child, Start, ChildStart, Write, PickerWrite, CloseOutput, PickerCloseOutput,
              UnblocksTerm, PickerUnblocksTerm, Exits, ChildExit, DiesOfTerm,
              ChildTermDeath, ChildGone
<1>3. CASE World /\ ~\E c \in Calls : Child(c)
  BY <1>3 DEF World, ClientCall, ClientClose, LoseName, LoseBus, SendTerm
<1>4. CASE UNCHANGED vars
  BY <1>4 DEF vars
<1> QED
  BY <1>1, <1>2, <1>3, <1>4 DEF Next, Quiescent

(* SIGTERM only goes to the picker of the request that is being closed. *)
THEOREM OwnPickerSignalled == Spec => TermOnlyToOwnPicker
<1> DEFINE Own == \A c \in Calls :
             ~termPending[c] /\ termPending'[c] =>
               /\ c \in requests
               /\ \E d \in Calls : HandleOf[d] = HandleOf[c] /\ Head(inbox) = Close(d)
<1>1. ASSUME IInv, [Next]_vars PROVE Own
  <2>1. ASSUME NEW r \in Calls, method_close(r) PROVE Own
    <3>1. /\ r \in requests /\ termPending' = TermAfterKill(pid[r])
          /\ \E d \in Calls : HandleOf[d] = HandleOf[r] /\ Head(inbox) = Close(d)
      BY <2>1 DEF method_close, MessageIs
    <3>2. Unreaped(r)
      BY <1>1, <3>1 DEF IInv, RequestsServed, Served
    <3>3. \A c \in Calls : ~termPending[c] /\ termPending'[c] => Living(c) /\ pid[c] = pid[r]
      BY <3>1 DEF TermAfterKill
    <3>4. \A c \in Calls : ~termPending[c] /\ termPending'[c] => c = r
      BY <1>1, <3>2, <3>3 DEF IInv, PidsDistinct, Living, Unreaped
    <3> QED
      BY <3>1, <3>4
  <2>2. CASE \A r \in Calls : ~method_close(r)
    BY <1>1, <2>2, OnlyCloseSignals
  <2> QED
    BY <2>1, <2>2
<1>2. ASSUME IInv, [Next]_vars PROVE [Own]_vars
  BY <1>1, <1>2
<1> QED
  BY <1>2, Invariance, PTL DEF Spec, TermOnlyToOwnPicker

(* A reply brought about by end of file names everything that was written. *)
THEOREM EofComplete == Spec => EofDeliversEverything
<1> DEFINE Whole == \A c \in Calls :
             RequestCallbackRuns(c) /\ replies'[c] # replies[c] =>
               replies'[c] \in {<<ResponseFor(written[c])>>, <<Ended[c]>>}
<1>1. ASSUME IInv, [Next]_vars, NEW c \in Calls, RequestCallbackRuns(c),
             replies'[c] # replies[c]
      PROVE  replies'[c] \in {<<ResponseFor(written[c])>>, <<Ended[c]>>}
  <2>1. /\ mode = "dispatch" /\ Head(events) \in Calls /\ c \in requests
        /\ buffer[c] + pipe[c] = written[c] /\ replies[c] = <<>>
    BY <1>1 DEF RequestCallbackRuns, IInv, CallbackDataLive, RequestsServed, Served
  <2>2. ASSUME NEW d \in Calls, PipeEof(d)
        PROVE  replies'[c] = <<ResponseFor(written[c])>>
    <3>1. PICK sent \in Sendable({d}) :
            replies' = WithReplies(sent, [e \in Calls |-> ResponseFor(AllBytes[e])])
      BY <2>2 DEF PipeEof, filechooser_request_finalize
    <3>2. c \in sent
      BY <1>1, <3>1 DEF WithReplies
    <3>3. replies'[c] = Append(<<>>, ResponseFor(AllBytes[c]))
      BY <2>1, <3>1, <3>2 DEF WithReplies
    <3> QED
      BY <2>1, <3>3, FirstReply DEF AllBytes
  <2>3. ASSUME NEW d \in Calls, PipeError(d)
        PROVE  replies'[c] = <<Ended[c]>>
    <3>1. PICK sent \in Sendable({d}) : replies' = WithReplies(sent, Ended)
      BY <2>3 DEF PipeError
    <3>2. replies'[c] = Append(<<>>, Ended[c])
      BY <1>1, <2>1, <3>1 DEF WithReplies
    <3> QED
      BY <3>2, FirstReply
  <2>4. mode # "handler" /\ handler = "none" /\ Head(events) # BusFd
    BY <1>1, <2>1, Constants DEF IInv, TypeOK
  <2>5. CASE Daemon /\ \A d \in Calls : ~PipeEof(d) /\ ~PipeError(d)
    <3>1. replies' = replies
      BY <2>4, <2>5, Constants
         DEF Daemon, Epoll, BusConnectionLost, MethodCall, MethodCallFails, MethodCallForks,
             MethodCallVtableFails, MethodCallRegisters, method_close, CloseUnknownObject,
             handle_name_lost, request_fd_event_handler, PipeDrained, StaleDispatch,
             sigint_sigterm_handler, sigchld_handler, ReapChild, ReapDone, Exit, DaemonGone,
             MessageIs, Dispatching, busVars
    <3> QED
      BY <1>1, <3>1
  <2>6. CASE World \/ UNCHANGED vars
    <3>1. replies' = replies
      BY <2>6 DEF World, ClientCall, ClientClose, LoseName, LoseBus, SendTerm, Child, Start,
         Write, CloseOutput, UnblocksTerm, Exits, DiesOfTerm, appUnchanged, vars, busVars
    <3> QED
      BY <1>1, <3>1
  <2> QED
    BY <1>1, <2>2, <2>3, <2>5, <2>6 DEF Next, Quiescent
<1>2. ASSUME IInv, [Next]_vars PROVE [Whole]_vars
  BY <1>1, <1>2
<1> QED
  BY <1>2, Invariance, PTL DEF Spec, EofDeliversEverything
=============================================================================
