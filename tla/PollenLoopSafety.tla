-------------------------- MODULE PollenLoopSafety --------------------------
(***************************************************************************)
(* Proofs about the event loop as a library, for any number of             *)
(* descriptors, timers, signals, idle callbacks and calls: the masks of    *)
(* its signals agree whatever fails, no signal is read that has no         *)
(* callback, none disappears, and the idle callbacks of an iteration run   *)
(* in the order of their priorities, each at most once.                    *)
(***************************************************************************)
EXTENDS PollenLoopProperties, SequenceTheorems, TLAPS

(* The standing assumptions on the constants, as one fact. *)
LEMMA Constants ==
  /\ MaxEvents \in Nat \ {0}
  /\ PriorityOf \in [Idles -> Int]
  /\ None \notin Idles /\ Freed \notin Idles
  /\ Idles \cap (Fds \cup Timers \cup Sigs) = {}
BY MaxEventsAssumption, PollenLoopAssumption

-----------------------------------------------------------------------------
(* The signals *)

LEMMA SignalsInit == Init => SignalInv
BY DEF Init, SignalInv, Consistent, NotAdding

(* Most steps leave the signals alone, and one that interrupts a call to   *)
(* the library finds none in progress.                                     *)
LEMMA SignalsFrame ==
  ASSUME SignalInv, UNCHANGED signalVars,
         mode' = mode \/ (mode # "killed" /\ adding = NotAdding)
  PROVE  SignalInv'
BY DEF SignalInv, signalVars, Consistent, CanUndo

(* A call is only in progress where the program runs. *)
LEMMA NotAddingElsewhere ==
  ASSUME SignalInv, mode \in LoopModes \ {"killed", "setup", "handler"}
  PROVE  mode # "killed" /\ adding = NotAdding
BY DEF SignalInv

(* Nothing stays pending that sigprocmask unblocks, unless it kills. *)
LEMMA UnblockedAreTaken ==
  ASSUME NEW mask, NEW next, SetsMask(mask, next), mode' # "killed"
  PROVE  pending' \subseteq mask
BY DEF SetsMask

LEMMA SignalCallsKeepSignals ==
  ASSUME SignalInv, NEW s \in Sigs, AddSignalBegins(s) \/ RemoveSignal(s)
  PROVE  SignalInv'
<1>1. mode # "killed" /\ adding = NotAdding
  BY DEF AddSignalBegins, RemoveSignal, LibraryCall
<1>2. Consistent(handlers, sigset, blocked) /\ pending \subseteq blocked
  BY <1>1 DEF SignalInv
<1>3. CASE AddSignalBegins(s)
  <2>1. /\ adding'.sig = s /\ adding'.step = "blocked"
        /\ adding'.mask = blocked /\ adding'.set = sigset
        /\ blocked' = blocked \cup {s} /\ sigset' = sigset \cup {s}
        /\ mode' = mode /\ mode \in {"setup", "handler"}
        /\ UNCHANGED <<handlers, watched, inherited, pending>>
    BY <1>3 DEF AddSignalBegins, LibraryCall, loopUnchanged
  <2>2. adding' # NotAdding
    BY <2>1 DEF NotAdding
  <2>3. CanUndo'
    BY <1>2, <2>1 DEF CanUndo, Consistent
  <2> QED BY <1>2, <2>1, <2>2, <2>3 DEF SignalInv
<1>4. CASE RemoveSignal(s)
  <2>1. /\ sigset' = sigset \ {s} /\ handlers' = handlers \ {s} /\ blocked' = blocked \ {s}
        /\ watched' = sigset' \/ watched' = watched
        /\ mode' \in {mode, "killed"}
        /\ UNCHANGED <<inherited, adding>>
    BY <1>4 DEF RemoveSignal, SetsMask
  <2>2. Consistent(handlers, sigset, blocked)'
    BY <1>2, <2>1 DEF Consistent
  <2>3. mode' # "killed" => pending' \subseteq blocked'
    BY <1>4, <2>1, UnblockedAreTaken DEF RemoveSignal
  <2> QED BY <1>1, <1>2, <2>1, <2>2, <2>3 DEF SignalInv, NotAdding
<1> QED BY <1>3, <1>4

(* What the error path goes back to is consistent, and nothing stays       *)
(* pending that it unblocks, or the process is killed.                     *)
LEMMA UndoKeepsSignals ==
  ASSUME SignalInv, mode # "killed", adding # NotAdding,
         handlers' = handlers \ (IF adding.step = "installed" THEN {adding.sig} ELSE {}),
         RestoresMasks(adding.mask, adding.set), UNCHANGED <<watched, inherited>>
  PROVE  SignalInv'
<1>1. CanUndo
  BY DEF SignalInv
<1>2. /\ blocked' = adding.mask /\ sigset' = adding.set /\ adding' = NotAdding
      /\ mode' \in {mode, "killed"}
      /\ mode' # "killed" => pending' \subseteq adding.mask
  BY UnblockedAreTaken DEF RestoresMasks, SetsMask
<1>3. Consistent(handlers, sigset, blocked)'
  BY <1>1, <1>2 DEF CanUndo, Consistent
<1> QED BY <1>2, <1>3 DEF SignalInv, NotAdding

LEMMA AddSignalKeepsSignals ==
  ASSUME SignalInv,
         AddSignalExists \/ AddSignalInstalls \/ AddSignalFails \/ AddSignalReturns
  PROVE  SignalInv'
<1>1. mode # "killed" /\ adding # NotAdding
  BY DEF AddSignalExists, AddSignalInstalls, AddSignalFails, AddSignalReturns, AddingAt, Ended,
         NotAdding
<1>2. /\ CanUndo /\ pending \subseteq blocked /\ mode \in {"setup", "handler"}
  BY <1>1 DEF SignalInv
<1>3. CASE AddSignalExists
  BY <1>1, <1>3, UndoKeepsSignals DEF AddSignalExists, AddingAt, callUnchanged
<1>4. CASE AddSignalInstalls
  <2>1. /\ adding.step = "blocked" /\ adding.sig \notin handlers
        /\ handlers' = handlers \cup {adding.sig}
        /\ adding' = [adding EXCEPT !.step = "installed"]
        /\ UNCHANGED <<mode, sigset, watched, blocked, pending, inherited>>
    BY <1>4 DEF AddSignalInstalls, AddingAt, callUnchanged
  <2>2. adding'.step = "installed" /\ adding'.sig = adding.sig
        /\ adding'.mask = adding.mask /\ adding'.set = adding.set
    BY <2>1
  <2>3. adding' # NotAdding
    BY <2>2 DEF NotAdding
  <2>4. Consistent(handlers, adding.set, adding.mask)
    BY <1>2, <2>1 DEF CanUndo
  <2>5. handlers' \ {adding.sig} = handlers
    BY <2>1
  <2>6. CanUndo'
    BY <1>2, <2>1, <2>2, <2>4, <2>5 DEF CanUndo, Consistent
  <2> QED BY <1>2, <2>1, <2>2, <2>3, <2>6 DEF SignalInv
<1>5. CASE AddSignalFails
  BY <1>1, <1>5, UndoKeepsSignals DEF AddSignalFails, AddingAt, callUnchanged
<1>6. CASE AddSignalReturns
  <2>1. /\ adding.step = "installed"
        /\ watched' = sigset /\ adding' = NotAdding
        /\ UNCHANGED <<mode, handlers, sigset, blocked, pending, inherited>>
    BY <1>6 DEF AddSignalReturns, AddingAt, callUnchanged
  <2>2. adding.sig \in handlers
    BY <1>1, <2>1 DEF SignalInv
  <2>3. Consistent(handlers, sigset, blocked)'
    BY <1>2, <2>1, <2>2 DEF CanUndo, Consistent
  <2> QED BY <1>1, <1>2, <2>1, <2>3 DEF SignalInv, NotAdding
<1> QED BY <1>3, <1>4, <1>5, <1>6

(* The end of the loop and what arrives for it. *)
LEMMA CleanupKeepsSignals ==
  ASSUME SignalInv, pollen_loop_cleanup
  PROVE  SignalInv'
<1>1. mode # "killed" /\ adding = NotAdding
  BY NotAddingElsewhere DEF pollen_loop_cleanup, LoopModes
<1>2. Consistent(handlers, sigset, blocked) /\ pending \subseteq blocked
  BY <1>1 DEF SignalInv
<1>3. Consistent(handlers, sigset, blocked)'
  BY <1>2 DEF pollen_loop_cleanup, SetsMask, Consistent
<1>4. mode' # "killed" => pending' \subseteq blocked'
  BY UnblockedAreTaken DEF pollen_loop_cleanup, SetsMask
<1> QED BY <1>1, <1>2, <1>3, <1>4 DEF SignalInv, pollen_loop_cleanup, NotAdding

LEMMA ArrivalKeepsSignals ==
  ASSUME SignalInv, NEW s \in Sigs, SignalArrives(s)
  PROVE  SignalInv'
<1>1. mode # "killed" /\ UNCHANGED <<handlers, sigset, watched, blocked, inherited, adding>>
  BY DEF SignalArrives, Ended
<1>2. CASE s \in blocked
  <2>1. mode' = mode /\ pending' = pending \cup {s}
    BY <1>2 DEF SignalArrives
  <2> QED BY <1>1, <1>2, <2>1 DEF SignalInv, Consistent, CanUndo
<1>3. CASE s \notin blocked
  BY <1>3 DEF SignalArrives, SignalInv
<1> QED BY <1>2, <1>3

LEMMA DispatchKeepsSignals ==
  ASSUME SignalInv, NEW s \in Sigs, DispatchSignal(s)
  PROVE  SignalInv'
<1>1. mode # "killed" /\ adding = NotAdding
  BY NotAddingElsewhere DEF DispatchSignal, Dispatching, LoopModes
<1>2. /\ pending' = pending \ {s}
      /\ UNCHANGED <<handlers, sigset, watched, blocked, inherited, adding>>
  BY DEF DispatchSignal
<1> QED BY <1>1, <1>2 DEF SignalInv, Consistent, NotAdding

LEMMA NextSignalInv ==
  ASSUME SignalInv, [Next]_vars
  PROVE  SignalInv'
<1>1. CASE \E s \in Fds \cup Timers : pollen_loop_add_source(s) \/ RemoveSource(s)
  <2>1. UNCHANGED signalVars /\ mode' = mode
    BY <1>1 DEF pollen_loop_add_source, RemoveSource, loopUnchanged
  <2> QED BY <2>1, SignalsFrame
<1>2. CASE \E i \in Idles : pollen_loop_add_idle(i) \/ RemoveIdle(i)
  <2>1. UNCHANGED signalVars /\ mode' = mode
    BY <1>2 DEF pollen_loop_add_idle, RemoveIdle, loopUnchanged
  <2> QED BY <2>1, SignalsFrame
<1>3. CASE \E s \in Sigs : AddSignalBegins(s) \/ RemoveSignal(s)
  BY <1>3, SignalCallsKeepSignals
<1>4. CASE \E code \in {0, 1} : pollen_loop_quit(code)
  <2>1. UNCHANGED signalVars /\ mode' = mode
    BY <1>4 DEF pollen_loop_quit
  <2> QED BY <2>1, SignalsFrame
<1>5. CASE CallbackFails
  <2>1. UNCHANGED signalVars /\ mode # "killed" /\ adding = NotAdding
    BY <1>5 DEF CallbackFails
  <2> QED BY <2>1, SignalsFrame
<1>6. CASE AddSignalExists \/ AddSignalInstalls \/ AddSignalFails \/ AddSignalReturns
  BY <1>6, AddSignalKeepsSignals
<1>7. CASE pollen_loop_run \/ CallbackReturns0 \/ IdleReturns0
  <2>1. UNCHANGED signalVars /\ mode # "killed" /\ adding = NotAdding
    BY <1>7 DEF pollen_loop_run, CallbackReturns0, IdleReturns0, EventDone
  <2> QED BY <2>1, SignalsFrame
<1>8. CASE \/ Epoll \/ EpollFails \/ DispatchIdle \/ ReadsFreed \/ NoSignalToRead
           \/ \E s \in Fds \cup Timers : DispatchSource(s)
  <2>1. mode \in {"wait", "dispatch", "idle"} /\ UNCHANGED signalVars
    BY <1>8 DEF Epoll, EpollDrop, EpollWait, EpollFails, DispatchIdle,
                ReadsFreed, NoSignalToRead, EventDone, DispatchSource, Dispatching
  <2> QED BY <2>1, NotAddingElsewhere, SignalsFrame DEF LoopModes
<1>9. CASE \E s \in Sigs : DispatchSignal(s)
  BY <1>9, DispatchKeepsSignals
<1>10. CASE pollen_loop_cleanup
  BY <1>10, CleanupKeepsSignals
<1>11. CASE \E s \in Sigs : SignalArrives(s)
  BY <1>11, ArrivalKeepsSignals
<1>12. CASE \E s \in Fds \cup Timers : InputArrives(s)
  <2>1. UNCHANGED signalVars /\ mode' = mode
    BY <1>12 DEF InputArrives
  <2> QED BY <2>1, SignalsFrame
<1>13. CASE Sleeping \/ UNCHANGED vars
  <2>1. UNCHANGED signalVars /\ mode' = mode
    BY <1>13 DEF Sleeping, vars, pollenVars, signalVars
  <2> QED BY <2>1, SignalsFrame
<1> QED
  BY <1>1, <1>2, <1>3, <1>4, <1>5, <1>6, <1>7, <1>8, <1>9, <1>10, <1>11, <1>12, <1>13
     DEF Next, Program, Loop, Failures, World

LEMMA SignalInvariance == Spec => []SignalInv
<1> QED BY SignalsInit, NextSignalInv, PTL DEF Spec

(* Between two calls the masks and the records of the signals agree,       *)
(* whatever registrations failed, were refused or were undone.             *)
THEOREM MasksAgree == Spec => []SignalsAgree
<1>1. SignalInv => SignalsAgree
  BY DEF SignalInv, SignalsAgree, Consistent
<1> QED BY <1>1, SignalInvariance, PTL

(* A signal that is read has a callback. *)
THEOREM NoOrphan == Spec => []NoOrphanSignal
<1>1. SignalInv => NoOrphanSignal
  <2> SUFFICES ASSUME SignalInv, mode = "dispatch"
               PROVE  pending \cap watched \subseteq handlers
    BY DEF NoOrphanSignal
  <2>1. adding = NotAdding
    BY NotAddingElsewhere DEF LoopModes
  <2> QED BY <2>1 DEF SignalInv, Consistent
<1> QED BY <1>1, SignalInvariance, PTL

(* A signal only disappears into its own callback, or because it is        *)
(* ignored by default and nothing waits for it any more: the error path of *)
(* pollen_loop_add_signal does not unblock what still has a callback.      *)
THEOREM NotSwallowed == Spec => SignalsNotSwallowed
<1> DEFINE Taken(s) == \/ mode' = "handler" /\ current' = s
                       \/ s \in Ignored /\ s \notin handlers' \cup blocked'
<1>1. ASSUME SignalInv, [Next]_vars, NEW s \in Sigs, s \in pending, s \notin pending'
      PROVE  Taken(s)
  <2>1. CASE \E t \in Sigs : DispatchSignal(t)
    <3>1. PICK t \in Sigs : DispatchSignal(t)
      BY <2>1
    <3>2. mode = "dispatch" /\ t \in pending \cap watched /\ pending' = pending \ {t}
      BY <3>1 DEF DispatchSignal, Dispatching
    <3>3. adding = NotAdding
      BY <1>1, <3>2, NotAddingElsewhere DEF LoopModes
    <3>4. t \in handlers
      BY <1>1, <3>2, <3>3 DEF SignalInv, Consistent
    <3>5. s = t
      BY <1>1, <3>2
    <3> QED BY <3>1, <3>4, <3>5 DEF DispatchSignal, CallbackRuns
  <2>2. CASE (\E t \in Sigs : RemoveSignal(t)) \/ pollen_loop_cleanup
    <3>1. mode # "killed" /\ adding = NotAdding
      BY <1>1, <2>2, NotAddingElsewhere DEF RemoveSignal, LibraryCall, pollen_loop_cleanup,
         LoopModes
    <3>2. handlers \subseteq blocked
      BY <1>1, <3>1 DEF SignalInv, Consistent
    <3>3. s \in Ignored /\ s \notin blocked' /\ handlers' \subseteq blocked'
      BY <1>1, <2>2, <3>2 DEF RemoveSignal, pollen_loop_cleanup, SetsMask
    <3> QED BY <3>3
  <2>3. CASE AddSignalExists \/ AddSignalFails
    <3>1. /\ mode # "killed" /\ adding # NotAdding
          /\ handlers' = handlers \ (IF adding.step = "installed" THEN {adding.sig} ELSE {})
          /\ RestoresMasks(adding.mask, adding.set)
      BY <2>3 DEF AddSignalExists, AddSignalFails, AddingAt, Ended, NotAdding
    <3>2. handlers' \subseteq adding.mask
      BY <1>1, <3>1 DEF SignalInv, CanUndo, Consistent
    <3> QED BY <1>1, <3>1, <3>2 DEF RestoresMasks, SetsMask
  <2>4. CASE UNCHANGED pending \/ \E t \in Sigs : SignalArrives(t)
    BY <1>1, <2>4 DEF SignalArrives
  <2>5. \/ UNCHANGED pending
        \/ \E t \in Sigs : DispatchSignal(t) \/ RemoveSignal(t) \/ SignalArrives(t)
        \/ pollen_loop_cleanup \/ AddSignalExists \/ AddSignalFails
    BY <1>1 DEF Next, Program, Loop, Failures, World, vars, signalVars, Sleeping,
       pollen_loop_add_source, RemoveSource, pollen_loop_add_idle, RemoveIdle, AddSignalBegins,
       pollen_loop_quit, CallbackFails, AddSignalInstalls, AddSignalReturns, pollen_loop_run,
       Epoll, EpollFails, DispatchSource, EventDone, DispatchIdle, NoSignalToRead,
       CallbackReturns0, IdleReturns0, ReadsFreed, InputArrives
  <2> QED BY <2>1, <2>2, <2>3, <2>4, <2>5
<1>2. SignalInv /\ [Next]_vars =>
        [\A s \in Sigs : s \in pending /\ s \notin pending' => Taken(s)]_vars
  BY <1>1
<1> QED BY <1>2, SignalInvariance, PTL DEF Spec, SignalsNotSwallowed

-----------------------------------------------------------------------------
(* Sequences *)

(* Queueing a source in the ready list keeps it a list of sources. *)
LEMMA WakeType ==
  ASSUME NEW S, NEW list \in Seq(S), NEW s \in S
  PROVE  Wake(list, s) \in Seq(S)
BY DEF Wake

(* What is inserted comes at its place, and what follows moves up. *)
LEMMA Insertion ==
  ASSUME NEW S, NEW list \in Seq(S), NEW m \in 1..(Len(list) + 1), NEW e \in S
  PROVE  /\ InsertAt(list, m, e) \in Seq(S)
         /\ Len(InsertAt(list, m, e)) = Len(list) + 1
         /\ \A k \in 1..(Len(list) + 1) : InsertAt(list, m, e)[k] =
              IF k < m THEN list[k] ELSE IF k = m THEN e ELSE list[k - 1]
<1> DEFINE front == SubSeq(list, 1, m - 1)
           back == SubSeq(list, m, Len(list))
           joined == (front \o <<e>>) \o back
<1>1. /\ front \in Seq(S) /\ Len(front) = m - 1
      /\ \A k \in 1..(m - 1) : front[k] = list[k]
  OBVIOUS
<1>2. /\ back \in Seq(S) /\ Len(back) = Len(list) - m + 1
      /\ \A k \in 1..(Len(list) - m + 1) : back[k] = list[m + k - 1]
  OBVIOUS
<1>3. InsertAt(list, m, e) = joined
  BY Zenon DEF InsertAt
<1> HIDE DEF front, back
<1>4. /\ front \o <<e>> \in Seq(S) /\ Len(front \o <<e>>) = m
      /\ \A k \in 1..m : (front \o <<e>>)[k] = IF k < m THEN list[k] ELSE e
  BY <1>1
<1>5. joined \in Seq(S) /\ Len(joined) = Len(list) + 1
  BY <1>2, <1>4
<1>6. ASSUME NEW k \in 1..(Len(list) + 1)
      PROVE  joined[k] = IF k < m THEN list[k] ELSE IF k = m THEN e ELSE list[k - 1]
  <2>1. CASE k <= m
    BY <1>2, <1>4, <2>1
  <2>2. CASE k > m
    <3>1. k - m \in 1..(Len(list) - m + 1) /\ m + (k - m) - 1 = k - 1
      BY <2>2
    <3>2. joined[k] = back[k - m]
      BY <1>2, <1>4, <2>2
    <3>3. back[k - m] = list[m + (k - m) - 1]
      BY <1>2, <3>1
    <3>4. joined[k] = list[k - 1]
      BY <3>1, <3>2, <3>3, Zenon
    <3> HIDE DEF joined
    <3> QED BY <2>2, <3>4
  <2>3. k <= m \/ k > m
    OBVIOUS
  <2> QED BY <2>1, <2>2, <2>3, Zenon
<1> HIDE DEF joined
<1> QED BY <1>3, <1>5, <1>6, Zenon

(* What follows the removed one moves down. *)
LEMMA Removal ==
  ASSUME NEW S, NEW list \in Seq(S), NEW n \in 1..Len(list)
  PROVE  /\ RemoveAt(list, n) \in Seq(S)
         /\ Len(RemoveAt(list, n)) = Len(list) - 1
         /\ \A k \in 1..(Len(list) - 1) : RemoveAt(list, n)[k] =
              IF k < n THEN list[k] ELSE list[k + 1]
<1> DEFINE front == SubSeq(list, 1, n - 1)
           back == SubSeq(list, n + 1, Len(list))
<1>1. /\ front \in Seq(S) /\ Len(front) = n - 1
      /\ \A k \in 1..(n - 1) : front[k] = list[k]
  OBVIOUS
<1>2. /\ back \in Seq(S) /\ Len(back) = Len(list) - n
      /\ \A k \in 1..(Len(list) - n) : back[k] = list[n + k]
  OBVIOUS
<1>3. RemoveAt(list, n) = front \o back
  BY DEF RemoveAt
<1> HIDE DEF front, back
<1>4. front \o back \in Seq(S) /\ Len(front \o back) = Len(list) - 1
  BY <1>1, <1>2
<1>5. ASSUME NEW k \in 1..(Len(list) - 1)
      PROVE  (front \o back)[k] = IF k < n THEN list[k] ELSE list[k + 1]
  <2>1. CASE k < n
    BY <1>1, <1>2, <2>1
  <2>2. CASE k >= n
    <3>1. k - (n - 1) \in 1..(Len(list) - n) /\ n + (k - (n - 1)) = k + 1
      BY <2>2
    <3>2. (front \o back)[k] = back[k - (n - 1)]
      BY <1>1, <1>2, <2>2
    <3>3. back[k - (n - 1)] = list[n + (k - (n - 1))]
      BY <1>2, <3>1
    <3>4. (front \o back)[k] = list[k + 1]
      BY <3>1, <3>2, <3>3, Zenon
    <3> QED BY <2>2, <3>4
  <2>3. k < n \/ k >= n
    OBVIOUS
  <2> QED BY <2>1, <2>2, <2>3, Zenon
<1> QED BY <1>3, <1>4, <1>5, Zenon

-----------------------------------------------------------------------------
(* Types *)

Sources == Fds \cup Timers \cup {SignalFd}

LEMMA InitTypeOK == Init => TypeOK
BY DEF Init, TypeOK, EventTypes, IdleTypes, LoopModes, Ended

(* A step that is not about idle callbacks keeps their types. *)
LEMMA IdleTypesFrame ==
  ASSUME IdleTypes, UNCHANGED idleVars, mode' = "idle" => mode = "idle"
  PROVE  IdleTypes'
BY DEF IdleTypes, idleVars

LEMMA FreedType ==
  ASSUME EventTypes, NEW s
  PROVE  /\ EventsWithout(s) \in Seq(Sources \cup {Freed})
         /\ EventsWithout(s) # <<>> <=> events # <<>>
<1>1. /\ Len(EventsWithout(s)) = Len(events) /\ Len(events) \in Nat
      /\ DOMAIN EventsWithout(s) = 1..Len(events)
      /\ \A n \in 1..Len(events) : EventsWithout(s)[n] \in Sources \cup {Freed}
  BY DEF EventTypes, EventsWithout, Sources
<1> QED BY <1>1 DEF EventTypes, EventsWithout

(* Steps that leave the callbacks, the batch and the mode alone, unless    *)
(* they kill the process.                                                  *)
LEMMA EventTypesFrame ==
  ASSUME EventTypes, UNCHANGED <<callbacks, events, current>>, mode' \in {mode, "killed"},
         \/ ready' = ready
         \/ \E s \in Sources : ready' = Wake(ready, s)
  PROVE  EventTypes'
<1>1. ready' \in Seq(Sources)
  BY WakeType DEF EventTypes, Sources
<1> QED BY <1>1 DEF EventTypes, LoopModes, Ended, Sources

LEMMA SourceCallTypes ==
  ASSUME TypeOK, NEW s \in Fds \cup Timers,
         pollen_loop_add_source(s) \/ RemoveSource(s)
  PROVE  TypeOK'
<1>1. IdleTypes'
  BY IdleTypesFrame DEF TypeOK, pollen_loop_add_source, RemoveSource, loopUnchanged
<1>2. CASE pollen_loop_add_source(s)
  <2>1. /\ callbacks' = callbacks \cup {s} /\ UNCHANGED <<mode, events, current>>
        /\ ready' \in {ready, Wake(ready, s)}
    BY <1>2 DEF pollen_loop_add_source, pollen_loop_add_fd, loopUnchanged
  <2>2. ready' \in Seq(Sources)
    BY <2>1, WakeType DEF TypeOK, EventTypes, Sources
  <2> QED BY <1>1, <2>1, <2>2 DEF TypeOK, EventTypes, Ended, Sources
<1>3. CASE RemoveSource(s)
  <2>1. /\ callbacks' = callbacks \ {s} /\ UNCHANGED <<mode, ready, current>>
        /\ events' = EventsWithout(s)
    BY <1>3 DEF RemoveSource
  <2> QED BY <1>1, <2>1, FreedType DEF TypeOK, EventTypes, Ended, Sources
<1> QED BY <1>2, <1>3

LEMMA IdleCallTypes ==
  ASSUME TypeOK, NEW i \in Idles, pollen_loop_add_idle(i) \/ RemoveIdle(i)
  PROVE  TypeOK'
<1>1. /\ UNCHANGED <<callbacks, ready, events, current, mode, ran>>
      /\ mode \in {"setup", "handler"}
  BY DEF pollen_loop_add_idle, RemoveIdle, LibraryCall, loopUnchanged
<1>2. EventTypes'
  BY <1>1, EventTypesFrame DEF TypeOK
<1>3. idles \in Seq(Idles)
  BY DEF TypeOK, IdleTypes
<1>4. idles' \in Seq(Idles)
  <2>1. CASE pollen_loop_add_idle(i)
    <3>1. PICK n \in 0..Len(idles) : idles' = InsertAt(idles, n + 1, i)
      BY <2>1 DEF pollen_loop_add_idle
    <3>2. n + 1 \in 1..(Len(idles) + 1)
      BY <1>3, <3>1
    <3> QED BY <1>3, <3>1, <3>2, Insertion, Zenon
  <2>2. CASE RemoveIdle(i)
    <3>1. PICK n \in 1..Len(idles) : idles' = RemoveAt(idles, n)
      BY <1>3, <2>2 DEF RemoveIdle
    <3> QED BY <1>3, <3>1, Removal, Zenon
  <2> QED BY <2>1, <2>2
<1>5. upcoming' \in Idles \cup {None, Freed}
  BY DEF TypeOK, IdleTypes, pollen_loop_add_idle, RemoveIdle
<1> QED BY <1>1, <1>2, <1>4, <1>5 DEF TypeOK, IdleTypes

(* The calls about signals, step by step, and a quit. *)
LEMMA SignalCallTypes ==
  ASSUME TypeOK,
         \/ \E s \in Sigs : AddSignalBegins(s) \/ RemoveSignal(s)
         \/ AddSignalExists \/ AddSignalInstalls \/ AddSignalFails \/ AddSignalReturns
         \/ \E code \in {0, 1} : pollen_loop_quit(code)
  PROVE  TypeOK'
<1>1. UNCHANGED <<callbacks, events, current, idleVars>> /\ mode' \in {mode, "killed"}
  BY DEF AddSignalBegins, RemoveSignal, AddSignalExists, AddSignalInstalls, AddSignalFails,
         AddSignalReturns, RestoresMasks, SetsMask, callUnchanged, loopUnchanged, pollen_loop_quit
<1>2. ready' = ready \/ \E s \in Sources : ready' = Wake(ready, s)
  BY DEF AddSignalBegins, RemoveSignal, AddSignalExists, AddSignalInstalls, AddSignalFails,
         AddSignalReturns, callUnchanged, pollen_loop_quit, Sources
<1> QED BY <1>1, <1>2, EventTypesFrame, IdleTypesFrame DEF TypeOK

(* The loop gives up. *)
LEMMA StopsTypes ==
  ASSUME EventTypes, NEW ret, Stops(ret)
  PROVE  EventTypes'
BY DEF EventTypes, Stops, LoopModes, Ended

LEMMA EpollTypes ==
  ASSUME TypeOK, Epoll
  PROVE  TypeOK'
<1>1. IdleTypes'
  BY IdleTypesFrame DEF TypeOK, Epoll, EpollDrop, EpollWait
<1>2. CASE EpollDrop(Level)
  <2>1. PICK i \in 1..BatchLen :
          ready' = SubSeq(ready, 1, i - 1) \o SubSeq(ready, i + 1, Len(ready))
    BY <1>2 DEF EpollDrop
  <2>2. i \in 1..Len(ready)
    BY <2>1, Constants DEF BatchLen, TypeOK, EventTypes
  <2>3. /\ SubSeq(ready, 1, i - 1) \in Seq(Sources)
        /\ SubSeq(ready, i + 1, Len(ready)) \in Seq(Sources)
    BY <2>2 DEF TypeOK, EventTypes, Sources
  <2>4. ready' \in Seq(Sources)
    BY <2>1, <2>3
  <2>5. UNCHANGED <<mode, callbacks, events, current>>
    BY <1>2 DEF EpollDrop, Epoll
  <2> QED BY <1>1, <2>4, <2>5 DEF TypeOK, EventTypes, Ended, Sources
<1>3. CASE EpollWait(Level)
  <2>1. ready \in Seq(Sources) /\ Len(ready) \in Nat \ {0}
    BY <1>3 DEF EpollWait, TypeOK, EventTypes, Sources
  <2>2. BatchLen \in 1..Len(ready)
    BY <2>1, Constants DEF BatchLen
  <2>3. /\ SubSeq(ready, 1, BatchLen) \in Seq(Sources)
        /\ Len(SubSeq(ready, 1, BatchLen)) = BatchLen
        /\ SubSeq(ready, BatchLen + 1, Len(ready)) \in Seq(Sources)
    BY <2>1, <2>2
  <2>4. events' \in Seq(Sources) /\ Len(events') \in Nat \ {0}
    BY <1>3, <2>2, <2>3 DEF EpollWait
  <2>5. events' # <<>> /\ events' \in Seq(Sources \cup {Freed})
    BY <2>4, SeqMonotonic
  <2>6. ready' \in Seq(Sources)
    BY <1>3, <2>3 DEF EpollWait
  <2>7. mode' = "dispatch" /\ UNCHANGED <<callbacks, current>>
    BY <1>3 DEF EpollWait, Epoll
  <2> QED BY <1>1, <2>5, <2>6, <2>7 DEF TypeOK, EventTypes, LoopModes, Ended, Sources
<1> QED BY <1>2, <1>3 DEF Epoll

(* An event of the batch is dispatched. *)
LEMMA DispatchTypes ==
  ASSUME TypeOK,
         \/ \E s \in Fds \cup Timers : DispatchSource(s)
         \/ \E s \in Sigs : DispatchSignal(s)
  PROVE  TypeOK'
<1>1. PICK s \in Fds \cup Timers \cup Sigs :
        mode = "dispatch" /\ UNCHANGED idleVars /\ (CallbackRuns(s) \/ Stops(-1))
  BY DEF DispatchSource, DispatchSignal, Dispatching
<1>2. IdleTypes'
  BY <1>1, IdleTypesFrame DEF TypeOK, CallbackRuns, Stops
<1>3. CASE CallbackRuns(s)
  <2>1. s \notin Idles
    BY Constants
  <2> QED BY <1>1, <1>2, <1>3, <2>1 DEF TypeOK, EventTypes, CallbackRuns, LoopModes, Ended,
             Callbacks
<1>4. CASE Stops(-1)
  BY <1>2, <1>4, StopsTypes DEF TypeOK
<1> QED BY <1>1, <1>3, <1>4

(* An event is done with; after the last one, the idle callbacks are next. *)
LEMMA EventDoneTypes ==
  ASSUME TypeOK, events # <<>>, ~Ended, EventDone
  PROVE  TypeOK'
<1>1. events' \in Seq(Sources \cup {Freed})
  BY DEF EventDone, TypeOK, EventTypes, Sources
<1>2. UNCHANGED <<callbacks, ready>> /\ current' = None
  BY DEF EventDone
<1>3. CASE events' # <<>>
  <2>1. mode' = "dispatch" /\ UNCHANGED idleVars
    BY <1>3 DEF EventDone
  <2>2. IdleTypes'
    BY <2>1, IdleTypesFrame DEF TypeOK
  <2> QED BY <1>1, <1>2, <1>3, <2>1, <2>2 DEF TypeOK, EventTypes, LoopModes, Sources
<1>4. CASE events' = <<>> /\ idles = <<>>
  <2>1. /\ mode' \in {"wait", "cleanup"}
        /\ ran' = <<>> /\ UNCHANGED <<idles, upcoming>>
    BY <1>4 DEF EventDone, IterationEnds
  <2>2. IdleTypes'
    BY <2>1 DEF TypeOK, IdleTypes
  <2> QED BY <1>1, <1>2, <1>4, <2>1, <2>2 DEF TypeOK, EventTypes, LoopModes, Sources
<1>5. CASE events' = <<>> /\ idles # <<>>
  <2>1. /\ mode' = "idle" /\ upcoming' = Head(idles)
        /\ ran' = <<>> /\ UNCHANGED idles
    BY <1>5 DEF EventDone
  <2>2. Head(idles) \in Idles
    BY <1>5 DEF TypeOK, IdleTypes
  <2>3. IdleTypes'
    BY <2>1, <2>2, Constants DEF TypeOK, IdleTypes
  <2> QED BY <1>1, <1>2, <1>5, <2>1, <2>3 DEF TypeOK, EventTypes, LoopModes, Sources
<1> QED BY <1>3, <1>4, <1>5

LEMMA ReturnTypes ==
  ASSUME TypeOK, CallbackReturns0 \/ NoSignalToRead \/ IdleReturns0
  PROVE  TypeOK'
<1>1. CASE CallbackReturns0 \/ NoSignalToRead
  <2>1. events # <<>> /\ ~Ended /\ EventDone
    BY <1>1 DEF CallbackReturns0, NoSignalToRead, Dispatching, TypeOK, EventTypes, Ended
  <2> QED BY <2>1, EventDoneTypes
<1>2. CASE IdleReturns0
  <2>1. /\ mode' \in {"idle", "wait", "cleanup"} /\ (mode' = "idle" => upcoming # None)
        /\ current' = None /\ UNCHANGED <<callbacks, ready, events, idleVars>>
    BY <1>2 DEF IdleReturns0, IterationEnds
  <2>2. events = <<>>
    BY <1>2 DEF IdleReturns0, TypeOK, EventTypes, Ended
  <2> QED BY <2>1, <2>2 DEF TypeOK, EventTypes, IdleTypes, idleVars, LoopModes, Ended
<1> QED BY <1>1, <1>2

(* Every idle callback is in the list once, so that the one after it is    *)
(* well defined.                                                           *)
LEMMA NextOfIdle ==
  ASSUME idles \in Seq(Idles), ListSorted, NEW p \in DOMAIN idles
  PROVE  NextIdle(idles[p]) = IF p = Len(idles) THEN None ELSE idles[p + 1]
<1> DEFINE n == CHOOSE n \in DOMAIN idles : idles[n] = idles[p]
<1>1. n \in DOMAIN idles /\ idles[n] = idles[p]
  OBVIOUS
<1>2. DOMAIN idles \subseteq Int
  OBVIOUS
<1>3. n = p
  <2> HIDE DEF n
  <2>1. n < p \/ n = p \/ p < n
    BY <1>1, <1>2
  <2> QED BY <1>1, <2>1 DEF ListSorted
<1> QED BY <1>3, Zenon DEF NextIdle

LEMMA DispatchIdleTypes ==
  ASSUME TypeOK, IdleInv, DispatchIdle
  PROVE  TypeOK'
<1>1. upcoming \in Idles
  BY DEF DispatchIdle, TypeOK, IdleTypes
<1>2. PICK p \in DOMAIN idles : idles[p] = upcoming
  BY <1>1 DEF IdleInv, RestIsNew
<1>3. upcoming' \in Idles \cup {None}
  BY <1>2, NextOfIdle DEF DispatchIdle, TypeOK, IdleTypes, IdleInv
<1>4. ran' \in Seq(Idles) /\ UNCHANGED idles
  BY <1>1 DEF DispatchIdle, TypeOK, IdleTypes
<1>5. /\ mode' = "handler" /\ current' = upcoming
      /\ UNCHANGED <<callbacks, ready, events>> /\ events = <<>>
  BY DEF DispatchIdle, CallbackRuns, TypeOK, EventTypes, Ended
<1> QED BY <1>1, <1>3, <1>4, <1>5 DEF TypeOK, EventTypes, IdleTypes, LoopModes, Ended, Callbacks

(* The beginning, the end and what arrives meanwhile. *)
LEMMA OtherTypes ==
  ASSUME TypeOK,
         \/ CallbackFails \/ pollen_loop_run \/ EpollFails \/ ReadsFreed \/ pollen_loop_cleanup
         \/ \E s \in Sigs : SignalArrives(s)
         \/ \E s \in Fds \cup Timers : InputArrives(s)
         \/ Sleeping \/ UNCHANGED vars
  PROVE  TypeOK'
<1>1. CASE CallbackFails \/ EpollFails
  <2>1. Stops(-1) /\ UNCHANGED idleVars
    BY <1>1 DEF CallbackFails, EpollFails
  <2> QED BY <2>1, StopsTypes, IdleTypesFrame DEF TypeOK, Stops
<1>2. CASE pollen_loop_run
  BY <1>2, IdleTypesFrame DEF pollen_loop_run, TypeOK, EventTypes, LoopModes, Ended
<1>3. CASE ReadsFreed
  BY <1>3, IdleTypesFrame DEF ReadsFreed, TypeOK, EventTypes, LoopModes, Ended
<1>4. CASE pollen_loop_cleanup
  BY <1>4 DEF pollen_loop_cleanup, SetsMask, TypeOK, EventTypes, IdleTypes, LoopModes, Ended
<1>5. CASE \/ \E s \in Sigs : SignalArrives(s)
           \/ \E s \in Fds \cup Timers : InputArrives(s)
           \/ Sleeping \/ UNCHANGED vars
  <2>1. UNCHANGED <<callbacks, events, current, idleVars>> /\ mode' \in {mode, "killed"}
    BY <1>5 DEF SignalArrives, InputArrives, Sleeping, vars, pollenVars, idleVars
  <2>2. ready' = ready \/ \E s \in Sources : ready' = Wake(ready, s)
    BY <1>5 DEF SignalArrives, InputArrives, Sleeping, vars, pollenVars, Sources
  <2> QED BY <2>1, <2>2, EventTypesFrame, IdleTypesFrame DEF TypeOK
<1> QED BY <1>1, <1>2, <1>3, <1>4, <1>5

LEMMA NextTypeOK ==
  ASSUME TypeOK, IdleInv, [Next]_vars
  PROVE  TypeOK'
BY SourceCallTypes, IdleCallTypes, SignalCallTypes, EpollTypes, DispatchTypes, ReturnTypes,
   DispatchIdleTypes, OtherTypes DEF Next, Program, Loop, Failures, World

-----------------------------------------------------------------------------
(* The idle callbacks *)

LEMMA InitIdleInv == Init => IdleInv
BY Constants DEF Init, IdleInv, ListSorted, IdlesRunInOrder

(* Priorities are integers, so that they can be compared. *)
LEMMA PrioritiesAreInts ==
  ASSUME TypeOK
  PROVE  /\ \A i \in Idles : PriorityOf[i] \in Int
         /\ DOMAIN idles = 1..Len(idles) /\ Len(idles) \in Nat
         /\ \A n \in 1..Len(idles) : idles[n] \in Idles
         /\ DOMAIN ran = 1..Len(ran) /\ Len(ran) \in Nat
         /\ \A n \in 1..Len(ran) : ran[n] \in Idles
BY Constants DEF TypeOK, IdleTypes

LEMMA SortedEntries ==
  ASSUME TypeOK, IdleInv, NEW k \in 1..Len(idles), NEW l \in 1..Len(idles), k < l
  PROVE  idles[k] # idles[l] /\ PriorityOf[idles[k]] >= PriorityOf[idles[l]]
BY PrioritiesAreInts DEF IdleInv, ListSorted

(* The list with a callback more, and with one less. *)
LEMMA IdleAdded ==
  ASSUME TypeOK, NEW i \in Idles, NEW n \in 0..Len(idles), idles' = InsertAt(idles, n + 1, i)
  PROVE  /\ Len(idles') = Len(idles) + 1 /\ DOMAIN idles' = 1..(Len(idles) + 1)
         /\ \A k \in 1..(Len(idles) + 1) : idles'[k] =
              IF k <= n THEN idles[k] ELSE IF k = n + 1 THEN i ELSE idles[k - 1]
<1> DEFINE list == idles
           place == n + 1
           new == InsertAt(list, place, i)
<1>1. list \in Seq(Idles) /\ place \in 1..(Len(list) + 1) /\ n \in Int
  BY DEF TypeOK, IdleTypes
<1> HIDE DEF list, place
<1>2. /\ new \in Seq(Idles) /\ Len(new) = Len(list) + 1
      /\ \A k \in 1..(Len(list) + 1) : new[k] =
           IF k < place THEN list[k] ELSE IF k = place THEN i ELSE list[k - 1]
  <2>1. new \in Seq(Idles)
    BY <1>1, Insertion, Zenon
  <2>2. Len(new) = Len(list) + 1
    BY <1>1, Insertion
  <2>3. \A k \in 1..(Len(list) + 1) : new[k] =
           IF k < place THEN list[k] ELSE IF k = place THEN i ELSE list[k - 1]
    BY <1>1, Insertion
  <2> QED BY <2>1, <2>2, <2>3
<1> HIDE DEF new
<1>3. DOMAIN new = 1..Len(new)
  BY <1>2
<1>4. \A k \in 1..(Len(list) + 1) : (k < place <=> k <= n) /\ (k = place <=> k = n + 1)
  BY <1>1 DEF place
<1>5. idles' = new
  BY DEF new, list, place
<1>6. /\ Len(new) = Len(list) + 1 /\ DOMAIN new = 1..(Len(list) + 1)
      /\ \A k \in 1..(Len(list) + 1) : new[k] =
           IF k <= n THEN list[k] ELSE IF k = n + 1 THEN i ELSE list[k - 1]
  BY <1>2, <1>3, <1>4, Zenon
<1> QED BY <1>5, <1>6 DEF list

LEMMA IdleRemoved ==
  ASSUME TypeOK, NEW n \in 1..Len(idles), idles' = RemoveAt(idles, n)
  PROVE  /\ Len(idles') = Len(idles) - 1 /\ DOMAIN idles' = 1..(Len(idles) - 1)
         /\ \A k \in 1..(Len(idles) - 1) : idles'[k] =
              IF k < n THEN idles[k] ELSE idles[k + 1]
<1>1. idles \in Seq(Idles)
  BY DEF TypeOK, IdleTypes
<1>2. /\ idles' \in Seq(Idles) /\ Len(idles') = Len(idles) - 1
      /\ \A k \in 1..(Len(idles) - 1) : idles'[k] = IF k < n THEN idles[k] ELSE idles[k + 1]
  BY <1>1, Removal, Zenon
<1>3. DOMAIN idles' = 1..Len(idles')
  BY <1>2
<1> QED BY <1>2, <1>3, Zenon

(* A callback is inserted behind those of higher priority.  If that is in  *)
(* the rest of the iteration, it has not run yet: what has run had at      *)
(* least the priority of the next one.                                     *)
LEMMA AddIdleKeepsOrder ==
  ASSUME TypeOK, IdleInv, NEW i \in Idles, pollen_loop_add_idle(i)
  PROVE  IdleInv'
<1>1. PICK n \in 0..Len(idles) : StopsAt(n, i) /\ idles' = InsertAt(idles, n + 1, i)
  BY DEF pollen_loop_add_idle
<1>2. idles \in Seq(Idles) /\ UNCHANGED <<upcoming, ran>>
  BY DEF TypeOK, IdleTypes, pollen_loop_add_idle
<1>3. \A k \in 1..Len(idles) : idles[k] # i
  BY DEF pollen_loop_add_idle, Contains
<1>4. /\ Len(idles') = Len(idles) + 1 /\ DOMAIN idles' = 1..(Len(idles) + 1)
      /\ \A k \in 1..(Len(idles) + 1) : idles'[k] =
           IF k <= n THEN idles[k] ELSE IF k = n + 1 THEN i ELSE idles[k - 1]
  BY <1>1, IdleAdded
<1>5. \A k \in 1..Len(idles) :
        IF k <= n THEN PriorityOf[idles[k]] > PriorityOf[i]
                  ELSE PriorityOf[idles[k]] <= PriorityOf[i]
  <2> SUFFICES ASSUME NEW k \in 1..Len(idles)
               PROVE  IF k <= n THEN PriorityOf[idles[k]] > PriorityOf[i]
                                ELSE PriorityOf[idles[k]] <= PriorityOf[i]
    OBVIOUS
  <2>1. CASE k < n
    <3>1. PriorityOf[idles[k]] >= PriorityOf[idles[n]]
      BY <2>1, PrioritiesAreInts DEF IdleInv, ListSorted
    <3>2. PriorityOf[idles[n]] > PriorityOf[i]
      BY <1>1, <2>1, PrioritiesAreInts DEF StopsAt
    <3> QED BY <2>1, <3>1, <3>2, PrioritiesAreInts
  <2>2. CASE k = n
    BY <1>1, <2>2, PrioritiesAreInts DEF StopsAt
  <2>3. CASE k > n
    BY <1>1, <2>3, PrioritiesAreInts DEF StopsAt
  <2> QED BY <2>1, <2>2, <2>3
<1>6. ListSorted'
  <2> SUFFICES ASSUME NEW k \in 1..(Len(idles) + 1), NEW l \in 1..(Len(idles) + 1), k < l
               PROVE  idles'[k] # idles'[l] /\ PriorityOf[idles'[k]] >= PriorityOf[idles'[l]]
    BY <1>4 DEF ListSorted
  <2>1. CASE l <= n
    <3>1. idles'[k] = idles[k] /\ idles'[l] = idles[l]
      BY <1>4, <2>1, PrioritiesAreInts
    <3>2. k \in 1..Len(idles) /\ l \in 1..Len(idles) /\ k < l
      BY <2>1, PrioritiesAreInts
    <3> QED BY <3>1, <3>2, SortedEntries
  <2>2. CASE l = n + 1
    <3>1. k \in 1..Len(idles) /\ k <= n /\ idles[k] \in Idles
      BY <2>2, PrioritiesAreInts
    <3>2. idles'[k] = idles[k] /\ idles'[l] = i
      BY <1>4, <2>2, <3>1
    <3>3. idles[k] # i /\ PriorityOf[idles[k]] > PriorityOf[i]
      BY <1>3, <1>5, <3>1
    <3> QED BY <3>1, <3>2, <3>3, PrioritiesAreInts
  <2>3. CASE k <= n /\ l > n + 1
    <3>1. idles'[k] = idles[k] /\ idles'[l] = idles[l - 1]
      BY <1>4, <2>3, PrioritiesAreInts
    <3>2. k \in 1..Len(idles) /\ l - 1 \in 1..Len(idles) /\ k < l - 1
      BY <2>3, PrioritiesAreInts
    <3> QED BY <3>1, <3>2, SortedEntries
  <2>4. CASE k = n + 1
    BY <1>3, <1>4, <1>5, <2>4, PrioritiesAreInts
  <2>5. CASE k > n + 1
    <3>1. idles'[k] = idles[k - 1] /\ idles'[l] = idles[l - 1]
      BY <1>4, <2>5, PrioritiesAreInts
    <3>2. k - 1 \in 1..Len(idles) /\ l - 1 \in 1..Len(idles) /\ k - 1 < l - 1
      BY <2>5, PrioritiesAreInts
    <3> QED BY <3>1, <3>2, SortedEntries
  <2> QED BY <2>1, <2>2, <2>3, <2>4, <2>5
<1>7. upcoming' \in Idles => \E p \in DOMAIN idles' : RestIsNew(p)'
  <2> SUFFICES ASSUME upcoming \in Idles
               PROVE  \E p \in DOMAIN idles' : RestIsNew(p)'
    BY <1>2
  <2>1. PICK p \in DOMAIN idles : RestIsNew(p)
    BY DEF IdleInv
  <2>2. p \in 1..Len(idles) /\ idles[p] = upcoming
    BY <2>1, PrioritiesAreInts DEF RestIsNew
  <2>3. CASE p <= n
    <3>1. PriorityOf[upcoming] > PriorityOf[i]
      BY <1>5, <2>2, <2>3
    <3>2. \A m \in DOMAIN ran : ran[m] # i
      BY <2>1, <3>1, PrioritiesAreInts DEF RestIsNew
    <3>3. ASSUME NEW m \in DOMAIN ran, NEW k \in p..(Len(idles) + 1)
          PROVE  idles'[k] # ran[m]
      <4>1. \A j \in p..Len(idles) : idles[j] # ran[m]
        BY <2>1 DEF RestIsNew
      <4>2. k \in 1..(Len(idles) + 1)
        BY <2>2, PrioritiesAreInts
      <4>3. CASE k <= n
        BY <1>4, <2>2, <4>1, <4>2, <4>3, PrioritiesAreInts
      <4>4. CASE k = n + 1
        BY <1>4, <3>2, <4>2, <4>4, PrioritiesAreInts
      <4>5. CASE k > n + 1
        <5>1. k - 1 \in p..Len(idles)
          BY <2>2, <2>3, <4>2, <4>5, PrioritiesAreInts
        <5>2. idles'[k] = idles[k - 1]
          BY <1>4, <4>2, <4>5, PrioritiesAreInts
        <5> QED BY <4>1, <5>1, <5>2
      <4> QED BY <4>2, <4>3, <4>4, <4>5, PrioritiesAreInts
    <3> QED BY <1>2, <1>4, <2>1, <2>2, <2>3, <3>3 DEF RestIsNew
  <2>4. CASE p > n
    <3>1. p + 1 \in DOMAIN idles' /\ idles'[p + 1] = upcoming
      BY <1>4, <2>2, <2>4
    <3>2. ASSUME NEW m \in DOMAIN ran, NEW k \in (p + 1)..(Len(idles) + 1)
          PROVE  idles'[k] # ran[m]
      <4>1. \A j \in p..Len(idles) : idles[j] # ran[m]
        BY <2>1 DEF RestIsNew
      <4>2. k - 1 \in p..Len(idles) /\ k \in 1..(Len(idles) + 1) /\ k > n + 1
        BY <2>2, <2>4, PrioritiesAreInts
      <4>3. idles'[k] = idles[k - 1]
        BY <1>4, <4>2, PrioritiesAreInts
      <4> QED BY <4>1, <4>2, <4>3
    <3> QED BY <1>2, <1>4, <2>1, <3>1, <3>2 DEF RestIsNew
  <2> QED BY <2>2, <2>3, <2>4, PrioritiesAreInts
<1> QED BY <1>2, <1>6, <1>7 DEF IdleInv, IdlesRunInOrder

(* Removing one keeps the others in order; if it was the next one, the     *)
(* iteration has lost its way and has no rest.                             *)
LEMMA RemoveIdleKeepsOrder ==
  ASSUME TypeOK, IdleInv, NEW i \in Idles, RemoveIdle(i)
  PROVE  IdleInv'
<1>1. PICK n \in 1..Len(idles) : idles[n] = i /\ idles' = RemoveAt(idles, n)
  BY PrioritiesAreInts DEF RemoveIdle
<1>2. idles \in Seq(Idles) /\ ran' = ran /\ upcoming' = IF upcoming = i THEN Freed ELSE upcoming
  BY DEF TypeOK, IdleTypes, RemoveIdle
<1>3. /\ Len(idles') = Len(idles) - 1 /\ DOMAIN idles' = 1..(Len(idles) - 1)
      /\ \A k \in 1..(Len(idles) - 1) : idles'[k] =
           IF k < n THEN idles[k] ELSE idles[k + 1]
  BY <1>1, IdleRemoved
<1>4. ListSorted'
  <2> SUFFICES ASSUME NEW k \in 1..(Len(idles) - 1), NEW l \in 1..(Len(idles) - 1), k < l
               PROVE  idles'[k] # idles'[l] /\ PriorityOf[idles'[k]] >= PriorityOf[idles'[l]]
    BY <1>3 DEF ListSorted
  <2>1. CASE l < n
    <3>1. idles'[k] = idles[k] /\ idles'[l] = idles[l]
      BY <1>3, <2>1, PrioritiesAreInts
    <3>2. k \in 1..Len(idles) /\ l \in 1..Len(idles) /\ k < l
      BY <2>1, PrioritiesAreInts
    <3> QED BY <3>1, <3>2, SortedEntries
  <2>2. CASE k < n /\ l >= n
    <3>1. idles'[k] = idles[k] /\ idles'[l] = idles[l + 1]
      BY <1>3, <2>2, PrioritiesAreInts
    <3>2. k \in 1..Len(idles) /\ l + 1 \in 1..Len(idles) /\ k < l + 1
      BY <2>2, PrioritiesAreInts
    <3> QED BY <3>1, <3>2, SortedEntries
  <2>3. CASE k >= n
    <3>1. idles'[k] = idles[k + 1] /\ idles'[l] = idles[l + 1]
      BY <1>3, <2>3, PrioritiesAreInts
    <3>2. k + 1 \in 1..Len(idles) /\ l + 1 \in 1..Len(idles) /\ k + 1 < l + 1
      BY <2>3, PrioritiesAreInts
    <3> QED BY <3>1, <3>2, SortedEntries
  <2> QED BY <2>1, <2>2, <2>3
<1>5. upcoming' \in Idles => \E p \in DOMAIN idles' : RestIsNew(p)'
  <2> SUFFICES ASSUME upcoming' \in Idles
               PROVE  \E p \in DOMAIN idles' : RestIsNew(p)'
    OBVIOUS
  <2>1. upcoming # i /\ upcoming' = upcoming
    BY <1>2, Constants
  <2>2. PICK p \in DOMAIN idles : RestIsNew(p)
    BY <2>1 DEF IdleInv
  <2>3. p \in 1..Len(idles) /\ idles[p] = upcoming /\ p # n
    BY <1>1, <2>1, <2>2, PrioritiesAreInts DEF RestIsNew
  <2>4. CASE p < n
    <3>1. p \in DOMAIN idles' /\ idles'[p] = upcoming
      BY <1>3, <2>3, <2>4
    <3>2. \A m \in DOMAIN ran : \A k \in p..(Len(idles) - 1) : idles'[k] # ran[m]
      BY <1>3, <2>2, <2>3, PrioritiesAreInts DEF RestIsNew
    <3> QED BY <1>2, <1>3, <2>1, <2>2, <3>1, <3>2 DEF RestIsNew
  <2>5. CASE p > n
    <3>1. p - 1 \in DOMAIN idles' /\ idles'[p - 1] = upcoming
      BY <1>3, <2>3, <2>5
    <3>2. \A m \in DOMAIN ran : \A k \in (p - 1)..(Len(idles) - 1) : idles'[k] # ran[m]
      BY <1>3, <2>2, <2>3, <2>5, PrioritiesAreInts DEF RestIsNew
    <3> QED BY <1>2, <1>3, <2>1, <2>2, <3>1, <3>2 DEF RestIsNew
  <2> QED BY <2>3, <2>4, <2>5, PrioritiesAreInts
<1> QED BY <1>2, <1>4, <1>5 DEF IdleInv, IdlesRunInOrder

(* The next callback runs: it has not yet, and nothing after it has.       *)
LEMMA DispatchIdleKeepsOrder ==
  ASSUME TypeOK, IdleInv, DispatchIdle
  PROVE  IdleInv'
<1>1. upcoming \in Idles
  BY DEF DispatchIdle, TypeOK, IdleTypes
<1>2. PICK p \in 1..Len(idles) : RestIsNew(p)
  BY <1>1, PrioritiesAreInts DEF IdleInv
<1>3. idles[p] = upcoming
  BY <1>2 DEF RestIsNew
<1>4. upcoming' = IF p = Len(idles) THEN None ELSE idles[p + 1]
  BY <1>2, <1>3, NextOfIdle, PrioritiesAreInts DEF DispatchIdle, TypeOK, IdleTypes, IdleInv
<1>5. /\ Len(ran') = Len(ran) + 1 /\ DOMAIN ran' = 1..(Len(ran) + 1) /\ idles' = idles
      /\ \A m \in 1..(Len(ran) + 1) : ran'[m] = IF m <= Len(ran) THEN ran[m] ELSE upcoming
  BY <1>1 DEF DispatchIdle, TypeOK, IdleTypes
<1>6. IdlesRunInOrder'
  <2> SUFFICES ASSUME NEW m \in 1..(Len(ran) + 1), NEW n \in 1..(Len(ran) + 1), m < n
               PROVE  ran'[m] # ran'[n] /\ PriorityOf[ran'[m]] >= PriorityOf[ran'[n]]
    BY <1>5 DEF IdlesRunInOrder
  <2>1. CASE n <= Len(ran)
    <3>1. m \in DOMAIN ran /\ n \in DOMAIN ran /\ ran'[m] = ran[m] /\ ran'[n] = ran[n]
      BY <1>5, <2>1, PrioritiesAreInts
    <3>2. ran[m] # ran[n] /\ PriorityOf[ran[m]] >= PriorityOf[ran[n]]
      BY <3>1 DEF IdleInv, IdlesRunInOrder
    <3> QED BY <3>1, <3>2
  <2>2. CASE n = Len(ran) + 1
    <3>1. m \in DOMAIN ran /\ ran'[m] = ran[m] /\ ran'[n] = upcoming
      BY <1>5, <2>2, PrioritiesAreInts
    <3>2. idles[p] # ran[m] /\ PriorityOf[ran[m]] >= PriorityOf[upcoming]
      BY <1>2, <3>1, PrioritiesAreInts DEF RestIsNew
    <3> QED BY <1>3, <3>1, <3>2
  <2> QED BY <2>1, <2>2, PrioritiesAreInts
<1>7. ASSUME upcoming' \in Idles
      PROVE  \E q \in DOMAIN idles' : RestIsNew(q)'
  <2>1. p + 1 \in 1..Len(idles) /\ upcoming' = idles[p + 1]
    <3>1. p # Len(idles)
      BY <1>4, <1>7, Constants
    <3>2. upcoming' = idles[p + 1]
      BY <1>4, <3>1, Zenon
    <3>3. p \in 1..Len(idles) /\ Len(idles) \in Nat
      BY <1>2, PrioritiesAreInts
    <3>4. p + 1 \in 1..Len(idles)
      BY <3>1, <3>3
    <3> QED BY <3>2, <3>4
  <2>2. ASSUME NEW m \in DOMAIN ran'
        PROVE  /\ PriorityOf[ran'[m]] >= PriorityOf[upcoming']
               /\ \A n \in (p + 1)..Len(idles') : idles'[n] # ran'[m]
    <3>1. PriorityOf[upcoming] >= PriorityOf[idles[p + 1]]
      BY <1>3, <2>1, PrioritiesAreInts DEF IdleInv, ListSorted
    <3>2. CASE m <= Len(ran)
      <4>1. m \in DOMAIN ran /\ ran'[m] = ran[m]
        BY <1>5, <2>2, <3>2, PrioritiesAreInts
      <4>2. /\ PriorityOf[ran[m]] >= PriorityOf[upcoming]
            /\ \A n \in p..Len(idles) : idles[n] # ran[m]
        BY <1>2, <4>1 DEF RestIsNew
      <4> QED BY <1>1, <1>5, <2>1, <3>1, <4>1, <4>2, PrioritiesAreInts
    <3>3. CASE m = Len(ran) + 1
      <4>1. ran'[m] = upcoming
        BY <1>5, <2>2, <3>3, PrioritiesAreInts
      <4>2. \A n \in (p + 1)..Len(idles) : idles[n] # idles[p]
        BY <2>1, PrioritiesAreInts DEF IdleInv, ListSorted
      <4> QED BY <1>3, <1>5, <2>1, <3>1, <4>1, <4>2
    <3> QED BY <1>5, <2>2, <3>2, <3>3, PrioritiesAreInts
  <2> QED BY <1>5, <2>1, <2>2, PrioritiesAreInts DEF RestIsNew
<1> QED BY <1>5, <1>6, <1>7 DEF IdleInv, ListSorted

(* A new iteration begins with the first callback of the list. *)
LEMMA EventDoneKeepsOrder ==
  ASSUME TypeOK, IdleInv, EventDone
  PROVE  IdleInv'
<1>1. CASE UNCHANGED idleVars
  BY <1>1 DEF idleVars, IdleInv, ListSorted, IdlesRunInOrder, RestIsNew
<1>2. CASE ran' = <<>> /\ UNCHANGED <<idles, upcoming>>
  BY <1>2 DEF IdleInv, ListSorted, IdlesRunInOrder, RestIsNew
<1>3. CASE idles # <<>> /\ ran' = <<>> /\ idles' = idles /\ upcoming' = Head(idles)
  <2>1. 1 \in DOMAIN idles' /\ idles'[1] = upcoming'
    BY <1>3 DEF TypeOK, IdleTypes
  <2>2. RestIsNew(1)'
    BY <1>3, <2>1 DEF RestIsNew
  <2> QED BY <1>3, <2>1, <2>2 DEF IdleInv, ListSorted, IdlesRunInOrder
<1> QED BY <1>1, <1>2, <1>3 DEF EventDone

(* The other steps have nothing to do with it, except for the end.         *)
LEMMA IdleFrame ==
  ASSUME IdleInv, UNCHANGED idleVars \/ pollen_loop_cleanup
  PROVE  IdleInv'
<1>1. CASE UNCHANGED idleVars
  BY <1>1 DEF idleVars, IdleInv, ListSorted, IdlesRunInOrder, RestIsNew
<1>2. CASE pollen_loop_cleanup
  <2>1. idles' = <<>> /\ upcoming' \notin Idles /\ ran' = ran
    BY <1>2, Constants DEF pollen_loop_cleanup
  <2> QED BY <2>1 DEF IdleInv, ListSorted, IdlesRunInOrder
<1> QED BY <1>1, <1>2

LEMMA NextIdleInv ==
  ASSUME TypeOK, IdleInv, [Next]_vars
  PROVE  IdleInv'
<1>1. CASE \E i \in Idles : pollen_loop_add_idle(i) \/ RemoveIdle(i)
  BY <1>1, AddIdleKeepsOrder, RemoveIdleKeepsOrder
<1>2. CASE CallbackReturns0 \/ NoSignalToRead
  BY <1>2, EventDoneKeepsOrder DEF CallbackReturns0, NoSignalToRead
<1>3. CASE DispatchIdle
  BY <1>3, DispatchIdleKeepsOrder
<1>4. CASE \/ \E s \in Fds \cup Timers : pollen_loop_add_source(s) \/ RemoveSource(s)
           \/ \E s \in Sigs : AddSignalBegins(s) \/ RemoveSignal(s)
           \/ \E code \in {0, 1} : pollen_loop_quit(code)
           \/ CallbackFails
           \/ AddSignalExists \/ AddSignalInstalls \/ AddSignalFails \/ AddSignalReturns
  <2>1. UNCHANGED idleVars
    BY <1>4 DEF pollen_loop_add_source, RemoveSource, AddSignalBegins, RemoveSignal,
       pollen_loop_quit, CallbackFails, AddSignalExists, AddSignalInstalls, AddSignalFails,
       AddSignalReturns, callUnchanged
  <2> QED BY <2>1, IdleFrame
<1>5. CASE \/ pollen_loop_run \/ Epoll \/ EpollFails \/ IdleReturns0 \/ ReadsFreed
           \/ \E s \in Fds \cup Timers : DispatchSource(s)
           \/ \E s \in Sigs : DispatchSignal(s)
           \/ World \/ Sleeping \/ UNCHANGED vars
  <2>1. UNCHANGED idleVars
    BY <1>5 DEF pollen_loop_run, Epoll, EpollFails, IdleReturns0, ReadsFreed, DispatchSource,
       DispatchSignal, World, SignalArrives, InputArrives, Sleeping, vars
  <2> QED BY <2>1, IdleFrame
<1>6. CASE pollen_loop_cleanup
  BY <1>6, IdleFrame
<1> QED BY <1>1, <1>2, <1>3, <1>4, <1>5, <1>6 DEF Next, Program, Loop, Failures

-----------------------------------------------------------------------------
(* What is due *)

LEMMA InitDueInv == Init => DueInv
BY DEF Init, DueInv

(* Steps that keep the callbacks of the list that still have to run, and   *)
(* leave the mode alone.                                                   *)
LEMMA DueKept ==
  ASSUME DueInv, UNCHANGED <<mode, current, upcoming, ran>>, due' \subseteq due,
         ASSUME NEW d \in due', StillToRun(d)  PROVE StillToRun(d)'
  PROVE  DueInv'
BY DEF DueInv

(* A callback is added: the others keep their order. *)
LEMMA AddIdleKeepsDue ==
  ASSUME TypeOK, DueInv, NEW i \in Idles, pollen_loop_add_idle(i)
  PROVE  DueInv'
<1>1. PICK n \in 0..Len(idles) : idles' = InsertAt(idles, n + 1, i)
  BY DEF pollen_loop_add_idle
<1>2. UNCHANGED <<mode, current, upcoming, ran, due>>
  BY DEF pollen_loop_add_idle, loopUnchanged
<1>3. /\ DOMAIN idles' = 1..(Len(idles) + 1)
      /\ \A k \in 1..(Len(idles) + 1) : idles'[k] =
           IF k <= n THEN idles[k] ELSE IF k = n + 1 THEN i ELSE idles[k - 1]
  BY <1>1, IdleAdded
<1> DEFINE moved(k) == IF k <= n THEN k ELSE k + 1
<1>4. ASSUME NEW k \in 1..Len(idles)
      PROVE  moved(k) \in DOMAIN idles' /\ idles'[moved(k)] = idles[k]
  BY <1>3, PrioritiesAreInts
<1>5. \A p, k \in 1..Len(idles) : p <= k => moved(p) <= moved(k)
  BY PrioritiesAreInts
<1> HIDE DEF moved
<1>6. ASSUME NEW d \in due', StillToRun(d)  PROVE StillToRun(d)'
  <2>1. PICK p \in 1..Len(idles), k \in 1..Len(idles) :
          p <= k /\ idles[p] = upcoming /\ idles[k] = d
    BY <1>6, PrioritiesAreInts DEF StillToRun
  <2>2. moved(p) <= moved(k) /\ idles'[moved(p)] = upcoming' /\ idles'[moved(k)] = d
    BY <1>2, <1>4, <1>5, <2>1
  <2> QED BY <1>4, <2>2 DEF StillToRun
<1> QED BY <1>2, <1>6, DueKept

(* One is removed, and with it what it was due for: the others keep their  *)
(* order.                                                                  *)
LEMMA RemoveIdleKeepsDue ==
  ASSUME TypeOK, DueInv, NEW i \in Idles, RemoveIdle(i)
  PROVE  DueInv'
<1>1. PICK n \in 1..Len(idles) : idles[n] = i /\ idles' = RemoveAt(idles, n)
  BY PrioritiesAreInts DEF RemoveIdle
<1>2. /\ UNCHANGED <<mode, current, ran>> /\ due' = due \ {i}
      /\ upcoming' = IF upcoming = i THEN Freed ELSE upcoming
  BY DEF RemoveIdle, loopUnchanged
<1>3. CASE upcoming = i
  BY <1>2, <1>3, Constants DEF DueInv
<1>4. CASE upcoming # i
  <2>1. upcoming' = upcoming
    BY <1>2, <1>4
  <2>2. /\ DOMAIN idles' = 1..(Len(idles) - 1)
        /\ \A k \in 1..(Len(idles) - 1) : idles'[k] = IF k < n THEN idles[k] ELSE idles[k + 1]
    BY <1>1, IdleRemoved
  <2> DEFINE moved(k) == IF k < n THEN k ELSE k - 1
  <2>3. ASSUME NEW k \in 1..Len(idles), k # n
        PROVE  moved(k) \in DOMAIN idles' /\ idles'[moved(k)] = idles[k]
    BY <2>2, <2>3, PrioritiesAreInts
  <2>4. \A p, k \in 1..Len(idles) : p <= k /\ p # n /\ k # n => moved(p) <= moved(k)
    BY PrioritiesAreInts
  <2> HIDE DEF moved
  <2>5. ASSUME NEW d \in due', StillToRun(d)  PROVE StillToRun(d)'
    <3>1. PICK p \in 1..Len(idles), k \in 1..Len(idles) :
            p <= k /\ idles[p] = upcoming /\ idles[k] = d
      BY <2>5, PrioritiesAreInts DEF StillToRun
    <3>2. p # n /\ k # n
      BY <1>1, <1>2, <1>4, <2>5, <3>1
    <3>3. moved(p) <= moved(k) /\ idles'[moved(p)] = upcoming' /\ idles'[moved(k)] = d
      BY <2>1, <2>3, <2>4, <3>1, <3>2
    <3> QED BY <2>3, <3>2, <3>3 DEF StillToRun
  <2> QED BY <1>2, <2>1, <2>5, DueKept
<1> QED BY <1>3, <1>4

(* The next callback runs; what is due after it comes later in the list.   *)
LEMMA DispatchIdleKeepsDue ==
  ASSUME TypeOK, IdleInv, DueInv, DispatchIdle
  PROVE  DueInv'
<1>1. /\ upcoming \in Idles
      /\ mode' = "handler" /\ current' = upcoming
      /\ UNCHANGED <<idles, due>>
      /\ ran' = Append(ran, upcoming)
  BY DEF DispatchIdle, CallbackRuns, TypeOK, IdleTypes
<1>2. Range(ran') = Range(ran) \cup {upcoming}
  <2>1. /\ DOMAIN ran' = DOMAIN ran \cup {Len(ran) + 1}
        /\ \A n \in DOMAIN ran : ran'[n] = ran[n]
        /\ ran'[Len(ran) + 1] = upcoming
    BY <1>1 DEF TypeOK, IdleTypes
  <2> QED BY <2>1 DEF Range
<1>3. \A p \in 1..Len(idles) : idles[p] = upcoming =>
        upcoming' = IF p = Len(idles) THEN None ELSE idles[p + 1]
  BY NextOfIdle, PrioritiesAreInts DEF DispatchIdle, TypeOK, IdleTypes, IdleInv
<1>4. ASSUME NEW d \in due, d \notin Range(ran')
      PROVE  StillToRun(d)'
  <2>1. d \notin Range(ran) /\ d # upcoming
    BY <1>2, <1>4
  <2>2. PICK p \in 1..Len(idles), k \in 1..Len(idles) :
          p <= k /\ idles[p] = upcoming /\ idles[k] = d
    BY <1>1, <2>1, Constants, PrioritiesAreInts DEF DueInv, StillToRun
  <2>3. p # k /\ p # Len(idles)
    BY <2>1, <2>2
  <2>4. p + 1 <= k /\ p + 1 \in 1..Len(idles) /\ idles[p + 1] = upcoming'
    BY <1>3, <2>2, <2>3
  <2>5. /\ p + 1 \in DOMAIN idles' /\ k \in DOMAIN idles'
        /\ idles'[p + 1] = upcoming' /\ idles'[k] = d
    BY <1>1, <2>2, <2>4, PrioritiesAreInts
  <2> QED BY <2>4, <2>5 DEF StillToRun
<1> QED BY <1>1, <1>4 DEF DueInv

(* After a batch everything in the list is due, and comes in the rest.     *)
LEMMA EventDoneKeepsDue ==
  ASSUME TypeOK, DueInv, CallbackReturns0 \/ NoSignalToRead
  PROVE  DueInv'
<1>1. upcoming = None /\ mode' \in {"dispatch", "wait", "cleanup", "idle"}
  BY DEF CallbackReturns0, NoSignalToRead, Dispatching, DueInv, EventDone, IterationEnds
<1>2. CASE UNCHANGED idleVars /\ mode' = "dispatch"
  BY <1>1, <1>2, Constants DEF idleVars, DueInv, StillToRun
<1>3. CASE due' = {} /\ upcoming' = upcoming
  BY <1>1, <1>3 DEF DueInv
<1>4. CASE idles # <<>> /\ mode' = "idle" /\ upcoming' = Head(idles) /\ due' = Range(idles)
           /\ idles' = idles
  <2>1. 1 \in DOMAIN idles' /\ idles'[1] = upcoming' /\ \A k \in DOMAIN idles' : 1 <= k
    BY <1>4 DEF TypeOK, IdleTypes
  <2>2. \A d \in due' : StillToRun(d)'
    BY <1>4, <2>1 DEF StillToRun, Range
  <2> QED BY <1>4, <2>2 DEF DueInv
<1> QED BY <1>2, <1>3, <1>4 DEF CallbackReturns0, NoSignalToRead, EventDone

(* The other steps do not touch the iteration, and only when it is over do *)
(* they leave it.                                                          *)
LEMMA DueFrame ==
  ASSUME DueInv, UNCHANGED idleVars,
         \/ mode' \in {"idle", "cleanup", "exited", "killed", "undefined"}
         \/ UNCHANGED <<mode, current>>
         \/ upcoming = None
  PROVE  DueInv'
BY DEF DueInv, StillToRun, idleVars

LEMMA NextDueInv ==
  ASSUME TypeOK, IdleInv, DueInv, [Next]_vars
  PROVE  DueInv'
<1>1. CASE \E i \in Idles : pollen_loop_add_idle(i) \/ RemoveIdle(i)
  BY <1>1, AddIdleKeepsDue, RemoveIdleKeepsDue
<1>2. CASE CallbackReturns0 \/ NoSignalToRead
  BY <1>2, EventDoneKeepsDue
<1>3. CASE DispatchIdle
  BY <1>3, DispatchIdleKeepsDue
<1>4. CASE \/ \E s \in Fds \cup Timers : pollen_loop_add_source(s) \/ RemoveSource(s)
           \/ \E s \in Sigs : AddSignalBegins(s) \/ RemoveSignal(s)
           \/ \E code \in {0, 1} : pollen_loop_quit(code)
           \/ CallbackFails
           \/ AddSignalExists \/ AddSignalInstalls \/ AddSignalFails \/ AddSignalReturns
  <2>1. UNCHANGED idleVars
    BY <1>4 DEF pollen_loop_add_source, RemoveSource, AddSignalBegins, RemoveSignal,
       pollen_loop_quit, CallbackFails, AddSignalExists, AddSignalInstalls, AddSignalFails,
       AddSignalReturns, callUnchanged
  <2>2. mode' \in {"cleanup", "killed"} \/ UNCHANGED <<mode, current>>
    BY <1>4 DEF pollen_loop_add_source, RemoveSource, AddSignalBegins, RemoveSignal,
       pollen_loop_quit, CallbackFails, Stops, AddSignalExists, AddSignalInstalls,
       AddSignalFails, AddSignalReturns, RestoresMasks, SetsMask, callUnchanged, loopUnchanged
  <2> QED BY <2>1, <2>2, DueFrame
<1>5. CASE \/ pollen_loop_run \/ Epoll
           \/ \E s \in Fds \cup Timers : DispatchSource(s)
           \/ \E s \in Sigs : DispatchSignal(s)
  <2>1. UNCHANGED idleVars /\ mode \in {"setup", "wait", "dispatch"}
    BY <1>5 DEF pollen_loop_run, Epoll, EpollDrop, EpollWait, DispatchSource, DispatchSignal,
       Dispatching
  <2>2. upcoming = None
    BY <2>1 DEF DueInv
  <2> QED BY <2>1, <2>2, DueFrame
<1>6. CASE IdleReturns0
  <2>1. UNCHANGED idleVars /\ (mode' = "idle" \/ upcoming = None)
    BY <1>6 DEF IdleReturns0
  <2> QED BY <2>1, DueFrame
<1>7. CASE EpollFails \/ ReadsFreed \/ World \/ Sleeping \/ UNCHANGED vars
  <2>1. UNCHANGED idleVars
    BY <1>7 DEF EpollFails, ReadsFreed, World, SignalArrives, InputArrives, Sleeping, vars
  <2>2. mode' \in {"cleanup", "killed", "undefined"} \/ UNCHANGED <<mode, current>>
    BY <1>7 DEF EpollFails, Stops, ReadsFreed, World, SignalArrives, InputArrives, Sleeping,
       vars, pollenVars
  <2> QED BY <2>1, <2>2, DueFrame
<1>8. CASE pollen_loop_cleanup
  BY <1>8 DEF pollen_loop_cleanup, DueInv
<1> QED BY <1>1, <1>2, <1>3, <1>4, <1>5, <1>6, <1>7, <1>8 DEF Next, Program, Loop, Failures

-----------------------------------------------------------------------------

(* The inductive invariant of the loop. *)
THEOREM LoopInvariance == Spec => []LoopInv
<1>1. Init => LoopInv
  BY InitTypeOK, SignalsInit, InitIdleInv, InitDueInv DEF LoopInv
<1>2. LoopInv /\ [Next]_vars => LoopInv'
  BY NextTypeOK, NextSignalInv, NextIdleInv, NextDueInv DEF LoopInv
<1> QED BY <1>1, <1>2, PTL DEF Spec

(* The idle callbacks of an iteration run in the order of their            *)
(* priorities, none of them twice, whatever they add and remove.           *)
THEOREM IdlesInOrder == Spec => []IdlesRunInOrder
<1>1. LoopInv => IdlesRunInOrder
  BY DEF LoopInv, IdleInv
<1> QED BY <1>1, LoopInvariance, PTL

(* When the loop sleeps again, every idle callback has run that was in the *)
(* list after the batch and has not been removed since.                    *)
THEOREM IdlesAllRun == Spec => []IdlesRunEveryTime
<1>1. LoopInv => IdlesRunEveryTime
  <2> SUFFICES ASSUME LoopInv, mode = "wait", NEW d \in due
               PROVE  d \in Range(ran)
    BY DEF IdlesRunEveryTime
  <2>1. upcoming = None
    BY DEF LoopInv, DueInv
  <2>2. ~StillToRun(d)
    BY <2>1, PrioritiesAreInts, Constants DEF LoopInv, StillToRun
  <2> QED BY <2>1, <2>2, PollenLoopAssumption DEF LoopInv, DueInv, None, Freed
<1> QED BY <1>1, LoopInvariance, PTL

(* Whatever the loop has to close still has its callback, until it is      *)
(* closed.                                                                 *)
THEOREM ClosesWhatItOwns == Spec => []NothingLeaks
<1>1. Init => NothingLeaks
  BY DEF Init, NothingLeaks
<1>2. ASSUME NothingLeaks, [Next]_vars
      PROVE  NothingLeaks'
  <2>1. CASE \E s \in Fds \cup Timers : pollen_loop_add_source(s) \/ RemoveSource(s)
    BY <1>2, <2>1 DEF NothingLeaks, pollen_loop_add_source, pollen_loop_add_fd, RemoveSource
  <2>2. CASE \/ \E i \in Idles : pollen_loop_add_idle(i) \/ RemoveIdle(i)
             \/ \E s \in Sigs : AddSignalBegins(s) \/ RemoveSignal(s)
             \/ \E code \in {0, 1} : pollen_loop_quit(code)
             \/ CallbackFails
             \/ AddSignalExists \/ AddSignalInstalls \/ AddSignalFails \/ AddSignalReturns
    BY <1>2, <2>2 DEF NothingLeaks, pollen_loop_add_idle, RemoveIdle, AddSignalBegins,
       RemoveSignal, pollen_loop_quit, CallbackFails, Stops, AddSignalExists, AddSignalInstalls,
       AddSignalFails, AddSignalReturns, callUnchanged
  <2>3. CASE \/ pollen_loop_run \/ Epoll \/ EpollFails \/ DispatchIdle
             \/ CallbackReturns0 \/ NoSignalToRead \/ IdleReturns0 \/ ReadsFreed
             \/ \E s \in Fds \cup Timers : DispatchSource(s)
             \/ \E s \in Sigs : DispatchSignal(s)
             \/ World \/ Sleeping \/ UNCHANGED vars
    BY <1>2, <2>3 DEF NothingLeaks, pollen_loop_run, Epoll, EpollDrop, EpollWait, EpollFails,
       Stops, DispatchIdle, CallbackReturns0, EventDone, NoSignalToRead,
       IdleReturns0, ReadsFreed, DispatchSource, DispatchSignal, CallbackRuns, World, SignalArrives,
       InputArrives, Sleeping, vars, pollenVars
  <2>4. CASE pollen_loop_cleanup
    BY <1>2, <2>4 DEF NothingLeaks, pollen_loop_cleanup
  <2> QED BY <1>2, <2>1, <2>2, <2>3, <2>4 DEF Next, Program, Loop, Failures
<1> QED BY <1>1, <1>2, PTL DEF Spec
=============================================================================
