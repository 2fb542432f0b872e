----------------------------- MODULE PollenLoop -----------------------------
(***************************************************************************)
(* The event loop of lib/pollen.h as a library: everything a program may   *)
(* ask of it, from its callbacks or before it runs the loop - descriptors, *)
(* timers, signals, idle callbacks, removal, quitting.  Pollen has the     *)
(* part of it that the portal uses, and the epoll both are built on.       *)
(*                                                                         *)
(* A callback is named by what it was added for.  When the loop reads a    *)
(* callback that has been freed, the mode becomes "undefined" and nothing  *)
(* more is said.                                                           *)
(***************************************************************************)
EXTENDS Pollen, SequencesExt

CONSTANTS
  Fds,         \* descriptors the program may register
  Timers,      \* timers it may add
  Idles,       \* idle callbacks it may add
  PriorityOf,  \* their priorities
  Sigs,        \* signals it may register
  NumberOf,    \* their numbers
  Ignored,     \* signals that are ignored by default, as SIGCHLD is; others kill
  MaxCalls,    \* bound: calls of the program into the library
  Faults       \* which of "signalfd" (changing its mask), "epoll_wait" may fail

SignalFd == "signalfd"
None == "none"
Freed == "freed"     \* what a pointer to a freed callback is

MaxSignal == 37      \* the last entry of loop->signal_callbacks, which is not checked

ASSUME PollenLoopAssumption ==
  /\ PriorityOf \in [Idles -> Int]
  /\ NumberOf \in [Sigs -> 1..MaxSignal]
  /\ \A s, t \in Sigs : NumberOf[s] = NumberOf[t] => s = t
  /\ Ignored \subseteq Sigs
  /\ MaxCalls \in Nat
  /\ {None, Freed, SignalFd} \cap (Fds \cup Timers \cup Idles \cup Sigs) = {}
  /\ Idles \cap (Fds \cup Timers \cup Sigs) = {}

VARIABLES
  current,     \* the callback that runs, or None
  idles,       \* loop->idle_callbacks_list
  upcoming,    \* callback_tmp of the iteration over that list, or None
  handlers,    \* signals with an entry in loop->signal_callbacks
  sigset,      \* loop->sigset
  watched,     \* the mask the kernel has for the signalfd
  blocked,     \* the signal mask of the process
  inherited,   \* what it was before the loop was created
  pending,     \* signals pending for the process
  adding,      \* the call to pollen_loop_add_signal in progress
  input,       \* descriptors with input and timers that have expired
  owned,       \* descriptors the loop has to close
  ran,         \* idle callbacks that have run in this iteration, in order
  due,         \* those in the list when the iteration over it began
  calls        \* calls into the library so far

signalVars == <<handlers, sigset, watched, blocked, inherited, pending, adding>>
idleVars == <<idles, upcoming, ran, due>>
vars == <<pollenVars, current, idleVars, signalVars, input, owned, calls>>

(* "setup": before pollen_loop_run.  "idle": between two idle callbacks.   *)
(* "killed": by the default action of a signal.                            *)
LoopModes ==
  {"setup", "wait", "dispatch", "handler", "idle", "cleanup", "exited", "killed", "undefined"}

Running == mode \in {"wait", "dispatch", "handler", "idle"}
Ended == mode \in {"exited", "killed", "undefined"}

NotAdding == [sig |-> None, step |-> "none"]

(* What poll() would report. *)
Level ==
  (input \cap callbacks) \cup {s \in {SignalFd} : pending \cap watched # {}}

-----------------------------------------------------------------------------
(* pollen_loop_create.  The program may have blocked signals before. *)
Init ==
  /\ mode = "setup"
  /\ callbacks = {SignalFd}
  /\ ready = <<>>
  /\ events = <<>>
  /\ shouldQuit = FALSE
  /\ retcode = 0
  /\ current = None
  /\ idles = <<>> /\ upcoming = None /\ ran = <<>> /\ due = {}
  /\ handlers = {} /\ sigset = {} /\ watched = {}
  /\ blocked \in SUBSET Sigs
  /\ inherited = blocked
  /\ pending = {}
  /\ adding = NotAdding
  /\ input = {}
  /\ owned = {}
  /\ calls = 0

-----------------------------------------------------------------------------
(* Calls the program makes, before the loop runs or from a callback *)

LibraryCall ==
  /\ mode \in {"setup", "handler"}
  /\ adding = NotAdding
  /\ calls < MaxCalls
  /\ calls' = calls + 1

loopUnchanged == UNCHANGED <<mode, events, shouldQuit, retcode, current>>

(* What is left of the batch once the callback of s has been freed. *)
EventsWithout(s) == [n \in DOMAIN events |-> IF events[n] = s THEN Freed ELSE events[n]]

(* A descriptor, with or without autoclose, or a timer is registered; what *)
(* cannot be is left as it was.                                            *)
pollen_loop_add_source(s) ==
  /\ LibraryCall
  /\ s \notin callbacks
  /\ pollen_loop_add_fd(s, s \in input)
  /\ owned' = owned \cup {s} \/ (s \in Fds /\ owned' = owned)
  /\ loopUnchanged
  /\ UNCHANGED <<idleVars, signalVars, input>>

(* A wrong version: the list is not kept in order. *)
StopsAtEnd(n, i) == n = Len(idles)

(* The scan for the place of i stops at the last callback of higher        *)
(* priority, number n, or finds none.                                      *)
StopsAt(n, i) ==
  /\ n > 0 => PriorityOf[idles[n]] > PriorityOf[i]
  /\ \A k \in (n + 1)..Len(idles) : PriorityOf[idles[k]] <= PriorityOf[i]

pollen_loop_add_idle(i) ==
  /\ LibraryCall
  /\ ~Contains(idles, i)
  /\ \E n \in 0..Len(idles) : StopsAt(n, i) /\ idles' = InsertAt(idles, n + 1, i)
  /\ loopUnchanged
  /\ UNCHANGED <<callbacks, ready, upcoming, ran, due, signalVars, input, owned>>

(* pollen_loop_add_signal step by step, as signals may arrive in between.  *)
(* First the masks are saved and the signal is blocked and added to the    *)
(* loop's set.                                                             *)
AddSignalBegins(s) ==
  /\ LibraryCall
  /\ adding' = [sig |-> s, step |-> "blocked", mask |-> blocked, set |-> sigset]
  /\ blocked' = blocked \cup {s}
  /\ sigset' = sigset \cup {s}
  /\ loopUnchanged
  /\ UNCHANGED <<callbacks, ready, idleVars, handlers, watched, inherited, pending, input,
                 owned>>

(* The call has come to the given step, and the process is alive. *)
AddingAt(step) == adding.step = step /\ ~Ended

callUnchanged ==
  UNCHANGED <<callbacks, events, shouldQuit, retcode, current, idleVars, inherited, input,
              owned, calls>>

(* sigprocmask: a pending signal that is no longer blocked takes its       *)
(* default action at once.  It is gone, or else the process is.            *)
SetsMask(mask, next) ==
  /\ blocked' = mask
  /\ pending' = pending \ (Ignored \ mask)
  /\ mode' = IF pending \subseteq mask \cup Ignored THEN next ELSE "killed"

(* A wrong version: the set of the loop stays as it is. *)
KeepsSet(mask, set) ==
  /\ SetsMask(mask, mode)
  /\ adding' = NotAdding
  /\ UNCHANGED sigset

(* A wrong version: the signal is unblocked, whatever it was before. *)
UnblocksSignal(mask, set) ==
  /\ SetsMask(blocked \ {adding.sig}, mode)
  /\ sigset' = set
  /\ adding' = NotAdding

(* The error path restores both masks; the signal may have arrived in the  *)
(* meantime.                                                               *)
RestoresMasks(mask, set) ==
  /\ SetsMask(mask, mode)
  /\ sigset' = set
  /\ adding' = NotAdding

(* There is a callback for the signal already: EEXIST. *)
AddSignalExists ==
  /\ AddingAt("blocked")
  /\ adding.sig \in handlers
  /\ RestoresMasks(adding.mask, adding.set)
  /\ callUnchanged
  /\ UNCHANGED <<ready, handlers, watched>>

AddSignalInstalls ==
  /\ AddingAt("blocked")
  /\ adding.sig \notin handlers
  /\ handlers' = handlers \cup {adding.sig}
  /\ adding' = [adding EXCEPT !.step = "installed"]
  /\ callUnchanged
  /\ UNCHANGED <<mode, ready, sigset, watched, blocked, pending>>

(* The mask of the signalfd cannot be changed: everything is undone. *)
AddSignalFails ==
  /\ AddingAt("installed")
  /\ "signalfd" \in Faults
  /\ handlers' = handlers \ {adding.sig}
  /\ RestoresMasks(adding.mask, adding.set)
  /\ callUnchanged
  /\ UNCHANGED <<ready, watched>>

(* The new mask of the signalfd wakes whoever waits for it. *)
AddSignalReturns ==
  /\ AddingAt("installed")
  /\ watched' = sigset
  /\ ready' = IF pending \cap sigset # {} THEN Wake(ready, SignalFd) ELSE ready
  /\ adding' = NotAdding
  /\ callUnchanged
  /\ UNCHANGED <<mode, handlers, sigset, blocked, pending>>

(* A wrong version: a timer is not closed. *)
RemoveLeavesOpen(s) ==
  /\ LibraryCall
  /\ s \in callbacks \ {SignalFd}
  /\ callbacks' = callbacks \ {s}
  /\ owned' = owned \ ({s} \cap Fds)
  /\ input' = input \ {s}
  /\ events' = EventsWithout(s)
  /\ UNCHANGED <<mode, ready, shouldQuit, retcode, current, idleVars, signalVars>>

(* pollen_loop_remove_callback of a descriptor or a timer: it leaves the   *)
(* epoll set and is closed if the loop has to.                             *)
RemoveSource(s) ==
  /\ LibraryCall
  /\ s \in callbacks \ {SignalFd}
  /\ callbacks' = callbacks \ {s}
  /\ owned' = owned \ {s}
  /\ input' = input \ (owned \cap {s})
  /\ events' = EventsWithout(s)
  /\ UNCHANGED <<mode, ready, shouldQuit, retcode, current, idleVars, signalVars>>

(* ... of an idle callback. *)
RemoveIdle(i) ==
  /\ LibraryCall
  /\ \E n \in DOMAIN idles : idles[n] = i /\ idles' = RemoveAt(idles, n)
  /\ upcoming' = IF upcoming = i THEN Freed ELSE upcoming
  /\ due' = due \ {i}
  /\ loopUnchanged
  /\ UNCHANGED <<callbacks, ready, ran, signalVars, input, owned>>

(* ... of a signal, which is unblocked.  When the mask of the signalfd     *)
(* cannot be changed, the code goes on.                                    *)
RemoveSignal(s) ==
  /\ LibraryCall
  /\ s \in handlers
  /\ sigset' = sigset \ {s}
  /\ watched' \in {sigset'} \cup {w \in {watched} : "signalfd" \in Faults}
  /\ SetsMask(blocked \ {s}, mode)
  /\ handlers' = handlers \ {s}
  /\ UNCHANGED <<callbacks, ready, events, shouldQuit, retcode, current, idleVars,
                 inherited, adding, input, owned>>

pollen_loop_quit(code) ==
  /\ LibraryCall
  /\ shouldQuit' = TRUE
  /\ retcode' = code
  /\ UNCHANGED <<mode, callbacks, ready, events, current, idleVars, signalVars, input, owned>>

-----------------------------------------------------------------------------
(* pollen_loop_run *)

(* It forgets about a quit that came before it. *)
pollen_loop_run ==
  /\ mode = "setup"
  /\ adding = NotAdding
  /\ shouldQuit' = FALSE
  /\ mode' = "wait"
  /\ UNCHANGED <<callbacks, ready, events, retcode, current, idleVars, signalVars, input,
                 owned, calls>>

Epoll ==
  /\ EpollDrop(Level) \/ EpollWait(Level)
  /\ UNCHANGED <<current, idleVars, signalVars, input, owned, calls>>

CallbackRuns(callback) ==
  /\ mode' = "handler"
  /\ current' = callback
  /\ UNCHANGED <<callbacks, ready, events, shouldQuit, retcode, owned, calls>>

(* A wrong version: the timer is not drained. *)
LeavesInput(s) ==
  /\ Dispatching(s)
  /\ CallbackRuns(s)
  /\ UNCHANGED <<idleVars, signalVars, input>>

(* The callback of a descriptor, which reads it, or of a timer, which the  *)
(* loop has drained before.                                                *)
DispatchSource(s) ==
  /\ Dispatching(s)
  /\ CallbackRuns(s)
  /\ input' = input \ {s}
  /\ UNCHANGED <<idleVars, signalVars>>

(* pollen_loop_run goes to out, from within a batch or between two.        *)
Stops(ret) ==
  /\ mode' = "cleanup"
  /\ retcode' = ret
  /\ events' = <<>>
  /\ current' = None
  /\ UNCHANGED <<callbacks, ready, shouldQuit, owned, calls>>

(* pollen_internal_signal_handler reads one signal, the kernel's choice    *)
(* being the one with the lowest number, and calls its callback; one that  *)
(* has no callback stops the loop.                                         *)
DispatchSignal(s) ==
  /\ Dispatching(SignalFd)
  /\ s \in pending \cap watched
  /\ \A t \in pending \cap watched : NumberOf[s] <= NumberOf[t]
  /\ pending' = pending \ {s}
  /\ IF s \in handlers THEN CallbackRuns(s) ELSE Stops(-1)
  /\ UNCHANGED <<idleVars, handlers, sigset, watched, blocked, inherited, adding, input>>

(* A wrong version: should_quit is not looked at. *)
NeverLooks == mode' = "wait"

(* The iteration of the loop is over. *)
IterationEnds == mode' = IF shouldQuit THEN "cleanup" ELSE "wait"

(* After the last event of a batch, the idle callbacks are gone through.   *)
EventDone ==
  /\ events' = Tail(events)
  /\ current' = None
  /\ IF Tail(events) # <<>>
     THEN mode' = "dispatch" /\ UNCHANGED idleVars
     ELSE IF idles = <<>>
     THEN IterationEnds /\ ran' = <<>> /\ due' = {} /\ UNCHANGED <<idles, upcoming>>
     ELSE /\ mode' = "idle"
          /\ upcoming' = Head(idles)
          /\ ran' = <<>>
          /\ due' = Range(idles)
          /\ UNCHANGED idles
  /\ UNCHANGED <<callbacks, ready, shouldQuit, retcode, signalVars, input, owned, calls>>

(* The read fails with EAGAIN, as a callback that ran before in the batch  *)
(* has unblocked a signal that is ignored.                                 *)
NoSignalToRead ==
  /\ Dispatching(SignalFd)
  /\ pending \cap watched = {}
  /\ EventDone

CallbackReturns0 ==
  /\ mode = "handler"
  /\ adding = NotAdding
  /\ current \notin Idles
  /\ EventDone

(* A wrong version: the iteration stops too early. *)
LastIsLeftOut(i) ==
  LET n == CHOOSE n \in DOMAIN idles : idles[n] = i
  IN  IF n + 1 >= Len(idles) THEN None ELSE idles[n + 1]

(* The callback after i in the list, or None. *)
NextIdle(i) ==
  LET n == CHOOSE n \in DOMAIN idles : idles[n] = i
  IN  IF n = Len(idles) THEN None ELSE idles[n + 1]

(* POLLEN_LL_FOR_EACH_SAFE reads the successor before the callback runs.   *)
DispatchIdle ==
  /\ mode = "idle"
  /\ upcoming # Freed
  /\ CallbackRuns(upcoming)
  /\ ran' = Append(ran, upcoming)
  /\ upcoming' = NextIdle(upcoming)
  /\ UNCHANGED <<idles, due, signalVars, input>>

IdleReturns0 ==
  /\ mode = "handler"
  /\ adding = NotAdding
  /\ current \in Idles
  /\ IF upcoming # None THEN mode' = "idle" ELSE IterationEnds
  /\ current' = None
  /\ UNCHANGED <<callbacks, ready, events, shouldQuit, retcode, idleVars, signalVars, input,
                 owned, calls>>

(* A callback returns a negative value. *)
CallbackFails ==
  /\ mode = "handler"
  /\ adding = NotAdding
  /\ Stops(-1)
  /\ UNCHANGED <<idleVars, signalVars, input>>

(* The batch or callback_tmp names a callback that has been freed. *)
ReadsFreed ==
  /\ \/ Dispatching(Freed)
     \/ mode = "idle" /\ upcoming = Freed
  /\ mode' = "undefined"
  /\ UNCHANGED <<callbacks, ready, events, shouldQuit, retcode, current, idleVars, signalVars,
                 input, owned, calls>>

(* epoll_wait fails. *)
EpollFails ==
  /\ mode = "wait"
  /\ "epoll_wait" \in Faults
  /\ Stops(-1)
  /\ UNCHANGED <<idleVars, signalVars, input>>

(* pollen_loop_cleanup removes all callbacks, first idle ones and signals, *)
(* which are unblocked.                                                    *)
pollen_loop_cleanup ==
  /\ mode = "cleanup"
  /\ SetsMask(blocked \ handlers, "exited")
  /\ idles' = <<>> /\ upcoming' = None /\ due' = {}
  /\ handlers' = {} /\ sigset' = {} /\ watched' = {}
  /\ callbacks' = {}
  /\ owned' = owned \ callbacks
  /\ UNCHANGED <<ready, events, shouldQuit, retcode, current, ran, inherited, adding, input,
                 calls>>

-----------------------------------------------------------------------------
(* The world: signals, and not those that are ignored on arrival *)

SignalArrives(s) ==
  /\ ~Ended
  /\ s \notin pending
  /\ s \in Ignored => s \in blocked
  /\ IF s \in blocked
     THEN /\ pending' = pending \cup {s}
          /\ ready' = IF s \in watched THEN Wake(ready, SignalFd) ELSE ready
          /\ UNCHANGED mode
     ELSE mode' = "killed" /\ UNCHANGED <<pending, ready>>
  /\ UNCHANGED <<callbacks, events, shouldQuit, retcode, current, idleVars, handlers, sigset,
                 watched, blocked, inherited, adding, input, owned, calls>>

(* Input for a descriptor, or the end of a timer's period.  A timer that   *)
(* expires again before it is dispatched is reported once.                 *)
InputArrives(s) ==
  /\ ~Ended
  /\ s \in callbacks \ input
  /\ input' = input \cup {s}
  /\ ready' = Wake(ready, s)
  /\ UNCHANGED <<mode, callbacks, events, shouldQuit, retcode, current, idleVars, signalVars,
                 owned, calls>>

-----------------------------------------------------------------------------
Program ==
  \/ \E s \in Fds \cup Timers : pollen_loop_add_source(s) \/ RemoveSource(s)
  \/ \E i \in Idles : pollen_loop_add_idle(i) \/ RemoveIdle(i)
  \/ \E s \in Sigs : AddSignalBegins(s) \/ RemoveSignal(s)
  \/ \E code \in {0, 1} : pollen_loop_quit(code)
  \/ CallbackFails

Loop ==
  \/ AddSignalExists
  \/ AddSignalInstalls
  \/ AddSignalReturns
  \/ pollen_loop_run
  \/ Epoll
  \/ \E s \in Fds \cup Timers : DispatchSource(s)
  \/ \E s \in Sigs : DispatchSignal(s)
  \/ NoSignalToRead
  \/ DispatchIdle
  \/ CallbackReturns0
  \/ IdleReturns0
  \/ ReadsFreed
  \/ pollen_loop_cleanup

(* System calls that fail: they may, but nothing makes them. *)
Failures == AddSignalFails \/ EpollFails

World ==
  \/ \E s \in Sigs : SignalArrives(s)
  \/ \E s \in Fds \cup Timers : InputArrives(s)

Sleeping ==
  /\ Ended \/ (mode = "wait" /\ Level = {})
  /\ UNCHANGED vars

Next == Program \/ Loop \/ Failures \/ World \/ Sleeping

Spec == Init /\ [][Next]_vars

(* The thread keeps running and callbacks return; no system call ever has  *)
(* to fail.                                                                *)
FairSpec == Spec /\ WF_vars(Loop)
=============================================================================
