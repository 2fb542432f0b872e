------------------------------- MODULE Pollen -------------------------------
(***************************************************************************)
(* The event loop of lib/pollen.h: one thread that asks epoll for a batch  *)
(* of ready file descriptors and runs the callback of each of them in      *)
(* turn.  The module holds the state of the loop and the operators that    *)
(* the handlers of the portal are composed with; it has no next-state      *)
(* relation of its own.                                                    *)
(*                                                                         *)
(* A source stands for a registered file descriptor and, at the same time, *)
(* for the struct pollen_callback that epoll_event.data.ptr points to:     *)
(* every descriptor is registered once and a callback never outlives its   *)
(* removal, so the two coincide.                                           *)
(***************************************************************************)
EXTENDS Integers, Sequences

CONSTANT MaxEvents    \* POLLEN_EPOLL_MAX_EVENTS

ASSUME MaxEventsAssumption == MaxEvents \in Nat \ {0}

VARIABLES
  mode,        \* where the loop is: see Modes
  callbacks,   \* sources whose callback is registered and not freed
  ready,       \* the kernel's epoll ready list, in the order of readiness
  events,      \* the part of the batch that has not been dispatched yet
  shouldQuit,  \* loop->should_quit
  retcode      \* loop->retcode

pollenVars == <<mode, callbacks, ready, events, shouldQuit, retcode>>

(***************************************************************************)
(* "wait": blocked in epoll_wait.  "dispatch": between two callbacks of a  *)
(* batch.  "handler": inside a callback whose work takes several steps.    *)
(* "cleanup": pollen_loop_run has returned, main is releasing everything.  *)
(* "exited", "crashed": the process is gone.                               *)
(***************************************************************************)
Modes == {"wait", "dispatch", "handler", "cleanup", "exited", "crashed"}

Alive == mode \notin {"exited", "crashed"}

-----------------------------------------------------------------------------
(* The ready list of epoll (the kernel's side of epoll_wait and epoll_ctl) *)

(* A descriptor that becomes ready is queued once, behind those that were  *)
(* ready before it.                                                        *)
Wake(list, s) == IF \E i \in 1..Len(list) : list[i] = s THEN list ELSE Append(list, s)

(* How many entries of the ready list one epoll_wait returns. *)
BatchLen == IF Len(ready) < MaxEvents THEN Len(ready) ELSE MaxEvents

(* An entry whose descriptor is no longer ready (drained, or removed) is   *)
(* dropped when epoll_wait comes to it.                                    *)
EpollDrop(level) ==
  /\ mode = "wait"
  /\ \E i \in 1..BatchLen :
       /\ ready[i] \notin level
       /\ \A j \in 1..(i - 1) : ready[j] \in level
       /\ ready' = SubSeq(ready, 1, i - 1) \o SubSeq(ready, i + 1, Len(ready))
  /\ UNCHANGED <<mode, callbacks, events, shouldQuit, retcode>>

(* A wrong version: edge triggered. *)
EpollWaitEdge(level) ==
  /\ mode = "wait"
  /\ ready # <<>>
  /\ \A i \in 1..BatchLen : ready[i] \in level
  /\ events' = SubSeq(ready, 1, BatchLen)
  /\ ready' = SubSeq(ready, BatchLen + 1, Len(ready))
  /\ mode' = "dispatch"
  /\ UNCHANGED <<callbacks, shouldQuit, retcode>>

(* epoll_wait returns at most MaxEvents ready descriptors, and, as they    *)
(* are level triggered, queues them again at the tail of the ready list.   *)
EpollWait(level) ==
  /\ mode = "wait"
  /\ ready # <<>>
  /\ \A i \in 1..BatchLen : ready[i] \in level
  /\ events' = SubSeq(ready, 1, BatchLen)
  /\ ready' = SubSeq(ready, BatchLen + 1, Len(ready)) \o SubSeq(ready, 1, BatchLen)
  /\ mode' = "dispatch"
  /\ UNCHANGED <<callbacks, shouldQuit, retcode>>

-----------------------------------------------------------------------------
(* The loop proper *)

PollenInit(sources) ==
  /\ mode = "wait"
  /\ callbacks = sources
  /\ ready = <<>>
  /\ events = <<>>
  /\ shouldQuit = FALSE
  /\ retcode = 0

(* The loop is about to run the callback of source s. *)
Dispatching(s) == mode = "dispatch" /\ Head(events) = s

(* A wrong version: should_quit is not looked at. *)
ReturnsToWait(ret, quit) ==
  /\ shouldQuit' = (shouldQuit \/ quit)
  /\ retcode' = IF ret < 0 THEN ret ELSE IF quit THEN 0 ELSE retcode
  /\ events' = IF ret < 0 THEN <<>> ELSE Tail(events)
  /\ mode' = IF ret < 0 THEN "cleanup"
             ELSE IF Tail(events) # <<>> THEN "dispatch" ELSE "wait"

(* The callback being dispatched returns ret, after having called          *)
(* pollen_loop_quit(loop, 0) if quit.  A negative value stops the loop at  *)
(* once; a quit only takes effect at the end of the batch.                 *)
CallbackReturns(ret, quit) ==
  /\ shouldQuit' = (shouldQuit \/ quit)
  /\ retcode' = IF ret < 0 THEN ret ELSE IF quit THEN 0 ELSE retcode
  /\ events' = IF ret < 0 THEN <<>> ELSE Tail(events)
  /\ mode' = IF ret < 0 THEN "cleanup"
             ELSE IF Tail(events) # <<>> THEN "dispatch"
             ELSE IF shouldQuit' THEN "cleanup" ELSE "wait"

(* The callback being dispatched goes on working in further steps. *)
CallbackContinues ==
  /\ mode' = "handler"
  /\ UNCHANGED <<events, shouldQuit, retcode>>

(* A wrong version: a descriptor that is ready already is not queued. *)
AddFdUnqueued(s, isReady) ==
  /\ callbacks' = callbacks \cup {s}
  /\ UNCHANGED ready

(* pollen_loop_add_fd: epoll_ctl(EPOLL_CTL_ADD) queues a descriptor that   *)
(* is ready already.                                                       *)
pollen_loop_add_fd(s, isReady) ==
  /\ callbacks' = callbacks \cup {s}
  /\ ready' = IF isReady THEN Wake(ready, s) ELSE ready
=============================================================================
