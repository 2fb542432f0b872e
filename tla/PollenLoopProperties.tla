------------------------ MODULE PollenLoopProperties ------------------------
(***************************************************************************)
(* What the comments of lib/pollen.h promise to a program.                 *)
(***************************************************************************)
EXTENDS PollenLoop

Callbacks == Fds \cup Timers \cup Idles \cup Sigs

(* Every variable keeps its type, and the batch is used up exactly when    *)
(* the loop is not busy with it.                                           *)
EventTypes ==
  /\ mode \in LoopModes
  /\ callbacks \subseteq Fds \cup Timers \cup {SignalFd}
  /\ ready \in Seq(Fds \cup Timers \cup {SignalFd})
  /\ events \in Seq(Fds \cup Timers \cup {SignalFd, Freed})
  /\ current \in Callbacks \cup {None}
  /\ ~Ended => (events # <<>> <=> mode = "dispatch" \/ (mode = "handler" /\ current \notin Idles))

IdleTypes ==
  /\ idles \in Seq(Idles)
  /\ upcoming \in Idles \cup {None, Freed}
  /\ ran \in Seq(Idles)
  /\ mode = "idle" => upcoming # None

TypeOK == EventTypes /\ IdleTypes

(* Between two calls the loop's records of its signals agree, and what it  *)
(* watches is blocked, as otherwise a signal would kill the process; the   *)
(* process has no other signals blocked than it had before.  The error     *)
(* paths of pollen_loop_add_signal (lib/pollen.h:594) and                  *)
(* pollen_loop_cleanup keep to that.                                       *)
SignalsAgree ==
  adding = NotAdding /\ mode # "killed" =>
    /\ sigset = handlers
    /\ handlers \subseteq blocked \cap watched
    /\ blocked \subseteq inherited \cup handlers

(* No signal is read that has no callback, whatever was added, refused,    *)
(* removed and sent before; "signal received via signalfd has no callbacks *)
(* installed" (lib/pollen.h:322) is never logged.                          *)
NoOrphanSignal ==
  mode = "dispatch" => pending \cap watched \subseteq handlers

-----------------------------------------------------------------------------
(* The inductive invariant behind the two *)

(* The records of the signals H, when the process has mask blocked.  A     *)
(* signal that is still watched without a callback, because the signalfd   *)
(* could not be changed, is not blocked, so that it never is pending.      *)
Consistent(H, set, mask) ==
  /\ set = H
  /\ H \subseteq mask \cap watched
  /\ mask \subseteq inherited \cup H
  /\ watched \cap mask \subseteq H

(* A call to pollen_loop_add_signal can go back to where it began. *)
CanUndo ==
  LET H == handlers \ (IF adding.step = "installed" THEN {adding.sig} ELSE {})
  IN  /\ Consistent(H, adding.set, adding.mask)
      /\ adding.step = "installed" => adding.sig \notin adding.set
      /\ sigset = adding.set \cup {adding.sig}
      /\ blocked = adding.mask \cup {adding.sig}

SignalInv ==
  mode # "killed" =>
    /\ adding = NotAdding \/ adding.step \in {"blocked", "installed"}
    /\ adding.step = "installed" => adding.sig \in handlers
    /\ mode \in {"setup", "handler"} \/ adding = NotAdding
    /\ pending \subseteq blocked
    /\ IF adding = NotAdding THEN Consistent(handlers, sigset, blocked) ELSE CanUndo

-----------------------------------------------------------------------------

(* "Callbacks with higher priority will run before callbacks with lower    *)
(* priority" (lib/pollen.h:121), also when callbacks add and remove others *)
(* meanwhile, and none runs twice.                                         *)
IdlesRunInOrder ==
  \A m, n \in DOMAIN ran : m < n =>
    ran[m] # ran[n] /\ PriorityOf[ran[m]] >= PriorityOf[ran[n]]

(* The list is sorted, and the rest of the iteration, if there is one, has *)
(* nothing in it that has run: not even what was removed and added again.  *)
ListSorted ==
  \A m, n \in DOMAIN idles : m < n =>
    idles[m] # idles[n] /\ PriorityOf[idles[m]] >= PriorityOf[idles[n]]

(* Number p of the list comes next. *)
RestIsNew(p) ==
  /\ idles[p] = upcoming
  /\ \A m \in DOMAIN ran :
       /\ PriorityOf[ran[m]] >= PriorityOf[upcoming]
       /\ \A n \in p..Len(idles) : idles[n] # ran[m]

IdleInv ==
  /\ ListSorted
  /\ upcoming \in Idles => \E p \in DOMAIN idles : RestIsNew(p)
  /\ IdlesRunInOrder

(* Callback d comes in the rest of the iteration. *)
StillToRun(d) == \E p, k \in DOMAIN idles : p <= k /\ idles[p] = upcoming /\ idles[k] = d

(* What was in the list when the iteration began has run or comes in its   *)
(* rest, unless the iteration has lost its way.                            *)
DueInv ==
  /\ upcoming # Freed => \A d \in due : d \in Range(ran) \/ StillToRun(d)
  /\ mode \in {"setup", "wait", "dispatch"} \/ (mode = "handler" /\ current \notin Idles)
       => upcoming = None

LoopInv == TypeOK /\ SignalInv /\ IdleInv /\ DueInv

(* "Adds a callback that will run unconditionally on every event loop      *)
(* iteration" (lib/pollen.h:119): when the loop sleeps again, every idle   *)
(* callback has run that was there after the batch and was not removed.    *)
IdlesRunEveryTime == mode = "wait" => due \subseteq Range(ran)

(* The loop closes what it has to close: nothing it owns is left behind by *)
(* a removal or by pollen_loop_cleanup.                                    *)
NothingLeaks == owned \subseteq callbacks

(* A pending signal is taken by its callback or, if it is ignored by       *)
(* default, discarded when it has no callback any more: no failure or      *)
(* refusal in pollen_loop_add_signal, and no removal of another callback,  *)
(* lets one get lost that a callback still waits for.                      *)
SignalsNotSwallowed ==
  [][\A s \in Sigs : s \in pending /\ s \notin pending' =>
       \/ mode' = "handler" /\ current' = s
       \/ s \in Ignored /\ s \notin handlers' \cup blocked']_vars

(* A signal with a callback does reach it, whatever else keeps the loop    *)
(* busy, and also if it arrived while the callback was being added; only   *)
(* signals with lower numbers may come before it.                          *)
Served(s) == s \notin pending \cap handlers \/ ~Running

Preceded(s) == \E t \in pending : NumberOf[t] < NumberOf[s]

SignalIsServed ==
  \A s \in Sigs : ~Served(s) ~> (Served(s) \/ Preceded(s))

(* So does the expiration of a timer. *)
TimerIsServed ==
  \A t \in Timers : (Running /\ t \in input) ~> (t \notin input \/ ~Running)

(* A quit from a callback ends the loop. *)
QuitEndsLoop == (Running /\ shouldQuit) ~> ~Running
=============================================================================
