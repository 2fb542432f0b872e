------------------------------- MODULE Picker -------------------------------
(***************************************************************************)
(* The picker processes that src/picker.c starts and the pipes their       *)
(* output comes back through: one child and one pipe for each D-Bus call.  *)
(* The child's own program is external; what it may do to the pipe, to its *)
(* signal mask and to its life is left to choice.  What travels through    *)
(* the pipe is counted in selections: one path with its newline.           *)
(***************************************************************************)
EXTENDS Integers

CONSTANTS
  Calls,       \* D-Bus method calls; each starts at most one picker
  Pids,        \* process ids the kernel may hand out
  NoPid,       \* picker_pid before fork
  MaxLines,    \* bound: selections one picker writes
  Faults       \* which failures of system and library calls are considered

ASSUME PickerAssumption ==
  /\ NoPid \notin Pids
  /\ MaxLines \in Nat

VARIABLES
  proc,        \* state of the child process
  pid,         \* its process id
  grouped,     \* it has executed setpgid(0, 0)
  termPending, \* SIGTERM has been sent to it
  termBlocked, \* SIGTERM is blocked in its signal mask
  written,     \* selections it has written to fd 4
  pipe,        \* selections in the pipe
  wopen,       \* the child still holds the writing end
  ropen        \* the daemon holds the reading end

procVars == <<proc, pid, grouped, termPending, termBlocked>>
pipeVars == <<written, pipe, wopen, ropen>>
pickerVars == <<procVars, pipeVars>>

(* "forked": between fork and exec.  "running": the picker's program.      *)
(* "zombie": dead, not waited for.  "reaped": waited for, its pid is free. *)
ProcStates == {"none", "forked", "running", "zombie", "reaped"}

Living(c) == proc[c] \in {"forked", "running"}
Unreaped(c) == proc[c] \in {"forked", "running", "zombie"}

FreePids == Pids \ {pid[c] : c \in {d \in Calls : Unreaped(d)}}

(* read() on the pipe would not fail with EAGAIN: there is data or EOF. *)
Readable(c) == pipe[c] > 0 \/ ~wopen[c]

PickerInit ==
  /\ proc = [c \in Calls |-> "none"]
  /\ pid = [c \in Calls |-> NoPid]
  /\ grouped = [c \in Calls |-> FALSE]
  /\ termPending = [c \in Calls |-> FALSE]
  /\ termBlocked = [c \in Calls |-> FALSE]
  /\ written = [c \in Calls |-> 0]
  /\ pipe = [c \in Calls |-> 0]
  /\ wopen = [c \in Calls |-> FALSE]
  /\ ropen = [c \in Calls |-> FALSE]

-----------------------------------------------------------------------------
(* The daemon's side *)

(* exec_picker, in the parent, when everything succeeds.  The child        *)
(* inherits the signal mask, in which pollen_loop_add_signal has blocked   *)
(* SIGTERM, and nothing in the child unblocks it.                          *)
exec_picker(c) ==
  /\ \E p \in FreePids : pid' = [pid EXCEPT ![c] = p]
  /\ proc' = [proc EXCEPT ![c] = "forked"]
  /\ termBlocked' = [termBlocked EXCEPT ![c] = TRUE]
  /\ wopen' = [wopen EXCEPT ![c] = TRUE]
  /\ ropen' = [ropen EXCEPT ![c] = TRUE]
  /\ UNCHANGED <<grouped, termPending, written, pipe>>

(* exec_picker gives up: pipe, fcntl or fork failed, fork in particular    *)
(* when no process id is free.  Both ends of the pipe are closed again.    *)
exec_picker_fails == FreePids = {} \/ "exec" \in Faults

(* termPending after kill(-p, SIGTERM): it reaches the group whose leader  *)
(* has pid p, which exists once that child has called setpgid.             *)
TermAfterKill(p) ==
  [c \in Calls |-> termPending[c] \/ (Living(c) /\ grouped[c] /\ pid[c] = p)]

-----------------------------------------------------------------------------
(* The child's side *)

(* The child moves the writing end to fd 4, makes itself the leader of a   *)
(* process group (or only warns that it could not) and calls execlp.       *)
ChildStart(c) ==
  /\ proc[c] = "forked"
  /\ proc' = [proc EXCEPT ![c] = "running"]
  /\ \/ grouped' = [grouped EXCEPT ![c] = TRUE]
     \/ /\ "setpgid" \in Faults
        /\ UNCHANGED grouped
  /\ UNCHANGED <<pid, termPending, termBlocked, pipeVars>>

(* The picker's program writes one selection. *)
PickerWrite(c) ==
  /\ proc[c] = "running"
  /\ wopen[c]
  /\ ropen[c]
  /\ written[c] < MaxLines
  /\ written' = [written EXCEPT ![c] = @ + 1]
  /\ pipe' = [pipe EXCEPT ![c] = @ + 1]
  /\ UNCHANGED <<procVars, wopen, ropen>>

(* The picker's program closes fd 4 and goes on running. *)
PickerCloseOutput(c) ==
  /\ proc[c] = "running"
  /\ wopen[c]
  /\ wopen' = [wopen EXCEPT ![c] = FALSE]
  /\ UNCHANGED <<procVars, written, pipe, ropen>>

(* The picker's program resets its signal mask. *)
PickerUnblocksTerm(c) ==
  /\ proc[c] = "running"
  /\ termBlocked[c]
  /\ termBlocked' = [termBlocked EXCEPT ![c] = FALSE]
  /\ UNCHANGED <<proc, pid, grouped, termPending, pipeVars>>

(* The child is gone and its descriptors are closed; fate is "zombie", or  *)
(* "reaped" when the daemon is gone and init collects the child.           *)
ChildGone(c, fate) ==
  /\ proc' = [proc EXCEPT ![c] = fate]
  /\ wopen' = [wopen EXCEPT ![c] = FALSE]
  /\ UNCHANGED <<pid, grouped, termPending, termBlocked, written, pipe, ropen>>

(* It ends by itself: the user is done with the picker, or dup2 or execlp  *)
(* failed and the child has called exit(1).                                *)
ChildExit(c, fate) == Living(c) /\ ChildGone(c, fate)

(* It is killed by a SIGTERM that its mask lets through. *)
ChildTermDeath(c, fate) ==
  /\ Living(c)
  /\ termPending[c]
  /\ ~termBlocked[c]
  /\ ChildGone(c, fate)
=============================================================================
