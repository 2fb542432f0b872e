------------------------- MODULE FileChooserService -------------------------
(***************************************************************************)
(* What the portal promises to the applications that call it, without the  *)
(* event loop, processes, pipes and signals that Filechooser does it with: *)
(* a call gets at most one answer, that reports paths the user has chosen, *)
(* and is only dismissed when it is withdrawn or the service stops.  What  *)
(* may go wrong otherwise is a parameter: with Failing = {}, nothing.      *)
(***************************************************************************)
EXTENDS Naturals

CONSTANTS
  Calls,
  Failing      \* "error": a picker may be given up with an error;
               \* "silence": an answer may get lost

VARIABLES
  serving,     \* the service runs
  status,      \* per call, see Status
  chosen,      \* per call: the number of paths the user has chosen
  withdrawn,   \* the calls that are no longer wanted
  answer       \* per call: the answer as a sequence, empty before it is given

serviceVars == <<serving, status, chosen, withdrawn, answer>>

Status == {"idle", "requested", "picking", "answered", "dismissed"}

Success(n) == [code |-> "success", uris |-> n]
Cancelled == [code |-> "cancelled", uris |-> 0]
Error == [code |-> "error", uris |-> 0]
Ended == [code |-> "ended", uris |-> 0]

Init ==
  /\ serving = TRUE
  /\ status = [c \in Calls |-> "idle"]
  /\ chosen = [c \in Calls |-> 0]
  /\ withdrawn = {}
  /\ answer = [c \in Calls |-> <<>>]

Move(c, from, to) == status[c] = from /\ status' = [status EXCEPT ![c] = to]

(* The application makes the call. *)
Request(c) ==
  /\ serving
  /\ Move(c, "idle", "requested")
  /\ UNCHANGED <<serving, chosen, withdrawn, answer>>

(* The service shows a picker, or answers with an error. *)
Begin(c) ==
  /\ serving
  /\ Move(c, "requested", "picking")
  /\ UNCHANGED <<serving, chosen, withdrawn, answer>>

Refuse(c) ==
  /\ serving
  /\ Move(c, "requested", "answered")
  /\ answer' = [answer EXCEPT ![c] = <<Error>>]
  /\ UNCHANGED <<serving, chosen, withdrawn>>

(* The user chooses one more path.  A picker that was closed or outlives   *)
(* the call may go on, to no effect.                                       *)
Choose(c) ==
  /\ status[c] \in {"picking", "answered", "dismissed"}
  /\ chosen' = [chosen EXCEPT ![c] = @ + 1]
  /\ UNCHANGED <<serving, status, withdrawn, answer>>

(* The call is answered with paths that were chosen. *)
Answer(c) ==
  /\ serving
  /\ Move(c, "picking", "answered")
  /\ \/ \E n \in 1..chosen[c] : answer' = [answer EXCEPT ![c] = <<Success(n)>>]
     \/ answer' = [answer EXCEPT ![c] = <<Cancelled>>]
  /\ UNCHANGED <<serving, chosen, withdrawn>>

(* The picker is given up, or what was chosen cannot be read. *)
Fail(c) ==
  /\ "error" \in Failing
  /\ serving
  /\ Move(c, "picking", "answered")
  /\ \E e \in {Error, Ended} : answer' = [answer EXCEPT ![c] = <<e>>]
  /\ UNCHANGED <<serving, chosen, withdrawn>>

(* The answer, whatever it was, does not reach the application. *)
Lose(c) ==
  /\ "silence" \in Failing
  /\ serving
  /\ \E from \in {"requested", "picking"} : Move(c, from, "dismissed")
  /\ UNCHANGED <<serving, chosen, withdrawn, answer>>

(* Applications close the requests of the calls D. *)
Withdraw(D) ==
  /\ serving
  /\ withdrawn' = withdrawn \cup D
  /\ UNCHANGED <<serving, status, chosen, answer>>

(* A call that is withdrawn while its picker runs gets no answer any more. *)
Dismiss(c) ==
  /\ serving
  /\ c \in withdrawn
  /\ Move(c, "picking", "dismissed")
  /\ UNCHANGED <<serving, chosen, withdrawn, answer>>

(* The service stops and dismisses what it was serving. *)
Stop ==
  /\ serving
  /\ serving' = FALSE
  /\ status' = [c \in Calls |-> IF status[c] = "picking" THEN "dismissed" ELSE status[c]]
  /\ UNCHANGED <<chosen, withdrawn, answer>>

Next ==
  \/ \E c \in Calls :
       \/ Request(c)
       \/ Begin(c)
       \/ Refuse(c)
       \/ Choose(c)
       \/ Answer(c)
       \/ Fail(c)
       \/ Lose(c)
       \/ Dismiss(c)
  \/ \E D \in SUBSET Calls : Withdraw(D)
  \/ Stop

Spec == Init /\ [][Next]_serviceVars
=============================================================================
