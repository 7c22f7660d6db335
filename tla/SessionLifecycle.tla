-------------------------- MODULE SessionLifecycle --------------------------
(***************************************************************************)
(* What the Supervisor of one agent promises about its conversation        *)
(* sessions, with no timers, events, ticks or database: a session is       *)
(* opened awake, at most one session is awake, an awake session can only   *)
(* fall drowsy, a drowsy one is woken or retires, a retired (dormant) one  *)
(* can only be archived.  Opening and waking hand the awake role over in   *)
(* one step: nobody ever sees two awake sessions.                          *)
(*                                                                         *)
(* The picture lives in the memory of the daemon process (the Map of       *)
(* SessionStateMachine), so a restart forgets it; the module Supervisor    *)
(* implements this one, and relates the picture to the persisted rows.     *)
(***************************************************************************)
CONSTANT Sessions

VARIABLE status   \* status[s], "none" when the process does not know s

Statuses == {"none", "awake", "drowsy", "dormant", "archived"}

\* The statuses after the session s became the awake one.
HandOver(s) ==
  [x \in Sessions |-> IF x = s THEN "awake"
                      ELSE IF status[x] = "awake" THEN "drowsy" ELSE status[x]]

Init == status = [s \in Sessions |-> "none"]

Open(s) ==
  /\ status[s] = "none"
  /\ status' = HandOver(s)

Wake(s) ==
  /\ status[s] = "drowsy"
  /\ status' = HandOver(s)

Doze(s) ==
  /\ status[s] = "awake"
  /\ status' = [status EXCEPT ![s] = "drowsy"]

Retire(s) ==
  /\ status[s] = "drowsy"
  /\ status' = [status EXCEPT ![s] = "dormant"]

Archive(s) ==
  /\ status[s] = "dormant"
  /\ status' = [status EXCEPT ![s] = "archived"]

Restart == status' = [s \in Sessions |-> "none"]

Next ==
  \/ \E s \in Sessions : Open(s) \/ Wake(s) \/ Doze(s) \/ Retire(s) \/ Archive(s)
  \/ Restart

Spec == Init /\ [][Next]_status

-----------------------------------------------------------------------------
\* The status map is well formed.
TypeOK == status \in [Sessions -> Statuses]

\* Two different sessions are never awake together, the first constraint in
\* the header of src/supervisor/session-state-machine.js.
AtMostOneAwake ==
  \A s, t \in Sessions : status[s] = "awake" /\ status[t] = "awake" => s = t
=============================================================================
