-------------------------- MODULE SuspensionLedger --------------------------
(***************************************************************************)
(* What the table tool_loop_suspensions promises to the host, without the  *)
(* calls that fill it: a ledger of suspensions, each settled once.         *)
(***************************************************************************)
CONSTANTS
  Entries,   \* suspension ids
  Answers,   \* envelopes a resumption can reply with
  NoAnswer,
  NoEntry

VARIABLES
  entry,   \* "free", "open", "settled" or "void"
  answer,  \* the envelope a settled entry was settled with
  heir     \* the entry that continues a settled one, if any

ledger == <<entry, answer, heir>>

Init ==
  /\ entry = [s \in Entries |-> "free"]
  /\ answer = [s \in Entries |-> NoAnswer]
  /\ heir = [s \in Entries |-> NoEntry]

\* A tool loop stops for an approval.
Open(s) ==
  /\ entry[s] = "free"
  /\ entry' = [entry EXCEPT ![s] = "open"]
  /\ UNCHANGED <<answer, heir>>

\* A resumption ends the loop.
Settle(s) ==
  /\ entry[s] = "open"
  /\ entry' = [entry EXCEPT ![s] = "settled"]
  /\ \E e \in Answers : answer' = [answer EXCEPT ![s] = e]
  /\ UNCHANGED heir

\* A resumption stops for another approval: at once the old entry is settled
\* and the new one opened, and the old one names the new one.
Continue(s, t) ==
  /\ entry[s] = "open" /\ entry[t] = "free"
  /\ entry' = [entry EXCEPT ![s] = "settled", ![t] = "open"]
  /\ \E e \in Answers : answer' = [answer EXCEPT ![s] = e]
  /\ heir' = [heir EXCEPT ![s] = t]

\* An entry, settled or not, is cancelled or expires; its answer stays.
Void(s) ==
  /\ entry[s] # "free"
  /\ entry' = [entry EXCEPT ![s] = "void"]
  /\ UNCHANGED <<answer, heir>>

Next ==
  \E s \in Entries :
    \/ Open(s)
    \/ Settle(s)
    \/ \E t \in Entries : Continue(s, t)
    \/ Void(s)

Spec == Init /\ [][Next]_ledger
=============================================================================
