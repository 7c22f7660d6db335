------------------------------ MODULE Settlement ------------------------------
(***************************************************************************)
(* What a caller of request() or requestStream() (src/src/adapters/ipc.js) *)
(* may rely on, whatever the process at the other end does: a call is      *)
(* settled once; a stream hears its chunks in the order they were said,    *)
(* each once; and when it is given its value it has heard all of them, and *)
(* hears nothing after it.  A call that failed may still hear chunks that  *)
(* had arrived before.                                                     *)
(***************************************************************************)
EXTENDS Naturals, Sequences

CONSTANTS Requests,     \* the calls
          Streams       \* those of them made with requestStream()

VARIABLES call, said, heard

Failures == {"error", "timeout", "stopped"}
Outcomes == {"value"} \cup Failures

Init ==
    /\ call = [r \in Requests |-> "idle"]
    /\ said = [r \in Requests |-> 0]
    /\ heard = [r \in Requests |-> <<>>]

Open(r) ==
    /\ call[r] = "idle"
    /\ call' = [call EXCEPT ![r] = "open"]
    /\ UNCHANGED <<said, heard>>

(* The handler says its next chunk, whether or not anyone still waits.     *)
Say(r) ==
    /\ call[r] \notin {"idle", "value"}
    /\ said' = [said EXCEPT ![r] = @ + 1]
    /\ UNCHANGED <<call, heard>>

(* The stream hears the first chunk it has not heard yet.                  *)
Hear(r) ==
    /\ r \in Streams
    /\ call[r] \notin {"idle", "value"}
    /\ Len(heard[r]) < said[r]
    /\ heard' = [heard EXCEPT ![r] = Append(@, Len(@) + 1)]
    /\ UNCHANGED <<call, said>>

Fulfil(r) ==
    /\ call[r] = "open"
    /\ r \in Streams => Len(heard[r]) = said[r]
    /\ call' = [call EXCEPT ![r] = "value"]
    /\ UNCHANGED <<said, heard>>

(* Several calls may fail at once, when the adapter is stopped.            *)
Fail(S, why) ==
    /\ \A r \in S : call[r] = "open"
    /\ call' = [r \in Requests |-> IF r \in S THEN why ELSE call[r]]
    /\ UNCHANGED <<said, heard>>

Next ==
    \/ \E r \in Requests : Open(r) \/ Say(r) \/ Hear(r) \/ Fulfil(r)
    \/ \E S \in SUBSET Requests, why \in Failures : Fail(S, why)

Spec == Init /\ [][Next]_<<call, said, heard>>

=============================================================================
