------------------------------ MODULE IpcAdapter ------------------------------
(***************************************************************************)
(* The two ends of a channel (src/src/adapters/ipc.js): the calls made     *)
(* over the SpaceIpcAdapter in the host, the frames on the channel, and    *)
(* the DaemonIpcAdapter with the kernel (src/src/kernel.js) behind it.     *)
(* What the process does with the channel is in Daemon.                    *)
(*                                                                         *)
(* Node's channel keeps the order of frames.  The answers to one request   *)
(* have no effect on another, so that there is a wire for each.            *)
(***************************************************************************)
EXTENDS Naturals, Sequences

CONSTANTS
    Requests,       \* the calls of the host, each with its own id
    Streams,        \* those made with requestStream()
    NoRequest,
    Tools,
    MaxChunks       \* chunks the handler of a call emits, at most

VARIABLES
    call,           \* the promise as its caller sees it
    pending,        \* _pendingRequests; a timer runs for each entry
    draining,       \* streams that wait for their chunkChain
    chain,          \* chunks on the chunkChain
    busy,           \* streams whose onChunk has not settled
    heard,          \* history: chunks given to onChunk
    hostUp,         \* the host's adapter is started
    killed,         \* child.killed in the host
    toPeer,         \* frames to the process
    wire,           \* frames to the host
    listening,      \* the process's adapter is started
    work,           \* handlers the process has run
    said            \* history: chunks a handler has emitted

hostVars == <<call, pending, draining, chain, busy, heard, hostUp, killed>>
peerVars == <<listening, work, said>>
ipcVars == <<hostVars, toPeer, wire, peerVars>>

Promises == {"idle", "open", "value", "error", "timeout", "stopped"}
Frames == [op : {"init", "add", "remove", "request"},
           tools : SUBSET Tools, id : Requests \cup {NoRequest}]
Answers == [kind : {"partial", "result", "error"}, n : Nat]

RequestFrame(r) == [op |-> "request", tools |-> {}, id |-> r]

IpcTypeOK ==
    /\ call \in [Requests -> Promises]
    /\ pending \subseteq Requests
    /\ draining \subseteq Requests
    /\ chain \in [Requests -> Seq(Nat)]
    /\ busy \subseteq Requests
    /\ heard \in [Requests -> Seq(Nat)]
    /\ hostUp \in BOOLEAN
    /\ killed \in BOOLEAN
    /\ toPeer \in Seq(Frames)
    /\ wire \in [Requests -> Seq(Answers)]
    /\ listening \in BOOLEAN
    /\ work \in [Requests -> {"none", "running", "over"}]
    /\ said \in [Requests -> Nat]
    /\ \A r \in pending \cup draining : call[r] = "open"

IpcInit ==
    /\ call = [r \in Requests |-> "idle"]
    /\ pending = {}
    /\ draining = {}
    /\ chain = [r \in Requests |-> <<>>]
    /\ busy = {}
    /\ heard = [r \in Requests |-> <<>>]
    /\ hostUp = FALSE
    /\ killed = FALSE
    /\ toPeer = <<>>
    /\ wire = [r \in Requests |-> <<>>]
    /\ listening = FALSE
    /\ work = [r \in Requests |-> "none"]
    /\ said = [r \in Requests |-> 0]

-----------------------------------------------------------------------------
(* The host calls.  The entry and its timer exist before the frame is      *)
(* sent, and stay when it is not: a started adapter is not required, and   *)
(* _send() returns without a word when the child has been killed.          *)
SendRequest(r, gone) ==
    /\ call[r] = "idle"
    /\ call' = [call EXCEPT ![r] = "open"]
    /\ pending' = pending \cup {r}
    /\ toPeer' = IF killed \/ gone THEN toPeer ELSE Append(toPeer, RequestFrame(r))
    /\ UNCHANGED <<draining, chain, busy, heard, hostUp, killed, wire, peerVars>>

(* The entries whose frame may still settle them.                          *)
Awaited == IF hostUp THEN pending ELSE {}

(* The terminal frame of a stream: its promise waits for the chain.        *)
Terminal_NoDrain(r) ==
    call' = [call EXCEPT ![r] = "value"] /\ UNCHANGED draining
Terminal(r) ==
    IF r \in Streams
       THEN draining' = draining \cup {r} /\ UNCHANGED call
       ELSE call' = [call EXCEPT ![r] = "value"] /\ UNCHANGED draining

(* _handleResponse(): a frame for an unknown id is ignored; an error       *)
(* rejects at once, with chunks still on the chain; a plain caller drops   *)
(* the chunks of a handler that streams.                                   *)
HandleResponse(r) ==
    LET f == Head(wire[r]) IN
    /\ wire[r] # <<>>
    /\ wire' = [wire EXCEPT ![r] = SubSeq(@, 2, Len(@))]
    /\ \/ /\ r \notin Awaited
          /\ UNCHANGED <<call, pending, draining, chain>>
       \/ /\ r \in Awaited /\ f.kind = "error"
          /\ pending' = pending \ {r}
          /\ call' = [call EXCEPT ![r] = "error"]
          /\ UNCHANGED <<draining, chain>>
       \/ /\ r \in Awaited /\ f.kind = "partial"
          /\ chain' = IF r \in Streams THEN [chain EXCEPT ![r] = Append(@, f.n)] ELSE chain
          /\ UNCHANGED <<call, pending, draining>>
       \/ /\ r \in Awaited /\ f.kind = "result"
          /\ pending' = pending \ {r}
          /\ Terminal(r)
          /\ UNCHANGED chain
    /\ UNCHANGED <<busy, heard, hostUp, killed, toPeer, peerVars>>

(* The next chunk is given to onChunk.  The chain goes on after a timeout, *)
(* an error and a stop.                                                    *)
StartChunk(r) ==
    /\ r \notin busy
    /\ chain[r] # <<>>
    /\ heard' = [heard EXCEPT ![r] = Append(@, Head(chain[r]))]
    /\ chain' = [chain EXCEPT ![r] = SubSeq(@, 2, Len(@))]
    /\ busy' = busy \cup {r}
    /\ UNCHANGED <<call, pending, draining, hostUp, killed, toPeer, wire, peerVars>>

(* onChunk has returned, its promise has resolved or it threw.             *)
EndChunk(r) ==
    /\ r \in busy
    /\ busy' = busy \ {r}
    /\ UNCHANGED <<call, pending, draining, chain, heard, hostUp, killed, toPeer,
                   wire, peerVars>>

(* The chain of a finished stream is empty.                                *)
ChainEmpty(r) == chain[r] = <<>> /\ r \notin busy

Drained(r) ==
    /\ r \in draining
    /\ ChainEmpty(r)
    /\ draining' = draining \ {r}
    /\ call' = [call EXCEPT ![r] = "value"]
    /\ UNCHANGED <<pending, chain, busy, heard, hostUp, killed, toPeer, wire, peerVars>>

(* The timer of a call, or of the gap between two chunks.                  *)
TimeoutOf_KeepsEntry(r) == UNCHANGED pending
TimeoutOf(r) == pending' = pending \ {r}

Timeout(r) ==
    /\ r \in pending
    /\ TimeoutOf(r)
    /\ call' = [call EXCEPT ![r] = "timeout"]
    /\ UNCHANGED <<draining, chain, busy, heard, hostUp, killed, toPeer, wire, peerVars>>

(* The host stops its adapter.  A stream that drains is not in the map.    *)
Rejected_NoOne == {}
Rejected == pending

StopHost ==
    /\ hostUp
    /\ hostUp' = FALSE
    /\ call' = [r \in Requests |-> IF r \in Rejected THEN "stopped" ELSE call[r]]
    /\ pending' = {}
    /\ UNCHANGED <<draining, chain, busy, heard, killed, toPeer, wire, peerVars>>

-----------------------------------------------------------------------------
(* The process takes the frame of a request.  Without a started adapter    *)
(* nobody hears it.                                                        *)
TakeRequest(r) ==
    /\ work' = IF listening THEN [work EXCEPT ![r] = "running"] ELSE work
    /\ UNCHANGED <<hostVars, wire, listening, said>>

(* ctx.emitChunk().  The handler does not learn that its caller is gone.   *)
EmitChunk(r) ==
    /\ work[r] = "running"
    /\ said[r] < MaxChunks[r]
    /\ said' = [said EXCEPT ![r] = @ + 1]
    /\ wire' = [wire EXCEPT ![r] = Append(@, [kind |-> "partial", n |-> said[r] + 1])]
    /\ UNCHANGED <<hostVars, toPeer, listening, work>>

(* The handler returns or throws.  Whether the result is wrapped in        *)
(* done:true (a chunk was emitted) makes no difference to its reader.      *)
Answer(r, kind) ==
    /\ work[r] = "running"
    /\ work' = [work EXCEPT ![r] = "over"]
    /\ wire' = [wire EXCEPT ![r] = Append(@, [kind |-> kind, n |-> 0])]
    /\ UNCHANGED <<hostVars, toPeer, listening, said>>

(* The process is gone: its handlers with it, the frames to it, and what   *)
(* the pipe had not taken of the frames from it.                           *)
LosePeer ==
    /\ toPeer' = <<>>
    /\ \E kept \in [Requests -> {0} \cup UNION {DOMAIN wire[r] : r \in Requests}] :
          /\ \A r \in Requests : kept[r] <= Len(wire[r])
          /\ wire' = [r \in Requests |-> SubSeq(wire[r], 1, kept[r])]
    /\ listening' = FALSE
    /\ work' = [r \in Requests |-> IF work[r] = "running" THEN "over" ELSE work[r]]
    /\ UNCHANGED <<hostVars, said>>

-----------------------------------------------------------------------------
HostStep(r) ==
    HandleResponse(r) \/ StartChunk(r) \/ EndChunk(r) \/ Drained(r) \/ Timeout(r)

Promised == INSTANCE Settlement

(***************************************************************************)
(* Every call keeps the promise of Settlement: settled once, chunks in     *)
(* order and all of them before the value, whatever is lost, late or       *)
(* stopped in between.                                                     *)
(***************************************************************************)
ImplementsSettlement == Promised!Spec

=============================================================================
