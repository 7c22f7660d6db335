-------------------------------- MODULE Lock --------------------------------
(***************************************************************************)
(* The promise-chain mutex of modules/thinkroid-memory/src/lock.js, which  *)
(* every writer of an agent's memory takes.  acquire() hangs a gate on the *)
(* tail of a chain of promises and waits for the tail it found, which      *)
(* resolves when all the gates hung before are open; release() opens the   *)
(* caller's own gate.  There is no list of waiters and no owner: who may   *)
(* enter follows from the gates alone.  withLock() releases once, also     *)
(* when its function throws.                                               *)
(***************************************************************************)
CONSTANT Tasks          \* the calls that use the lock

VARIABLES
    chain,      \* tasks whose gate hangs on the chain and is not open yet
    waits,      \* waits[t]: the closed gates that the tail t waits for stands for
    inside      \* tasks whose acquire() has resolved and that have not released

lockVars == <<chain, waits, inside>>

LockTypeOK ==
    /\ chain \subseteq Tasks
    /\ waits \in [Tasks -> SUBSET Tasks]
    /\ inside \subseteq Tasks

LockInit ==
    /\ chain = {}
    /\ waits = [t \in Tasks |-> {}]
    /\ inside = {}

(* The gates the tail stands for; and the mistake of counting only the     *)
(* holder's.                                                               *)
Gates_HolderOnly == inside
Gates == chain

(* acquire() up to its await: it hangs a gate behind the tail it found.    *)
Acquire(t) ==
    /\ t \notin chain
    /\ waits' = [waits EXCEPT ![t] = Gates]
    /\ chain' = chain \cup {t}
    /\ inside' = inside

(* The awaited tail has resolved.                                          *)
Enter(t) ==
    /\ t \in chain \ inside
    /\ waits[t] = {}
    /\ inside' = inside \cup {t}
    /\ UNCHANGED <<chain, waits>>

(* The finally block of withLock(): the gate of the holder opens, for all  *)
(* who wait for it.                                                        *)
Release(t) ==
    /\ t \in inside
    /\ chain' = chain \ {t}
    /\ inside' = inside \ {t}
    /\ waits' = [u \in Tasks |-> waits[u] \ {t}]

(* The process died: the next one constructs a new lock.                   *)
Renew ==
    /\ chain' = {}
    /\ waits' = [t \in Tasks |-> {}]
    /\ inside' = {}

LockNext ==
    \/ \E t \in Tasks : Acquire(t) \/ Enter(t) \/ Release(t)
    \/ Renew

LockSpec == LockInit /\ [][LockNext]_lockVars

(***************************************************************************)
(* At most one caller is between acquire() and release(): the chain of     *)
(* promises orders all who came, though nobody records an owner.           *)
(***************************************************************************)
MutualExclusion == \A t, u \in inside : t = u

=============================================================================
