----------------------------- MODULE DaemonProofs -----------------------------
(***************************************************************************)
(* The channel between a host and the process of an agent, for any number  *)
(* of calls, chunks, tools, forks and faults: every call is settled as     *)
(* Settlement promises, no tool and no relied-on request is lost, and the  *)
(* recovery sweep interrupts what it should and nothing else.              *)
(***************************************************************************)
EXTENDS Daemon, SequenceTheorems, TLAPS

(* The chunks a call has heard and those on its chain, and the frames that *)
(* are on their way to it.                                                 *)
Heard(r) == Len(heard[r])
Queued(r) == Len(chain[r])
OnWire(r) == Len(wire[r])

(* One call, from its promise to the handler.                              *)
PerCall(r) ==
    /\ call[r] = "idle" => work[r] = "none"
    /\ call[r] = "open" <=> r \in pending \cup draining
    /\ r \notin pending \/ r \notin draining
    /\ work[r] = "none" =>
          /\ said[r] = 0 /\ wire[r] = <<>> /\ heard[r] = <<>> /\ chain[r] = <<>>
          /\ r \notin draining /\ call[r] # "value"
    /\ call[r] = "value" => work[r] = "over" /\ chain[r] = <<>>
    /\ r \notin Streams => heard[r] = <<>> /\ chain[r] = <<>> /\ r \notin draining
    /\ \A i \in 1 .. Heard(r) : heard[r][i] = i
    /\ \A i \in 1 .. Queued(r) : chain[r][i] = Heard(r) + i
    /\ Heard(r) + Queued(r) <= said[r]
    /\ r \in draining => work[r] = "over" /\ Heard(r) + Queued(r) = said[r]

(* The frames that answer it: a stream that is still awaited will have     *)
(* heard every chunk once what is on the chain and on the wire arrives.    *)
PerWire(r) ==
    /\ \A i \in 1 .. OnWire(r) :
          /\ wire[r][i].kind = "partial" => wire[r][i].n <= said[r]
          /\ wire[r][i].kind # "partial" => work[r] = "over" /\ i = OnWire(r)
    /\ r \in pending /\ r \in Streams =>
          /\ \A i \in 1 .. OnWire(r) :
                /\ wire[r][i].kind = "partial" =>
                      wire[r][i].n = Heard(r) + Queued(r) + i
                /\ wire[r][i].kind = "result" =>
                      said[r] = Heard(r) + Queued(r) + i - 1
          /\ work[r] = "running" =>
                said[r] = Heard(r) + Queued(r) + OnWire(r)
    /\ r \in pending /\ ~hostUp => wire[r] = <<>>

CallInv == \A r \in Requests : PerCall(r) /\ PerWire(r)

(* A request is on its way at most once, and not again once it was taken.  *)
FrameInv ==
    /\ \A i \in 1 .. Len(toPeer) : toPeer[i].op = "request" =>
          /\ toPeer[i].id \in Requests
          /\ toPeer[i] = RequestFrame(toPeer[i].id)
          /\ call[toPeer[i].id] # "idle" /\ work[toPeer[i].id] = "none"
    /\ \A i, j \in 1 .. Len(toPeer) :
          toPeer[i].op = "request" /\ toPeer[j].op = "request" /\ toPeer[i].id = toPeer[j].id
             => i = j

Asked(r) == \E i \in 1 .. Len(toPeer) : toPeer[i] = RequestFrame(r)

(* The phases of the process and what goes with them.                      *)
PhaseInv ==
    /\ phase # "down" => hostUp
    /\ phase \notin {"serving", "draining"} => \A r \in Requests : work[r] # "running"
    /\ listening <=> phase = "serving"
    /\ readySeen => phase \notin {"waiting", "binding"}
    /\ phase \in {"waiting", "binding"} => relied = {}

ReliedInv == phase = "serving" => \A r \in relied : work[r] # "none" \/ Asked(r)

(* Rows in progress are of this life only while the process serves.        *)
RowInv ==
    \A x \in Rows : row[x] = "in_progress" =>
       /\ bornIn[x] <= lives
       /\ phase \in {"waiting", "binding"} => bornIn[x] < lives

DInv ==
    /\ TypeOK /\ CallInv /\ FrameInv /\ PhaseInv /\ ReliedInv /\ RowInv
    /\ StaleTurnsSwept /\ ToolsInStep

-----------------------------------------------------------------------------
\* A queue without its first element.
LEMMA DropFirst ==
    ASSUME NEW S, NEW s \in Seq(S), s # <<>>, NEW d, d = SubSeq(s, 2, Len(s))
    PROVE  /\ d \in Seq(S) /\ Len(d) = Len(s) - 1 /\ Len(s) \in Nat \ {0}
           /\ \A i \in 1 .. Len(d) : d[i] = s[i + 1] /\ i + 1 \in 1 .. Len(s)
           /\ Head(s) = s[1] /\ s[1] \in S /\ 1 \in 1 .. Len(s)
<1>1. Len(s) \in Nat \ {0} /\ \A i \in 1 .. Len(s) : s[i] \in S
  BY EmptySeq, LenProperties
<1>2. \A i \in 2 .. Len(s) : s[i] \in S
  BY <1>1
<1>3. /\ d \in Seq(S)
      /\ Len(d) = IF 2 <= Len(s) THEN Len(s) - 2 + 1 ELSE 0
      /\ \A i \in 1 .. Len(s) - 2 + 1 : d[i] = s[2 + i - 1]
  BY <1>1, <1>2, SubSeqProperties
<1>4. Len(d) = Len(s) - 1
  <2>1. ASSUME NEW n \in Nat \ {0} PROVE n = 1 \/ 2 <= n
    OBVIOUS
  <2>2. Len(s) = 1 \/ 2 <= Len(s)
    BY ONLY <1>1, <2>1
  <2> QED BY ONLY <1>1, <1>3, <2>2
<1>5. \A i \in 1 .. Len(d) : d[i] = s[i + 1] /\ i + 1 \in 1 .. Len(s)
  <2>1. TAKE i \in 1 .. Len(d)
  <2>2. i \in 1 .. Len(s) - 2 + 1 /\ 2 + i - 1 = i + 1
    BY <1>1, <1>4
  <2>3. d[i] = s[i + 1]
    BY <1>3, <2>2
  <2> QED BY <1>1, <2>2, <2>3
<1>6. Head(s) = s[1] /\ s[1] \in S /\ 1 \in 1 .. Len(s)
  BY <1>1
<1> QED BY <1>1, <1>3, <1>4, <1>5, <1>6

\* A prefix of a queue.
LEMMA Prefix ==
    ASSUME NEW S, NEW s \in Seq(S), NEW k \in Nat, k <= Len(s), NEW p, p = SubSeq(s, 1, k)
    PROVE  /\ p \in Seq(S) /\ Len(p) = k
           /\ \A i \in 1 .. Len(p) : p[i] = s[i] /\ i \in 1 .. Len(s)
<1>1. Len(s) \in Nat /\ \A i \in 1 .. Len(s) : s[i] \in S
  BY LenProperties
<1>2. \A i \in 1 .. k : s[i] \in S
  BY <1>1
<1>3. /\ p \in Seq(S)
      /\ Len(p) = IF 1 <= k THEN k - 1 + 1 ELSE 0
      /\ \A i \in 1 .. k - 1 + 1 : p[i] = s[1 + i - 1]
  BY <1>2, SubSeqProperties
<1>4. Len(p) = k
  BY <1>3
<1>5. \A i \in 1 .. Len(p) : p[i] = s[i] /\ i \in 1 .. Len(s)
  <2>1. TAKE i \in 1 .. Len(p)
  <2>2. i \in 1 .. k - 1 + 1 /\ 1 + i - 1 = i
    BY <1>4
  <2> QED BY <1>1, <1>3, <2>2
<1> QED BY <1>3, <1>4, <1>5

\* A queue with one more element.
LEMMA OneMore ==
    ASSUME NEW S, NEW s \in Seq(S), NEW e \in S, NEW a, a = Append(s, e)
    PROVE  /\ a \in Seq(S) /\ Len(a) = Len(s) + 1 /\ Len(s) \in Nat
           /\ \A i \in 1 .. Len(s) : a[i] = s[i] /\ i \in 1 .. Len(a)
           /\ a[Len(s) + 1] = e
           /\ \A i \in 1 .. Len(a) : i \in 1 .. Len(s) \/ i = Len(s) + 1
           /\ Len(s) + 1 \in 1 .. Len(a)
BY AppendProperties, LenProperties

-----------------------------------------------------------------------------
\* A call none of whose state changes.
LEMMA Untouched ==
    ASSUME NEW q \in Requests, PerCall(q), PerWire(q),
           UNCHANGED <<call[q], work[q], said[q], wire[q], heard[q], chain[q], hostUp>>,
           q \in pending' <=> q \in pending, q \in draining' <=> q \in draining
    PROVE  PerCall(q)' /\ PerWire(q)'
<1>1. Heard(q)' = Heard(q) /\ Queued(q)' = Queued(q) /\ OnWire(q)' = OnWire(q)
  BY DEF Heard, Queued, OnWire
<1>2. PerCall(q)'
  BY <1>1 DEF PerCall
<1>3. PerWire(q)'
  BY <1>1 DEF PerWire
<1> QED BY <1>2, <1>3

\* The last conjunct of the types follows from the calls.
LEMMA OpenCalls ==
    ASSUME CallInv, pending \subseteq Requests, draining \subseteq Requests
    PROVE  \A r \in pending \cup draining : call[r] = "open"
BY DEF CallInv, PerCall

\* A request is sent: nothing of the call was there before.
LEMMA SendKept ==
    ASSUME TypeOK, CallInv, NEW r \in Requests, NEW gone \in BOOLEAN, SendRequest(r, gone)
    PROVE  CallInv'
<1>1. /\ call[r] = "idle" /\ call' = [call EXCEPT ![r] = "open"] /\ pending' = pending \cup {r}
      /\ UNCHANGED <<draining, chain, busy, heard, hostUp, killed, wire, listening, work, said>>
  BY DEF SendRequest, peerVars
<1>2. ASSUME NEW q \in Requests, q # r PROVE PerCall(q)' /\ PerWire(q)'
  <2>1. call'[q] = call[q]
    BY <1>1, <1>2 DEF TypeOK, IpcTypeOK
  <2> QED BY <1>1, <1>2, <2>1, Untouched DEF CallInv
<1>3. PerCall(r)' /\ PerWire(r)'
  <2>1. PerCall(r) /\ PerWire(r) /\ call'[r] = "open"
    BY <1>1 DEF CallInv, TypeOK, IpcTypeOK
  <2>2. /\ work[r] = "none" /\ wire[r] = <<>> /\ r \notin draining
        /\ heard[r] = <<>> /\ chain[r] = <<>> /\ said[r] = 0
    BY <1>1, <2>1 DEF PerCall
  <2>3. Heard(r)' = 0 /\ Queued(r)' = 0 /\ OnWire(r)' = 0
    BY <1>1, <2>2 DEF Heard, Queued, OnWire
  <2>4. PerCall(r)'
    BY <1>1, <2>1, <2>2, <2>3 DEF PerCall
  <2>5. PerWire(r)'
    BY <1>1, <2>2, <2>3 DEF PerWire
  <2> QED BY <2>4, <2>5
<1> QED BY <1>2, <1>3 DEF CallInv

\* A frame of an answer arrives.
LEMMA ResponseKept ==
    ASSUME TypeOK, CallInv, NEW r \in Requests, HandleResponse(r)
    PROVE  CallInv' /\ IpcTypeOK'
<1> DEFINE f == Head(wire[r])
           rest == SubSeq(wire[r], 2, Len(wire[r]))
<1>1. /\ wire[r] # <<>> /\ wire' = [wire EXCEPT ![r] = rest]
      /\ UNCHANGED <<busy, heard, hostUp, killed, toPeer, listening, work, said>>
  BY DEF HandleResponse, peerVars
<1>2. wire[r] \in Seq(Answers) /\ wire' \in [Requests -> Seq(Answers)] /\ wire'[r] = rest
  <2>1. wire[r] \in Seq(Answers)
    BY DEF TypeOK, IpcTypeOK
  <2>2. rest \in Seq(Answers)
    BY <1>1, <2>1, DropFirst
  <2> QED BY <1>1, <2>1, <2>2 DEF TypeOK, IpcTypeOK
<1>3. /\ Len(rest) = Len(wire[r]) - 1 /\ Len(wire[r]) \in Nat \ {0}
      /\ \A i \in 1 .. Len(rest) : rest[i] = wire[r][i + 1] /\ i + 1 \in 1 .. Len(wire[r])
      /\ f = wire[r][1] /\ f \in Answers /\ 1 \in 1 .. Len(wire[r])
  <2>1. wire[r] # <<>> /\ wire[r] \in Seq(Answers)
    BY <1>1, <1>2
  <2> QED BY ONLY <2>1, DropFirst
<1> HIDE DEF f, rest
<1>4. /\ PerCall(r) /\ PerWire(r)
      /\ Heard(r) \in Nat /\ Queued(r) \in Nat /\ said[r] \in Nat
      /\ chain[r] \in Seq(Nat)
  BY LenProperties DEF CallInv, TypeOK, IpcTypeOK, Heard, Queued
<1>13. /\ Heard(r) \in Nat /\ Queued(r) \in Nat /\ said[r] \in Nat
       /\ Len(rest) \in Nat /\ OnWire(r) = Len(rest) + 1
       /\ OnWire(r) = Len(wire[r]) /\ OnWire(r)' = Len(rest)
       /\ Heard(r)' = Heard(r)
  BY <1>1, <1>2, <1>3, <1>4 DEF OnWire, Heard
<1>9. \A i \in 1 .. Len(rest) :
         /\ rest[i].kind = "partial" => rest[i].n <= said[r]
         /\ rest[i].kind # "partial" => work[r] = "over" /\ i = Len(rest)
  <2>1. TAKE i \in 1 .. Len(rest)
  <2>2. rest[i] = wire[r][i + 1] /\ i + 1 \in 1 .. OnWire(r)
    BY <1>3, <1>13
  <2>3. /\ wire[r][i + 1].kind = "partial" => wire[r][i + 1].n <= said[r]
        /\ wire[r][i + 1].kind # "partial" => work[r] = "over" /\ i + 1 = OnWire(r)
    BY <1>4, <2>2 DEF PerWire
  <2>4. i + 1 = OnWire(r) => i = Len(rest)
    BY <1>13
  <2> QED BY <2>2, <2>3, <2>4
<1>10. ASSUME r \in pending, r \in Streams
       PROVE  /\ \A i \in 1 .. Len(rest) :
                    /\ rest[i].kind = "partial" =>
                          rest[i].n = Heard(r) + Queued(r) + 1 + i
                    /\ rest[i].kind = "result" =>
                          said[r] = Heard(r) + Queued(r) + 1 + i - 1
              /\ work[r] = "running" =>
                    said[r] = Heard(r) + Queued(r) + 1 + Len(rest)
  <2>1. ASSUME NEW i \in 1 .. Len(rest)
        PROVE  /\ rest[i].kind = "partial" =>
                     rest[i].n = Heard(r) + Queued(r) + 1 + i
               /\ rest[i].kind = "result" =>
                     said[r] = Heard(r) + Queued(r) + 1 + i - 1
    <3>1. rest[i] = wire[r][i + 1] /\ i + 1 \in 1 .. OnWire(r)
      BY <1>3, <1>13
    <3>2. /\ wire[r][i + 1].kind = "partial" =>
                wire[r][i + 1].n = Heard(r) + Queued(r) + (i + 1)
          /\ wire[r][i + 1].kind = "result" =>
                said[r] = Heard(r) + Queued(r) + (i + 1) - 1
      BY <1>4, <1>10, <3>1 DEF PerWire
    <3>3. i \in Nat
      BY <1>13
    <3> QED BY ONLY <1>13, <3>1, <3>2, <3>3
  <2>2. work[r] = "running" => said[r] = Heard(r) + Queued(r) + OnWire(r)
    BY <1>4, <1>10 DEF PerWire
  <2>3. work[r] = "running" => said[r] = Heard(r) + Queued(r) + 1 + Len(rest)
    BY ONLY <1>13, <2>2
  <2> QED BY <2>1, <2>3
<1>14. /\ f.kind = "partial" => f.n <= said[r]
       /\ f.kind # "partial" => work[r] = "over"
       /\ r \in pending /\ r \in Streams =>
             /\ f.kind = "partial" => f.n = Heard(r) + Queued(r) + 1
             /\ f.kind = "result" => said[r] = Heard(r) + Queued(r) + 1 - 1
  <2>1. 1 \in 1 .. OnWire(r) /\ f = wire[r][1]
    BY <1>3, <1>13
  <2> QED BY <1>4, <2>1 DEF PerWire
<1>11. hostUp \/ r \notin pending
  BY <1>1, <1>4 DEF PerWire
<1>12. work[r] # "none"
  BY <1>1, <1>4 DEF PerCall
<1>5. CASE r \notin Awaited /\ UNCHANGED <<call, pending, draining, chain>>
  <2>1. r \notin pending
    BY <1>5, <1>11 DEF Awaited
  <2>q. Queued(r)' = Queued(r)
    BY <1>5 DEF Queued
  <2>2. PerCall(r)'
    BY <1>1, <1>4, <1>5, <1>12, <1>13, <2>q DEF PerCall
  <2>a. PerWire(r)'
    BY <1>1, <1>2, <1>5, <1>9, <1>13, <2>1 DEF PerWire
  <2>3. ASSUME NEW q \in Requests, q # r PROVE PerCall(q)' /\ PerWire(q)'
    BY <1>1, <1>5, <2>3, Untouched DEF CallInv, TypeOK, IpcTypeOK
  <2> QED BY <1>1, <1>2, <1>5, <2>2, <2>a, <2>3 DEF CallInv, TypeOK, IpcTypeOK
<1>6. CASE /\ r \in Awaited /\ f.kind = "error"
           /\ pending' = pending \ {r}
           /\ call' = [call EXCEPT ![r] = "error"]
           /\ UNCHANGED <<draining, chain>>
  <2>1. r \in pending /\ call'[r] = "error" /\ work[r] = "over"
    BY <1>6, <1>14 DEF Awaited, TypeOK, IpcTypeOK
  <2>q. Queued(r)' = Queued(r)
    BY <1>6 DEF Queued
  <2>2. PerCall(r)'
    BY <1>1, <1>4, <1>6, <1>12, <1>13, <2>1, <2>q DEF PerCall
  <2>a. PerWire(r)'
    BY <1>1, <1>2, <1>6, <1>9, <1>13 DEF PerWire
  <2>3. ASSUME NEW q \in Requests, q # r PROVE PerCall(q)' /\ PerWire(q)'
    BY <1>1, <1>6, <2>3, Untouched DEF CallInv, TypeOK, IpcTypeOK
  <2>4. CallInv'
    BY <2>2, <2>a, <2>3 DEF CallInv
  <2>5. call' \in [Requests -> Promises] /\ pending' \subseteq Requests /\ draining' \subseteq Requests
    BY <1>6 DEF TypeOK, IpcTypeOK, Promises
  <2>6. \A q \in pending' \cup draining' : call'[q] = "open"
    BY <2>4, <2>5 DEF CallInv, PerCall
  <2> QED BY <1>1, <1>2, <1>6, <2>4, <2>5, <2>6 DEF TypeOK, IpcTypeOK
<1>7. CASE /\ r \in Awaited /\ f.kind = "partial"
           /\ chain' = IF r \in Streams THEN [chain EXCEPT ![r] = Append(@, f.n)] ELSE chain
           /\ UNCHANGED <<call, pending, draining>>
  <2>1. r \in pending /\ work[r] # "none" /\ call[r] # "value" /\ r \notin draining
    BY <1>1, <1>4, <1>7 DEF Awaited, PerCall
  <2>2. CASE r \notin Streams
    <3>q. Queued(r)' = Queued(r)
      BY <1>7, <2>2 DEF Queued
    <3>1. PerCall(r)'
      BY <1>1, <1>4, <1>7, <1>12, <1>13, <2>2, <3>q DEF PerCall
    <3>a. PerWire(r)'
      BY <1>1, <1>2, <1>7, <1>9, <1>11, <1>13, <2>1, <2>2 DEF PerWire
    <3>2. ASSUME NEW q \in Requests, q # r PROVE PerCall(q)' /\ PerWire(q)'
      BY <1>1, <1>7, <2>2, <3>2, Untouched DEF CallInv, TypeOK, IpcTypeOK
    <3> QED BY <1>1, <1>2, <1>7, <2>2, <3>1, <3>a, <3>2 DEF CallInv, TypeOK, IpcTypeOK
  <2>3. CASE r \in Streams
    <3>1. f.n \in Nat /\ f.n = Heard(r) + Queued(r) + 1 /\ f.n <= said[r]
      BY <1>3, <1>7, <1>14, <2>1, <2>3 DEF Answers
    <3>2. chain' = [chain EXCEPT ![r] = Append(chain[r], f.n)] /\ chain'[r] = Append(chain[r], f.n)
      BY <1>7, <2>3 DEF TypeOK, IpcTypeOK
    <3>3. /\ chain'[r] \in Seq(Nat) /\ Queued(r)' = Queued(r) + 1
          /\ \A i \in 1 .. Queued(r) : chain'[r][i] = chain[r][i]
          /\ chain'[r][Queued(r) + 1] = f.n
          /\ \A i \in 1 .. Queued(r)' : i \in 1 .. Queued(r) \/ i = Queued(r) + 1
      <4>1. chain[r] \in Seq(Nat) /\ f.n \in Nat
        BY <1>4, <3>1
      <4>2. \A a : a = Append(chain[r], f.n) =>
               /\ a \in Seq(Nat) /\ Len(a) = Queued(r) + 1
               /\ \A i \in 1 .. Queued(r) : a[i] = chain[r][i]
               /\ a[Queued(r) + 1] = f.n
               /\ \A i \in 1 .. Len(a) : i \in 1 .. Queued(r) \/ i = Queued(r) + 1
        BY ONLY <4>1, OneMore DEF Queued
      <4> QED BY ONLY <3>2, <4>2 DEF Queued
    <3>b. \A i \in 1 .. Queued(r)' : chain'[r][i] = Heard(r) + i
      <4>1. TAKE i \in 1 .. Queued(r)'
      <4>2. CASE i \in 1 .. Queued(r)
        BY <1>4, <3>3, <4>2 DEF PerCall
      <4>3. CASE i = Queued(r) + 1
        BY ONLY <1>13, <3>1, <3>3, <4>3
      <4> QED BY <3>3, <4>2, <4>3
    <3>4. PerCall(r)'
      <4>1. Heard(r) + Queued(r)' <= said[r]
        BY ONLY <1>13, <3>1, <3>3
      <4> QED BY <1>1, <1>4, <1>7, <1>12, <1>13, <2>1, <2>3, <3>b, <4>1 DEF PerCall
    <3>5. PerWire(r)'
      <4>1. Heard(r) + Queued(r)' = Heard(r) + Queued(r) + 1
        BY ONLY <1>13, <3>3
      <4> QED BY <1>1, <1>2, <1>7, <1>9, <1>10, <1>11, <1>13, <2>1, <2>3, <4>1 DEF PerWire
    <3>6. ASSUME NEW q \in Requests, q # r PROVE PerCall(q)' /\ PerWire(q)'
      BY <1>1, <1>7, <3>2, <3>6, Untouched DEF CallInv, TypeOK, IpcTypeOK
    <3>7. chain' \in [Requests -> Seq(Nat)]
      BY <3>2, <3>3 DEF TypeOK, IpcTypeOK
    <3> QED BY <1>1, <1>2, <1>7, <3>4, <3>5, <3>6, <3>7 DEF CallInv, TypeOK, IpcTypeOK
  <2> QED BY <2>2, <2>3
<1>8. CASE /\ r \in Awaited /\ f.kind = "result"
           /\ pending' = pending \ {r} /\ Terminal(r) /\ UNCHANGED chain
  <2>1. r \in pending /\ work[r] = "over" /\ call[r] = "open" /\ r \notin draining
    BY <1>4, <1>8, <1>14 DEF Awaited, PerCall
  <2>2. r \in Streams => said[r] = Heard(r) + Queued(r)
    <3>1. r \in Streams => said[r] = Heard(r) + Queued(r) + 1 - 1
      BY <1>8, <1>14, <2>1
    <3> QED BY ONLY <1>13, <3>1
  <2>3. \/ r \in Streams /\ draining' = draining \cup {r} /\ UNCHANGED call
        \/ r \notin Streams /\ call' = [call EXCEPT ![r] = "value"] /\ UNCHANGED draining
    BY <1>8 DEF Terminal
  <2>q. Queued(r)' = Queued(r)
    BY <1>8 DEF Queued
  <2>4. PerCall(r)'
    BY <1>1, <1>2, <1>4, <1>8, <1>13, <2>1, <2>2, <2>3, <2>q DEF PerCall, TypeOK, IpcTypeOK
  <2>5. PerWire(r)'
    BY <1>1, <1>2, <1>8, <1>9, <1>13 DEF PerWire
  <2>6. ASSUME NEW q \in Requests, q # r PROVE PerCall(q)' /\ PerWire(q)'
    BY <1>1, <1>8, <2>3, <2>6, Untouched DEF CallInv, TypeOK, IpcTypeOK
  <2>7. CallInv'
    BY <2>4, <2>5, <2>6 DEF CallInv
  <2>8. call' \in [Requests -> Promises] /\ pending' \subseteq Requests /\ draining' \subseteq Requests
    BY <1>8, <2>3 DEF TypeOK, IpcTypeOK, Promises
  <2>9. \A q \in pending' \cup draining' : call'[q] = "open"
    BY <2>7, <2>8 DEF CallInv, PerCall
  <2> QED BY <1>1, <1>2, <1>8, <2>7, <2>8, <2>9 DEF TypeOK, IpcTypeOK
<1> QED BY <1>5, <1>6, <1>7, <1>8 DEF HandleResponse, f

\* A chunk goes from the chain to its reader.
LEMMA ChunkKept ==
    ASSUME TypeOK, CallInv, NEW r \in Requests, StartChunk(r)
    PROVE  CallInv' /\ IpcTypeOK'
<1> DEFINE rest == SubSeq(chain[r], 2, Len(chain[r]))
           more == Append(heard[r], Head(chain[r]))
<1>1. /\ chain[r] # <<>> /\ chain' = [chain EXCEPT ![r] = rest]
      /\ heard' = [heard EXCEPT ![r] = more] /\ busy' = busy \cup {r}
      /\ UNCHANGED <<call, pending, draining, hostUp, killed, toPeer, wire, listening, work, said>>
  BY DEF StartChunk, peerVars
<1>2. chain[r] \in Seq(Nat) /\ heard[r] \in Seq(Nat)
  BY DEF TypeOK, IpcTypeOK
<1>3. /\ rest \in Seq(Nat) /\ Len(rest) = Len(chain[r]) - 1 /\ Len(chain[r]) \in Nat \ {0}
      /\ \A i \in 1 .. Len(rest) : rest[i] = chain[r][i + 1] /\ i + 1 \in 1 .. Len(chain[r])
      /\ Head(chain[r]) = chain[r][1] /\ chain[r][1] \in Nat /\ 1 \in 1 .. Len(chain[r])
  <2>1. chain[r] # <<>> /\ chain[r] \in Seq(Nat)
    BY <1>1, <1>2
  <2> QED BY ONLY <2>1, DropFirst
<1>4. /\ more \in Seq(Nat) /\ Len(more) = Len(heard[r]) + 1 /\ Len(heard[r]) \in Nat
      /\ \A i \in 1 .. Len(heard[r]) : more[i] = heard[r][i]
      /\ more[Len(heard[r]) + 1] = Head(chain[r])
      /\ \A i \in 1 .. Len(more) : i \in 1 .. Len(heard[r]) \/ i = Len(heard[r]) + 1
  BY <1>2, <1>3, OneMore
<1> HIDE DEF rest, more
<1>5. chain'[r] = rest /\ heard'[r] = more
  BY <1>1 DEF TypeOK, IpcTypeOK
<1>6. /\ Heard(r) \in Nat /\ Queued(r) \in Nat \ {0} /\ said[r] \in Nat /\ OnWire(r)' = OnWire(r)
      /\ Heard(r)' = Heard(r) + 1 /\ Queued(r)' + 1 = Queued(r) /\ Queued(r)' \in Nat
      /\ Heard(r) = Len(heard[r]) /\ Queued(r) = Len(chain[r]) /\ Queued(r)' = Len(rest)
      /\ Heard(r)' = Len(more)
  BY <1>1, <1>3, <1>4, <1>5 DEF Heard, Queued, OnWire, TypeOK, IpcTypeOK
<1>7. PerCall(r) /\ PerWire(r)
  BY DEF CallInv
<1>a. /\ Heard(r) \in Nat /\ Queued(r) \in Nat /\ Queued(r)' \in Nat
      /\ Heard(r)' = Heard(r) + 1 /\ Queued(r) = Queued(r)' + 1
  BY <1>6
<1>8. Heard(r)' + Queued(r)' = Heard(r) + Queued(r)
  BY ONLY <1>a
<1>9. \A i \in 1 .. Heard(r)' : heard'[r][i] = i
  <2>1. TAKE i \in 1 .. Heard(r)'
  <2>2. CASE i \in 1 .. Heard(r)
    BY <1>4, <1>5, <1>6, <1>7, <2>2 DEF PerCall
  <2>3. CASE i = Heard(r) + 1
    <3>1. chain[r][1] = Heard(r) + 1
      BY <1>3, <1>6, <1>7 DEF PerCall
    <3> QED BY <1>3, <1>4, <1>5, <1>6, <2>3, <3>1
  <2> QED BY <1>4, <1>6, <2>2, <2>3
<1>10. \A i \in 1 .. Queued(r)' : chain'[r][i] = Heard(r)' + i
  <2>1. TAKE i \in 1 .. Queued(r)'
  <2>2. rest[i] = chain[r][i + 1] /\ i + 1 \in 1 .. Queued(r) /\ i \in Nat
    <3>1. i \in Nat /\ i + 1 \in 1 .. Queued(r)
      BY ONLY <1>a
    <3> QED BY <1>3, <1>6, <3>1
  <2>3. chain[r][i + 1] = Heard(r) + (i + 1)
    BY <1>7, <2>2 DEF PerCall
  <2>4. Heard(r) + (i + 1) = Heard(r)' + i
    BY ONLY <1>a, <2>2
  <2> QED BY <1>5, <2>2, <2>3, <2>4
<1>11. PerCall(r)'
  <2>1. r \in Streams /\ work[r] # "none" /\ call[r] # "value"
    BY <1>1, <1>7 DEF PerCall
  <2> QED BY <1>1, <1>7, <1>8, <1>9, <1>10, <2>1 DEF PerCall
<1>12. PerWire(r)'
  BY <1>1, <1>6, <1>7, <1>8 DEF PerWire
<1>13. ASSUME NEW q \in Requests, q # r PROVE PerCall(q)' /\ PerWire(q)'
  BY <1>1, <1>13, Untouched DEF CallInv, TypeOK, IpcTypeOK
<1>14. IpcTypeOK'
  BY <1>1, <1>3, <1>4, <1>5 DEF TypeOK, IpcTypeOK
<1> QED BY <1>11, <1>12, <1>13, <1>14 DEF CallInv

\* A reader is done, the chain of a stream has run out, a timer fires, the
\* host's adapter stops.
LEMMA HostKept ==
    ASSUME TypeOK, CallInv,
           \/ \E r \in Requests : EndChunk(r) \/ Drained(r) \/ Timeout(r)
           \/ StopHost
    PROVE  CallInv' /\ IpcTypeOK'
<1>1. UNCHANGED <<chain, heard, killed, toPeer, wire, listening, work, said>>
  BY DEF EndChunk, Drained, Timeout, StopHost, peerVars
<1>2. \A q : Heard(q)' = Heard(q) /\ Queued(q)' = Queued(q) /\ OnWire(q)' = OnWire(q)
  BY <1>1 DEF Heard, Queued, OnWire
<1>3. /\ busy' \subseteq Requests /\ hostUp' \in BOOLEAN
      /\ call' \in [Requests -> Promises] /\ pending' \subseteq Requests
      /\ draining' \subseteq Requests
  BY DEF EndChunk, Drained, Timeout, TimeoutOf, StopHost, Rejected, TypeOK, IpcTypeOK, Promises
<1>4. CallInv'
  <2>1. ASSUME NEW q \in Requests PROVE PerCall(q)' /\ PerWire(q)'
    <3>1. PerCall(q) /\ PerWire(q)
      BY DEF CallInv
    <3>2. CASE \E r \in Requests : EndChunk(r)
      <4>1. UNCHANGED <<call, pending, draining, hostUp>>
        BY <3>2 DEF EndChunk
      <4> QED BY <1>1, <3>1, <4>1, Untouched
    <3>3. ASSUME NEW r \in Requests, Drained(r) PROVE PerCall(q)' /\ PerWire(q)'
      <4>1. /\ r \in draining /\ chain[r] = <<>> /\ draining' = draining \ {r}
            /\ call' = [call EXCEPT ![r] = "value"] /\ UNCHANGED <<pending, hostUp>>
        BY <3>3 DEF Drained, ChainEmpty
      <4>2. CASE q = r
        <5>1. call'[q] = "value" /\ q \notin pending /\ work[q] = "over"
          BY <3>1, <4>1, <4>2 DEF PerCall, TypeOK, IpcTypeOK
        <5> QED BY <1>1, <1>2, <3>1, <4>1, <4>2, <5>1 DEF PerCall, PerWire
      <4>3. CASE q # r
        BY <1>1, <3>1, <4>1, <4>3, Untouched DEF TypeOK, IpcTypeOK
      <4> QED BY <4>2, <4>3
    <3>4. ASSUME NEW r \in Requests, Timeout(r) PROVE PerCall(q)' /\ PerWire(q)'
      <4>1. /\ r \in pending /\ pending' = pending \ {r}
            /\ call' = [call EXCEPT ![r] = "timeout"] /\ UNCHANGED <<draining, hostUp>>
        BY <3>4 DEF Timeout, TimeoutOf
      <4>2. CASE q = r
        <5>1. call'[q] = "timeout" /\ q \notin draining
          BY <3>1, <4>1, <4>2 DEF PerCall, TypeOK, IpcTypeOK
        <5> QED BY <1>1, <1>2, <3>1, <4>1, <4>2, <5>1 DEF PerCall, PerWire
      <4>3. CASE q # r
        BY <1>1, <3>1, <4>1, <4>3, Untouched DEF TypeOK, IpcTypeOK
      <4> QED BY <4>2, <4>3
    <3>5. CASE StopHost
      <4>1. /\ call' = [c \in Requests |-> IF c \in pending THEN "stopped" ELSE call[c]]
            /\ pending' = {} /\ UNCHANGED draining
        BY <3>5 DEF StopHost, Rejected
      <4>2. call'[q] = IF q \in pending THEN "stopped" ELSE call[q]
        BY <4>1
      <4>3. PerCall(q)'
        BY <1>1, <1>2, <3>1, <4>1, <4>2 DEF PerCall
      <4>4. PerWire(q)'
        BY <1>1, <1>2, <3>1, <4>1 DEF PerWire
      <4> QED BY <4>3, <4>4
    <3> QED BY <3>2, <3>3, <3>4, <3>5
  <2> QED BY <2>1 DEF CallInv
<1>5. \A q \in pending' \cup draining' : call'[q] = "open"
  BY <1>3, <1>4 DEF CallInv, PerCall
<1> QED BY <1>1, <1>3, <1>4, <1>5 DEF TypeOK, IpcTypeOK

\* A handler emits a chunk or answers.
LEMMA HandlerKept ==
    ASSUME TypeOK, CallInv, NEW r \in Requests, PhaseInv,
           EmitChunk(r) \/ \E kind \in {"result", "error"} : Answer(r, kind)
    PROVE  CallInv' /\ IpcTypeOK'
<1>1. PICK e \in Answers :
        /\ work[r] = "running" /\ wire' = [wire EXCEPT ![r] = Append(wire[r], e)]
        /\ UNCHANGED <<call, pending, draining, chain, busy, heard, hostUp, killed, toPeer, listening>>
        /\ \/ /\ e.kind = "partial" /\ e.n = said[r] + 1
              /\ said' = [said EXCEPT ![r] = said[r] + 1] /\ UNCHANGED work
           \/ /\ e.kind # "partial" /\ work' = [work EXCEPT ![r] = "over"]
              /\ UNCHANGED said
  <2>1. said[r] \in Nat
    BY DEF TypeOK, IpcTypeOK
  <2>2. CASE EmitChunk(r)
    <3>1. [kind |-> "partial", n |-> said[r] + 1] \in Answers
      BY <2>1 DEF Answers
    <3> QED BY <2>2, <3>1 DEF EmitChunk, hostVars
  <2>3. ASSUME NEW kind \in {"result", "error"}, Answer(r, kind)
        PROVE  /\ [kind |-> kind, n |-> 0] \in Answers /\ kind # "partial"
               /\ work[r] = "running"
               /\ wire' = [wire EXCEPT ![r] = Append(wire[r], [kind |-> kind, n |-> 0])]
               /\ work' = [work EXCEPT ![r] = "over"] /\ UNCHANGED said
               /\ UNCHANGED <<call, pending, draining, chain, busy, heard, hostUp, killed,
                              toPeer, listening>>
    BY <2>3 DEF Answer, Answers, hostVars
  <2> QED BY <2>2, <2>3
<1> DEFINE more == Append(wire[r], e)
<1>2. /\ more \in Seq(Answers) /\ Len(more) = Len(wire[r]) + 1 /\ Len(wire[r]) \in Nat
      /\ \A i \in 1 .. Len(wire[r]) : more[i] = wire[r][i]
      /\ more[Len(wire[r]) + 1] = e
      /\ \A i \in 1 .. Len(more) : i \in 1 .. Len(wire[r]) \/ i = Len(wire[r]) + 1
  <2>1. wire[r] \in Seq(Answers)
    BY DEF TypeOK, IpcTypeOK
  <2> QED BY <2>1, OneMore
<1> HIDE DEF more
<1>3. wire'[r] = more /\ wire' = [wire EXCEPT ![r] = more]
  BY <1>1 DEF TypeOK, IpcTypeOK, more
<1>4. /\ OnWire(r) = Len(wire[r]) /\ OnWire(r)' = OnWire(r) + 1 /\ OnWire(r) \in Nat
      /\ OnWire(r)' = Len(more)
      /\ Heard(r)' = Heard(r) /\ Queued(r)' = Queued(r) /\ Heard(r) \in Nat /\ Queued(r) \in Nat
      /\ said[r] \in Nat
  BY <1>1, <1>2, <1>3, LenProperties DEF OnWire, Heard, Queued, TypeOK, IpcTypeOK
<1>5. PerCall(r) /\ PerWire(r)
  BY DEF CallInv
<1>6. \A i \in 1 .. OnWire(r) : wire[r][i].kind = "partial"
  BY <1>1, <1>5 DEF PerWire
<1>7. hostUp
  BY <1>1 DEF PhaseInv
<1>8. \/ e.kind = "partial" /\ said'[r] = said[r] + 1 /\ work'[r] = "running" /\ e.n = said[r] + 1
      \/ e.kind # "partial" /\ work'[r] = "over" /\ said'[r] = said[r]
  BY <1>1 DEF TypeOK, IpcTypeOK
<1>9. said'[r] \in Nat /\ said[r] <= said'[r]
  BY <1>4, <1>8
<1>10. PerCall(r)'
  <2>1. Heard(r) + Queued(r) <= said'[r]
    <3>1. Heard(r) + Queued(r) <= said[r]
      BY <1>5 DEF PerCall
    <3> QED BY ONLY <1>4, <1>9, <3>1
  <2>2. r \notin draining /\ call[r] # "value" /\ call[r] # "idle"
    BY <1>1, <1>5 DEF PerCall
  <2> QED BY <1>1, <1>4, <1>5, <1>8, <2>1, <2>2 DEF PerCall
<1>11. PerWire(r)'
  <2>1. ASSUME NEW i \in 1 .. OnWire(r)'
        PROVE  \/ i \in 1 .. OnWire(r) /\ wire'[r][i] = wire[r][i]
               \/ i = OnWire(r) + 1 /\ i = OnWire(r)' /\ wire'[r][i] = e
    BY <1>2, <1>3, <1>4
  <2>2. \A i \in 1 .. OnWire(r)' :
          /\ wire'[r][i].kind = "partial" => wire'[r][i].n <= said'[r]
          /\ wire'[r][i].kind # "partial" => work'[r] = "over" /\ i = OnWire(r)'
    <3>1. TAKE i \in 1 .. OnWire(r)'
    <3>2. CASE i \in 1 .. OnWire(r) /\ wire'[r][i] = wire[r][i]
      <4>1. wire[r][i].kind = "partial" /\ wire[r][i].n <= said[r] /\ wire[r][i].n \in Nat
        <5>1. wire[r][i] \in Answers
          BY <1>4, <3>2, LenProperties DEF TypeOK, IpcTypeOK
        <5> QED BY <1>5, <1>6, <3>2, <5>1 DEF PerWire, Answers
      <4> QED BY <1>4, <1>9, <3>2, <4>1
    <3>3. CASE i = OnWire(r)' /\ wire'[r][i] = e
      BY <1>4, <1>8, <3>3
    <3> QED BY <2>1, <3>2, <3>3
  <2>3. ASSUME r \in pending, r \in Streams
        PROVE  /\ \A i \in 1 .. OnWire(r)' :
                     /\ wire'[r][i].kind = "partial" => wire'[r][i].n = Heard(r) + Queued(r) + i
                     /\ wire'[r][i].kind = "result" => said'[r] = Heard(r) + Queued(r) + i - 1
               /\ work'[r] = "running" => said'[r] = Heard(r) + Queued(r) + OnWire(r)'
    <3>1. said[r] = Heard(r) + Queued(r) + OnWire(r)
      BY <1>1, <1>5, <2>3 DEF PerWire
    <3>2. said[r] + 1 = Heard(r) + Queued(r) + (OnWire(r) + 1)
      BY ONLY <1>4, <3>1
    <3>3. said[r] = Heard(r) + Queued(r) + (OnWire(r) + 1) - 1
      BY ONLY <1>4, <3>1
    <3>4. ASSUME NEW i \in 1 .. OnWire(r)'
          PROVE  /\ wire'[r][i].kind = "partial" => wire'[r][i].n = Heard(r) + Queued(r) + i
                 /\ wire'[r][i].kind = "result" => said'[r] = Heard(r) + Queued(r) + i - 1
      <4>1. CASE i \in 1 .. OnWire(r) /\ wire'[r][i] = wire[r][i]
        BY <1>5, <1>6, <2>3, <4>1 DEF PerWire
      <4>2. CASE i = OnWire(r) + 1 /\ wire'[r][i] = e
        BY <1>8, <3>2, <3>3, <4>2
      <4> QED BY <2>1, <4>1, <4>2
    <3>5. work'[r] = "running" => said'[r] = Heard(r) + Queued(r) + OnWire(r)'
      BY <1>4, <1>8, <3>2
    <3> QED BY <3>4, <3>5
  <2> QED BY <1>1, <1>4, <1>7, <2>2, <2>3 DEF PerWire
<1>12. ASSUME NEW q \in Requests, q # r PROVE PerCall(q)' /\ PerWire(q)'
  BY <1>1, <1>3, <1>12, Untouched DEF CallInv, TypeOK, IpcTypeOK
<1>13. IpcTypeOK'
  <2>1. work' \in [Requests -> {"none", "running", "over"}]
    BY <1>1 DEF TypeOK, IpcTypeOK
  <2>2. said' \in [Requests -> Nat]
    BY <1>1, <1>4 DEF TypeOK, IpcTypeOK
  <2>3. wire' \in [Requests -> Seq(Answers)]
    BY <1>2, <1>3 DEF TypeOK, IpcTypeOK
  <2> QED BY <1>1, <2>1, <2>2, <2>3 DEF TypeOK, IpcTypeOK
<1> QED BY <1>10, <1>11, <1>12, <1>13 DEF CallInv

\* The process is gone: what is left on a wire is a prefix of what was there.
LEMMA LostKept ==
    ASSUME TypeOK, CallInv, LosePeer
    PROVE  /\ CallInv' /\ IpcTypeOK' /\ toPeer' = <<>> /\ listening' = FALSE
           /\ \A q \in Requests : work'[q] # "running"
<1>1. PICK kept \in [Requests -> {0} \cup UNION {DOMAIN wire[r] : r \in Requests}] :
        /\ \A r \in Requests : kept[r] <= Len(wire[r])
        /\ wire' = [r \in Requests |-> SubSeq(wire[r], 1, kept[r])]
  BY DEF LosePeer
<1>2. /\ toPeer' = <<>> /\ listening' = FALSE
      /\ work' = [r \in Requests |-> IF work[r] = "running" THEN "over" ELSE work[r]]
      /\ UNCHANGED <<call, pending, draining, chain, busy, heard, hostUp, killed, said>>
  BY DEF LosePeer, hostVars
<1>3. ASSUME NEW q \in Requests
      PROVE  /\ wire'[q] \in Seq(Answers) /\ OnWire(q)' <= OnWire(q)
             /\ OnWire(q) \in Nat /\ OnWire(q)' \in Nat
             /\ \A i \in 1 .. OnWire(q)' : wire'[q][i] = wire[q][i] /\ i \in 1 .. OnWire(q)
             /\ wire[q] = <<>> => wire'[q] = <<>>
  <2>1. wire[q] \in Seq(Answers) /\ \A r \in Requests : wire[r] \in Seq(Answers)
    BY DEF TypeOK, IpcTypeOK
  <2>2. kept[q] \in Nat
    <3>1. \A r \in Requests : DOMAIN wire[r] = 1 .. Len(wire[r]) /\ Len(wire[r]) \in Nat
      BY <2>1, LenProperties
    <3>a. \A n \in Nat : 1 .. n \subseteq Nat
      OBVIOUS
    <3>2. \A r \in Requests : DOMAIN wire[r] \subseteq Nat
      BY ONLY <3>1, <3>a
    <3> QED BY <3>2
  <2>3. kept[q] <= Len(wire[q]) /\ wire'[q] = SubSeq(wire[q], 1, kept[q])
    BY <1>1
  <2>4. /\ wire'[q] \in Seq(Answers) /\ Len(wire'[q]) = kept[q]
        /\ \A i \in 1 .. Len(wire'[q]) : wire'[q][i] = wire[q][i] /\ i \in 1 .. Len(wire[q])
    BY ONLY <2>1, <2>2, <2>3, Prefix
  <2>5. Len(wire[q]) \in Nat /\ OnWire(q) = Len(wire[q]) /\ OnWire(q)' = Len(wire'[q])
    BY <2>1, LenProperties DEF OnWire
  <2>6. wire[q] = <<>> => wire'[q] = <<>>
    <3>1. wire[q] = <<>> => Len(wire'[q]) = 0
      BY <2>2, <2>3, <2>4
    <3> QED BY <2>4, <3>1, EmptySeq
  <2> QED BY <2>2, <2>3, <2>4, <2>5, <2>6
<1>4. ASSUME NEW q \in Requests PROVE PerCall(q)' /\ PerWire(q)'
  <2>1. PerCall(q) /\ PerWire(q) /\ Heard(q)' = Heard(q) /\ Queued(q)' = Queued(q)
    BY <1>2 DEF CallInv, Heard, Queued
  <2>2. work'[q] = IF work[q] = "running" THEN "over" ELSE work[q]
    BY <1>2
  <2>3. PerCall(q)'
    BY <1>2, <1>3, <2>1, <2>2 DEF PerCall
  <2>4. \A i \in 1 .. OnWire(q)' :
          /\ wire'[q][i].kind = "partial" => wire'[q][i].n <= said[q]
          /\ wire'[q][i].kind # "partial" => work'[q] = "over" /\ i = OnWire(q)'
    <3>1. TAKE i \in 1 .. OnWire(q)'
    <3>2. wire'[q][i] = wire[q][i] /\ i \in 1 .. OnWire(q)
      BY <1>3
    <3>3. i = OnWire(q) => i = OnWire(q)'
      BY <1>3
    <3> QED BY <2>1, <2>2, <3>2, <3>3 DEF PerWire
  <2>5. q \in pending /\ q \in Streams => \A i \in 1 .. OnWire(q)' :
          /\ wire'[q][i].kind = "partial" => wire'[q][i].n = Heard(q) + Queued(q) + i
          /\ wire'[q][i].kind = "result" => said[q] = Heard(q) + Queued(q) + i - 1
    BY <1>3, <2>1 DEF PerWire
  <2>6. PerWire(q)'
    BY <1>2, <1>3, <2>1, <2>2, <2>4, <2>5 DEF PerWire
  <2> QED BY <2>3, <2>6
<1>5. wire' \in [Requests -> Seq(Answers)]
  BY <1>1, <1>3
<1>6. IpcTypeOK'
  <2>1. work' \in [Requests -> {"none", "running", "over"}]
    BY <1>2 DEF TypeOK, IpcTypeOK
  <2>2. toPeer' \in Seq(Frames)
    BY <1>2
  <2> QED BY <1>2, <1>5, <2>1, <2>2 DEF TypeOK, IpcTypeOK
<1>7. \A q \in Requests : work'[q] # "running"
  BY <1>2
<1> QED BY <1>2, <1>4, <1>6, <1>7 DEF CallInv

\* A request is taken from the queue.
LEMMA TakenKept ==
    ASSUME TypeOK, CallInv, NEW r \in Requests, TakeRequest(r), work[r] = "none", call[r] # "idle",
           listening => hostUp, UNCHANGED busy
    PROVE  CallInv'
<1>1. /\ work' = IF listening THEN [work EXCEPT ![r] = "running"] ELSE work
      /\ UNCHANGED <<call, pending, draining, chain, heard, hostUp, wire, said>>
  BY DEF TakeRequest, hostVars
<1>2. ASSUME NEW q \in Requests PROVE PerCall(q)' /\ PerWire(q)'
  <2>1. PerCall(q) /\ PerWire(q)
    BY DEF CallInv
  <2>2. CASE q # r \/ ~listening
    <3>1. work'[q] = work[q]
      BY <1>1, <2>2 DEF TypeOK, IpcTypeOK
    <3> QED BY <1>1, <2>1, <3>1, Untouched
  <2>3. CASE q = r /\ listening
    <3>1. work'[q] = "running" /\ hostUp
      BY <1>1, <2>3 DEF TypeOK, IpcTypeOK
    <3>2. wire[q] = <<>> /\ heard[q] = <<>> /\ chain[q] = <<>> /\ said[q] = 0
      BY <2>1, <2>3 DEF PerCall
    <3>3. /\ Heard(q) = 0 /\ Queued(q) = 0 /\ OnWire(q) = 0
          /\ Heard(q)' = 0 /\ Queued(q)' = 0 /\ OnWire(q)' = 0
      BY <1>1, <3>2 DEF Heard, Queued, OnWire
    <3>4. PerCall(q)'
      BY <1>1, <2>1, <2>3, <3>1, <3>2, <3>3 DEF PerCall
    <3>5. PerWire(q)'
      BY <1>1, <3>1, <3>2, <3>3 DEF PerWire
    <3> QED BY <3>4, <3>5
  <2> QED BY <2>2, <2>3
<1> QED BY <1>2 DEF CallInv

-----------------------------------------------------------------------------
\* The queue to the process without its first frame.
LEMMA QueueDropped ==
    ASSUME TypeOK, FrameInv, toPeer # <<>>, DropFrame
    PROVE  /\ toPeer' \in Seq(Frames) /\ Len(toPeer) \in Nat \ {0} /\ Len(toPeer)' = Len(toPeer) - 1
           /\ NextFrame = toPeer[1] /\ NextFrame \in Frames /\ 1 \in 1 .. Len(toPeer)
           /\ \A i \in 1 .. Len(toPeer)' : toPeer'[i] = toPeer[i + 1] /\ i + 1 \in 1 .. Len(toPeer)
           /\ \A i \in 1 .. Len(toPeer) : i = 1 \/ (i - 1 \in 1 .. Len(toPeer)'
                                                   /\ toPeer[i] = toPeer'[i - 1])
<1>1. toPeer # <<>> /\ toPeer \in Seq(Frames) /\ toPeer' = SubSeq(toPeer, 2, Len(toPeer))
  BY DEF TypeOK, IpcTypeOK, DropFrame
<1>2. /\ toPeer' \in Seq(Frames) /\ Len(toPeer') = Len(toPeer) - 1 /\ Len(toPeer) \in Nat \ {0}
      /\ \A i \in 1 .. Len(toPeer') : toPeer'[i] = toPeer[i + 1] /\ i + 1 \in 1 .. Len(toPeer)
      /\ Head(toPeer) = toPeer[1] /\ toPeer[1] \in Frames /\ 1 \in 1 .. Len(toPeer)
  <2>1. \A d : d = SubSeq(toPeer, 2, Len(toPeer)) =>
           /\ d \in Seq(Frames) /\ Len(d) = Len(toPeer) - 1 /\ Len(toPeer) \in Nat \ {0}
           /\ \A i \in 1 .. Len(d) : d[i] = toPeer[i + 1] /\ i + 1 \in 1 .. Len(toPeer)
           /\ Head(toPeer) = toPeer[1] /\ toPeer[1] \in Frames /\ 1 \in 1 .. Len(toPeer)
    BY ONLY <1>1, DropFirst
  <2> QED BY <1>1, <2>1
<1>3. ASSUME NEW i \in 1 .. Len(toPeer), i # 1
      PROVE  i - 1 \in 1 .. Len(toPeer') /\ toPeer[i] = toPeer'[i - 1]
  <2>1. i \in Nat /\ i - 1 \in 1 .. Len(toPeer') /\ (i - 1) + 1 = i
    BY ONLY <1>2, <1>3
  <2> QED BY <1>2, <2>1
<1> QED BY <1>2, <1>3 DEF NextFrame

(* The frame leaves the tool t with the process.                           *)
Brings(f, t) == f.op # "remove" /\ t \in f.tools

\* What the process will have, in terms of the indices of the queue.
LEMMA WillHaveIndices ==
    ASSUME toPeer \in Seq(Frames), NEW t
    PROVE  WillHave(t) <=>
             \/ /\ \A i \in 1 .. Len(toPeer) : ~Concerns(toPeer[i], t)
                /\ t \in registry
             \/ \E i \in 1 .. Len(toPeer) :
                   /\ Concerns(toPeer[i], t) /\ Brings(toPeer[i], t)
                   /\ \A j \in 1 .. Len(toPeer) : Concerns(toPeer[j], t) => j <= i
<1>1. DOMAIN toPeer = 1 .. Len(toPeer)
  BY LenProperties
<1> QED BY <1>1 DEF WillHave, Brings

\* Taking the first frame into the registry changes nothing of it.
LEMMA ToolTaken ==
    ASSUME TypeOK, FrameInv, toPeer # <<>>, DropFrame, NEW t,
           t \in registry' <=> IF Concerns(NextFrame, t) THEN Brings(NextFrame, t)
                                                         ELSE t \in registry
    PROVE  WillHave(t)' <=> WillHave(t)
<1> DEFINE n == Len(toPeer)
           m == Len(toPeer)'
<1>1. /\ toPeer \in Seq(Frames) /\ toPeer' \in Seq(Frames) /\ n \in Nat \ {0} /\ m = n - 1
      /\ NextFrame = toPeer[1] /\ 1 \in 1 .. n
      /\ \A i \in 1 .. m : toPeer'[i] = toPeer[i + 1] /\ i + 1 \in 1 .. n
      /\ \A i \in 1 .. n : i = 1 \/ (i - 1 \in 1 .. m /\ toPeer[i] = toPeer'[i - 1])
  BY QueueDropped DEF TypeOK, IpcTypeOK
<1> HIDE DEF n, m
<1>2. WillHave(t) <=>
        \/ (\A i \in 1 .. n : ~Concerns(toPeer[i], t)) /\ t \in registry
        \/ \E i \in 1 .. n : /\ Concerns(toPeer[i], t) /\ Brings(toPeer[i], t)
                             /\ \A j \in 1 .. n : Concerns(toPeer[j], t) => j <= i
  BY <1>1, WillHaveIndices DEF n
<1>3. WillHave(t)' <=>
        \/ (\A i \in 1 .. m : ~Concerns(toPeer'[i], t)) /\ t \in registry'
        \/ \E i \in 1 .. m : /\ Concerns(toPeer'[i], t) /\ Brings(toPeer'[i], t)
                             /\ \A j \in 1 .. m : Concerns(toPeer'[j], t) => j <= i
  <2>1. DOMAIN (toPeer') = 1 .. m
    BY <1>1, LenProperties DEF m
  <2> QED BY <2>1 DEF WillHave, Brings
<1>4. CASE \A i \in 1 .. m : ~Concerns(toPeer'[i], t)
  <2>1. \A i \in 1 .. n : Concerns(toPeer[i], t) => i = 1
    BY <1>1, <1>4
  <2>2. WillHave(t)' <=> t \in registry'
    BY <1>3, <1>4
  <2>3. CASE Concerns(NextFrame, t)
    <3>1. \A j \in 1 .. n : Concerns(toPeer[j], t) => j <= 1
      BY <2>1
    <3>2. WillHave(t) <=> Brings(toPeer[1], t)
      BY <1>1, <1>2, <2>1, <2>3, <3>1
    <3> QED BY <1>1, <2>2, <2>3, <3>2
  <2>4. CASE ~Concerns(NextFrame, t)
    <3>1. \A i \in 1 .. n : ~Concerns(toPeer[i], t)
      BY <1>1, <2>1, <2>4
    <3> QED BY <1>2, <2>2, <2>4, <3>1
  <2> QED BY <2>3, <2>4
<1>5. CASE \E k \in 1 .. m : Concerns(toPeer'[k], t)
  <2>1. PICK k \in 1 .. m : Concerns(toPeer'[k], t)
    BY <1>5
  <2>2. k + 1 \in 1 .. n /\ Concerns(toPeer[k + 1], t) /\ k + 1 > 1
    BY <1>1, <2>1
  <2>3. ASSUME NEW i \in 1 .. m, Concerns(toPeer'[i], t), Brings(toPeer'[i], t),
               \A j \in 1 .. m : Concerns(toPeer'[j], t) => j <= i
        PROVE  WillHave(t)
    <3>1. i + 1 \in 1 .. n /\ Concerns(toPeer[i + 1], t) /\ Brings(toPeer[i + 1], t)
      BY <1>1, <2>3
    <3>2. ASSUME NEW j \in 1 .. n, Concerns(toPeer[j], t) PROVE j <= i + 1
      <4>1. CASE j = 1
        BY <4>1, <1>1
      <4>2. CASE j # 1
        <5>1. j - 1 \in 1 .. m /\ toPeer[j] = toPeer'[j - 1]
          BY <1>1, <4>2
        <5>2. j - 1 <= i
          BY <2>3, <3>2, <5>1
        <5> QED BY <1>1, <5>2
      <4> QED BY <4>1, <4>2
    <3> QED BY <1>2, <3>1, <3>2
  <2>4. ASSUME NEW i \in 1 .. n, Concerns(toPeer[i], t), Brings(toPeer[i], t),
               \A j \in 1 .. n : Concerns(toPeer[j], t) => j <= i
        PROVE  WillHave(t)'
    <3>1. k + 1 <= i
      BY <2>2, <2>4
    <3>2. i # 1
      BY <1>1, <2>2, <3>1
    <3>3. i - 1 \in 1 .. m /\ toPeer[i] = toPeer'[i - 1]
      BY <1>1, <3>2
    <3>4. ASSUME NEW j \in 1 .. m, Concerns(toPeer'[j], t) PROVE j <= i - 1
      <4>1. j + 1 \in 1 .. n /\ Concerns(toPeer[j + 1], t)
        BY <1>1, <3>4
      <4>2. j + 1 <= i
        BY <2>4, <4>1
      <4> QED BY <1>1, <4>2
    <3> QED BY <1>3, <2>4, <3>3, <3>4
  <2>5. ~\A i \in 1 .. n : ~Concerns(toPeer[i], t)
    BY <2>2
  <2> QED BY <1>2, <1>3, <1>5, <2>3, <2>4, <2>5
<1> QED BY <1>4, <1>5

\* A frame at the end of the queue has the last word on the tools it concerns.
LEMMA ToolSent ==
    ASSUME TypeOK, NEW f \in Frames, toPeer' = Append(toPeer, f), UNCHANGED registry, NEW t
    PROVE  WillHave(t)' <=> IF Concerns(f, t) THEN Brings(f, t) ELSE WillHave(t)
<1> DEFINE n == Len(toPeer)
           m == Len(toPeer)'
<1>1. toPeer \in Seq(Frames)
  BY DEF TypeOK, IpcTypeOK
<1>2. /\ toPeer' \in Seq(Frames) /\ m = n + 1 /\ n \in Nat
      /\ \A i \in 1 .. n : toPeer'[i] = toPeer[i] /\ i \in 1 .. m
      /\ toPeer'[n + 1] = f
      /\ \A i \in 1 .. m : i \in 1 .. n \/ i = n + 1
      /\ n + 1 \in 1 .. m
  <2>1. \A a : a = Append(toPeer, f) =>
           /\ a \in Seq(Frames) /\ Len(a) = Len(toPeer) + 1 /\ Len(toPeer) \in Nat
           /\ \A i \in 1 .. Len(toPeer) : a[i] = toPeer[i] /\ i \in 1 .. Len(a)
           /\ a[Len(toPeer) + 1] = f
           /\ \A i \in 1 .. Len(a) : i \in 1 .. Len(toPeer) \/ i = Len(toPeer) + 1
           /\ Len(toPeer) + 1 \in 1 .. Len(a)
    BY ONLY <1>1, f \in Frames, OneMore
  <2> QED BY <2>1
<1> HIDE DEF n, m
<1>3. WillHave(t) <=>
        \/ (\A i \in 1 .. n : ~Concerns(toPeer[i], t)) /\ t \in registry
        \/ \E i \in 1 .. n : /\ Concerns(toPeer[i], t) /\ Brings(toPeer[i], t)
                             /\ \A j \in 1 .. n : Concerns(toPeer[j], t) => j <= i
  BY <1>1, WillHaveIndices DEF n
<1>4. WillHave(t)' <=>
        \/ (\A i \in 1 .. m : ~Concerns(toPeer'[i], t)) /\ t \in registry
        \/ \E i \in 1 .. m : /\ Concerns(toPeer'[i], t) /\ Brings(toPeer'[i], t)
                             /\ \A j \in 1 .. m : Concerns(toPeer'[j], t) => j <= i
  <2>1. DOMAIN (toPeer') = 1 .. m
    BY <1>2, LenProperties DEF m
  <2> QED BY <2>1 DEF WillHave, Brings
<1>5. CASE Concerns(f, t)
  <2>1. \A j \in 1 .. m : j <= n + 1
    BY <1>2
  <2>2. \A i \in 1 .. m : (\A j \in 1 .. m : Concerns(toPeer'[j], t) => j <= i) => i = n + 1
    <3>1. SUFFICES ASSUME NEW i \in 1 .. m, \A j \in 1 .. m : Concerns(toPeer'[j], t) => j <= i
                   PROVE  i = n + 1
      OBVIOUS
    <3>2. n + 1 <= i
      BY <1>2, <1>5, <3>1
    <3> QED BY <1>2, <2>1, <3>2
  <2>3. WillHave(t)' <=> Brings(f, t)
    BY <1>2, <1>4, <1>5, <2>1, <2>2
  <2> QED BY <1>5, <2>3
<1>6. CASE ~Concerns(f, t)
  <2>1. \A j \in 1 .. m : Concerns(toPeer'[j], t) => j \in 1 .. n /\ Concerns(toPeer[j], t)
    BY <1>2, <1>6
  <2>2. \A j \in 1 .. n : Concerns(toPeer[j], t) => j \in 1 .. m /\ Concerns(toPeer'[j], t)
    BY <1>2
  <2>3. WillHave(t)' <=> WillHave(t)
    BY <1>2, <1>3, <1>4, <2>1, <2>2
  <2> QED BY <1>6, <2>3
<1> QED BY <1>5, <1>6

\* The frames left behind the first one, and the requests still on their way.
LEMMA FramesLeft ==
    ASSUME TypeOK, FrameInv, toPeer # <<>>, DropFrame,
           \A q \in Requests : call[q] # "idle" => call'[q] # "idle",
           \A q \in Requests : work'[q] # work[q] => NextFrame.op = "request" /\ NextFrame.id = q
    PROVE  /\ FrameInv'
           /\ \A q \in Requests : Asked(q) => Asked(q)' \/ (NextFrame = RequestFrame(q))
<1>1. /\ toPeer' \in Seq(Frames) /\ Len(toPeer) \in Nat \ {0} /\ Len(toPeer)' = Len(toPeer) - 1
      /\ NextFrame = toPeer[1] /\ NextFrame \in Frames /\ 1 \in 1 .. Len(toPeer)
      /\ \A i \in 1 .. Len(toPeer)' : toPeer'[i] = toPeer[i + 1] /\ i + 1 \in 1 .. Len(toPeer)
      /\ \A i \in 1 .. Len(toPeer) : i = 1 \/ (i - 1 \in 1 .. Len(toPeer)'
                                              /\ toPeer[i] = toPeer'[i - 1])
  BY QueueDropped
<1>2. ASSUME NEW i \in 1 .. Len(toPeer)', toPeer'[i].op = "request"
      PROVE  /\ toPeer'[i].id \in Requests
             /\ toPeer'[i] = RequestFrame(toPeer'[i].id)
             /\ call'[toPeer'[i].id] # "idle" /\ work'[toPeer'[i].id] = "none"
  <2>1. toPeer'[i] = toPeer[i + 1] /\ i + 1 \in 1 .. Len(toPeer) /\ i + 1 # 1
    BY <1>1
  <2>2. /\ toPeer[i + 1].id \in Requests /\ toPeer[i + 1] = RequestFrame(toPeer[i + 1].id)
        /\ call[toPeer[i + 1].id] # "idle" /\ work[toPeer[i + 1].id] = "none"
    BY <1>2, <2>1 DEF FrameInv
  <2>3. ~(NextFrame.op = "request" /\ NextFrame.id = toPeer[i + 1].id)
    BY <1>1, <1>2, <2>1 DEF FrameInv
  <2> QED BY <2>1, <2>2, <2>3
<1>3. ASSUME NEW i \in 1 .. Len(toPeer)', NEW j \in 1 .. Len(toPeer)',
             toPeer'[i].op = "request", toPeer'[j].op = "request", toPeer'[i].id = toPeer'[j].id
      PROVE  i = j
  <2>1. /\ toPeer'[i] = toPeer[i + 1] /\ i + 1 \in 1 .. Len(toPeer)
        /\ toPeer'[j] = toPeer[j + 1] /\ j + 1 \in 1 .. Len(toPeer)
    BY <1>1
  <2>2. i + 1 = j + 1
    BY <1>3, <2>1 DEF FrameInv
  <2> QED BY <1>1, <2>2
<1>4. FrameInv'
  BY <1>2, <1>3 DEF FrameInv
<1>5. ASSUME NEW q \in Requests, Asked(q) PROVE Asked(q)' \/ NextFrame = RequestFrame(q)
  <2>1. PICK i \in 1 .. Len(toPeer) : toPeer[i] = RequestFrame(q)
    BY <1>5 DEF Asked
  <2>2. (\E k \in 1 .. Len(toPeer)' : toPeer'[k] = RequestFrame(q)) => Asked(q)'
    BY DEF Asked, RequestFrame
  <2> QED BY <1>1, <2>1, <2>2
<1> QED BY <1>4, <1>5

\* One frame more, a request of a call that was idle or no request.
LEMMA FramesMore ==
    ASSUME TypeOK, FrameInv, NEW f \in Frames, toPeer' = Append(toPeer, f),
           UNCHANGED work,
           \A q \in Requests : call[q] # "idle" => call'[q] # "idle",
           f.op = "request" => /\ f.id \in Requests /\ f = RequestFrame(f.id)
                               /\ call[f.id] = "idle" /\ call'[f.id] # "idle"
                               /\ work[f.id] = "none"
    PROVE  /\ FrameInv' /\ toPeer' \in Seq(Frames)
           /\ \A q \in Requests : Asked(q) \/ f = RequestFrame(q) => Asked(q)'
<1>1. toPeer \in Seq(Frames)
  BY DEF TypeOK, IpcTypeOK
<1>2. /\ toPeer' \in Seq(Frames) /\ Len(toPeer)' = Len(toPeer) + 1 /\ Len(toPeer) \in Nat
      /\ \A i \in 1 .. Len(toPeer) : toPeer'[i] = toPeer[i] /\ i \in 1 .. Len(toPeer)'
      /\ toPeer'[Len(toPeer) + 1] = f
      /\ \A i \in 1 .. Len(toPeer)' : i \in 1 .. Len(toPeer) \/ i = Len(toPeer) + 1
      /\ Len(toPeer) + 1 \in 1 .. Len(toPeer)'
  <2>1. \A a : a = Append(toPeer, f) =>
           /\ a \in Seq(Frames) /\ Len(a) = Len(toPeer) + 1 /\ Len(toPeer) \in Nat
           /\ \A i \in 1 .. Len(toPeer) : a[i] = toPeer[i] /\ i \in 1 .. Len(a)
           /\ a[Len(toPeer) + 1] = f
           /\ \A i \in 1 .. Len(a) : i \in 1 .. Len(toPeer) \/ i = Len(toPeer) + 1
           /\ Len(toPeer) + 1 \in 1 .. Len(a)
    BY ONLY <1>1, f \in Frames, OneMore
  <2> QED BY <2>1
<1>3. \A i \in 1 .. Len(toPeer)' :
         (i \in 1 .. Len(toPeer) /\ toPeer'[i] = toPeer[i]) \/ (i = Len(toPeer) + 1 /\ toPeer'[i] = f)
  BY <1>2
<1>4. \A i \in 1 .. Len(toPeer) : toPeer[i].op = "request" =>
         /\ toPeer[i].id \in Requests /\ toPeer[i] = RequestFrame(toPeer[i].id)
         /\ call[toPeer[i].id] # "idle" /\ work[toPeer[i].id] = "none"
  BY DEF FrameInv
<1>5. ASSUME NEW i \in 1 .. Len(toPeer)', toPeer'[i].op = "request"
      PROVE  /\ toPeer'[i].id \in Requests
             /\ toPeer'[i] = RequestFrame(toPeer'[i].id)
             /\ call'[toPeer'[i].id] # "idle" /\ work'[toPeer'[i].id] = "none"
  <2>1. CASE i \in 1 .. Len(toPeer) /\ toPeer'[i] = toPeer[i]
    BY <1>4, <1>5, <2>1
  <2>2. CASE toPeer'[i] = f
    BY <1>5, <2>2
  <2> QED BY <1>3, <2>1, <2>2
<1>6. ASSUME NEW i \in 1 .. Len(toPeer)', NEW j \in 1 .. Len(toPeer)',
             toPeer'[i].op = "request", toPeer'[j].op = "request", toPeer'[i].id = toPeer'[j].id
      PROVE  i = j
  <2>1. CASE i \in 1 .. Len(toPeer) /\ toPeer'[i] = toPeer[i] /\ j \in 1 .. Len(toPeer)
             /\ toPeer'[j] = toPeer[j]
    BY <1>6, <2>1 DEF FrameInv
  <2>2. CASE i \in 1 .. Len(toPeer) /\ toPeer'[i] = toPeer[i] /\ toPeer'[j] = f
    BY <1>4, <1>6, <2>2
  <2>3. CASE j \in 1 .. Len(toPeer) /\ toPeer'[j] = toPeer[j] /\ toPeer'[i] = f
    BY <1>4, <1>6, <2>3
  <2>4. CASE i = Len(toPeer) + 1 /\ j = Len(toPeer) + 1
    BY <2>4
  <2> QED BY <1>3, <2>1, <2>2, <2>3, <2>4
<1>7. FrameInv'
  BY <1>5, <1>6 DEF FrameInv
<1>8. ASSUME NEW q \in Requests, Asked(q) \/ f = RequestFrame(q) PROVE Asked(q)'
  <2>1. (\E k \in 1 .. Len(toPeer)' : toPeer'[k] = RequestFrame(q)) => Asked(q)'
    BY DEF Asked, RequestFrame
  <2>2. CASE Asked(q)
    <3>1. PICK i \in 1 .. Len(toPeer) : toPeer[i] = RequestFrame(q)
      BY <2>2 DEF Asked
    <3> QED BY <1>2, <2>1, <3>1
  <2>3. CASE f = RequestFrame(q)
    BY <1>2, <2>1, <2>3
  <2> QED BY <1>8, <2>2, <2>3
<1> QED BY <1>2, <1>7, <1>8

-----------------------------------------------------------------------------
(* What a step does to the rows, and what it keeps all in all.             *)
SweepStep ==
    \A x \in Rows : row'[x] = "interrupted" /\ row[x] # "interrupted" =>
                      row[x] = "in_progress" /\ bornIn[x] < lives

DaemonTyped ==
    /\ phase \in Phases /\ lives \in Nat
    /\ row \in [Rows -> RowStatuses] /\ bornIn \in [Rows -> Nat]
    /\ registry \subseteq Tools /\ catalog \subseteq Tools
    /\ pushes \in Nat /\ kills \in Nat
    /\ readySeen \in BOOLEAN /\ relied \subseteq Requests /\ unswept \in BOOLEAN

StepKept == DInv' /\ SweepStep

\* The parts of the types.
LEMMA Typed == (TypeOK <=> IpcTypeOK /\ DaemonTyped) /\ (TypeOK' <=> IpcTypeOK' /\ DaemonTyped')
BY DEF TypeOK, DaemonTyped

\* What the process will have depends on the queue and the registry alone.
LEMMA ToolsUnchanged ==
    ASSUME UNCHANGED <<toPeer, registry>>, NEW t
    PROVE  WillHave(t)' <=> WillHave(t)
BY DEF WillHave

\* A step at the host's end of the channel, or of a handler.
LEMMA ChannelKept ==
    ASSUME DInv, IpcTypeOK', CallInv', UNCHANGED <<daemonVars, toPeer, listening>>,
           \A q \in Requests : /\ call[q] # "idle" => call'[q] # "idle"
                               /\ work[q] = "none" <=> work'[q] = "none"
                               /\ work'[q] = "running" => work[q] = "running",
           phase # "down" => UNCHANGED hostUp
    PROVE  StepKept
<1>1. UNCHANGED <<phase, lives, row, bornIn, registry, catalog, pushes, kills, readySeen, relied,
                  unswept, toPeer, listening>>
  BY DEF daemonVars
<1>2. TypeOK'
  BY <1>1, Typed DEF DInv, DaemonTyped
<1>3. FrameInv'
  <2>1. \A i \in 1 .. Len(toPeer) : toPeer[i].op = "request" =>
           call'[toPeer[i].id] # "idle" /\ work'[toPeer[i].id] = "none"
    BY DEF DInv, FrameInv
  <2> QED BY <1>1, <2>1 DEF DInv, FrameInv
<1>4. PhaseInv'
  BY <1>1 DEF DInv, PhaseInv
<1>5. ReliedInv'
  <2>1. \A q \in Requests : Asked(q)' <=> Asked(q)
    BY <1>1 DEF Asked, RequestFrame
  <2>2. relied \subseteq Requests
    BY DEF DInv, TypeOK
  <2> QED BY <1>1, <2>1, <2>2 DEF DInv, ReliedInv
<1>6. RowInv' /\ StaleTurnsSwept' /\ SweepStep
  BY <1>1 DEF DInv, RowInv, StaleTurnsSwept, SweepStep
<1>7. ToolsInStep'
  BY <1>1, ToolsUnchanged DEF DInv, ToolsInStep, Alive
<1> QED BY <1>2, <1>3, <1>4, <1>5, <1>6, <1>7 DEF StepKept, DInv

\* The steps of the channel and of the handlers keep the invariant.
LEMMA ChannelSteps ==
    ASSUME DInv, StopAdapter \/ \E r \in Requests : HostHears(r) \/ Work(r)
    PROVE  StepKept
<1>1. TypeOK /\ CallInv /\ PhaseInv
  BY DEF DInv
<1>2. CASE StopAdapter
  <2>1. StopHost /\ UNCHANGED daemonVars /\ phase = "down"
    BY <1>2 DEF StopAdapter
  <2>2. CallInv' /\ IpcTypeOK'
    BY <1>1, <2>1, HostKept
  <2>3. /\ UNCHANGED <<toPeer, listening, work>>
        /\ \A q \in Requests : call[q] # "idle" => call'[q] # "idle"
    BY <2>1 DEF StopHost, Rejected, peerVars
  <2>4. \A q \in Requests : /\ call[q] # "idle" => call'[q] # "idle"
                            /\ work[q] = "none" <=> work'[q] = "none"
                            /\ work'[q] = "running" => work[q] = "running"
    BY <2>3
  <2>5. UNCHANGED <<daemonVars, toPeer, listening>> /\ (phase # "down" => UNCHANGED hostUp)
    BY <2>1, <2>3
  <2> QED BY <2>2, <2>4, <2>5, ChannelKept
<1>3. ASSUME NEW r \in Requests, HostHears(r) PROVE StepKept
  <2>1. HostStep(r) /\ UNCHANGED daemonVars
    BY <1>3 DEF HostHears
  <2>2. CallInv' /\ IpcTypeOK'
    BY <1>1, <2>1, ResponseKept, ChunkKept, HostKept DEF HostStep
  <2>3. UNCHANGED <<toPeer, listening, work, hostUp>>
    BY <2>1 DEF HostStep, HandleResponse, StartChunk, EndChunk, Drained, Timeout, peerVars
  <2>4. \A q \in Requests : call[q] # "idle" => call'[q] # "idle"
    BY <1>1, <2>1 DEF HostStep, HandleResponse, Terminal, StartChunk, EndChunk, Drained, Timeout,
                      TypeOK, IpcTypeOK
  <2>5. \A q \in Requests : /\ call[q] # "idle" => call'[q] # "idle"
                            /\ work[q] = "none" <=> work'[q] = "none"
                            /\ work'[q] = "running" => work[q] = "running"
    BY <2>3, <2>4
  <2>6. UNCHANGED <<daemonVars, toPeer, listening>> /\ (phase # "down" => UNCHANGED hostUp)
    BY <2>1, <2>3
  <2> QED BY <2>2, <2>5, <2>6, ChannelKept
<1>4. ASSUME NEW r \in Requests, Work(r) PROVE StepKept
  <2>1. /\ EmitChunk(r) \/ \E kind \in {"result", "error"} : Answer(r, kind)
        /\ UNCHANGED daemonVars
    BY <1>4 DEF Work
  <2>2. CallInv' /\ IpcTypeOK'
    BY <1>1, <2>1, HandlerKept
  <2>3. UNCHANGED <<toPeer, listening, call, hostUp>>
    BY <2>1 DEF EmitChunk, Answer, hostVars
  <2>4. \A q \in Requests : /\ work[q] = "none" <=> work'[q] = "none"
                            /\ work'[q] = "running" => work[q] = "running"
    BY <1>1, <2>1 DEF EmitChunk, Answer, TypeOK, IpcTypeOK
  <2>5. \A q \in Requests : /\ call[q] # "idle" => call'[q] # "idle"
                            /\ work[q] = "none" <=> work'[q] = "none"
                            /\ work'[q] = "running" => work[q] = "running"
    BY <2>3, <2>4
  <2>6. UNCHANGED <<daemonVars, toPeer, listening>> /\ (phase # "down" => UNCHANGED hostUp)
    BY <2>1, <2>3
  <2> QED BY <2>2, <2>5, <2>6, ChannelKept
<1> QED BY <1>2, <1>3, <1>4

\* The process ends, with rows that have been swept or not.
LEMMA GoneSteps ==
    ASSUME DInv, EarlySigterm \/ InitFails \/ BindFails \/ OpeningFails \/ Exit \/ Kill
    PROVE  StepKept
<1>1. /\ LosePeer /\ phase' = "down" /\ registry' = {}
      /\ UNCHANGED <<lives, bornIn, catalog, pushes, readySeen, relied, unswept>>
  BY DEF EarlySigterm, InitFails, BindFails, OpeningFails, Exit, Kill, Gone
<1>2. /\ kills' \in Nat
      /\ row' = row \/ (phase = "binding" /\ row' \in {Backfill(row), Recovered(row)})
  BY DEF EarlySigterm, InitFails, BindFails, OpeningFails, Exit, Kill, DInv, TypeOK
<1>3. /\ CallInv' /\ IpcTypeOK' /\ toPeer' = <<>> /\ listening' = FALSE
      /\ \A q \in Requests : work'[q] # "running"
  BY <1>1, LostKept DEF DInv
<1>4. row \in [Rows -> RowStatuses] /\ bornIn \in [Rows -> Nat] /\ lives \in Nat
  BY DEF DInv, TypeOK
<1>5. \A x \in Rows :
         /\ row'[x] \in RowStatuses
         /\ row'[x] = "in_progress" => row[x] = "in_progress"
         /\ row'[x] = "interrupted" /\ row[x] # "interrupted" =>
               row[x] = "in_progress" /\ phase = "binding"
  BY <1>2, <1>4 DEF Backfill, Recovered, Sweep, Terminals, RowStatuses
<1>6. row' \in [Rows -> RowStatuses]
  BY <1>2, <1>4, <1>5 DEF Backfill, Recovered, Sweep
<1>7. TypeOK'
  BY <1>1, <1>2, <1>3, <1>6, Typed DEF DInv, DaemonTyped, Phases
<1>8. FrameInv'
  <2>1. Len(toPeer)' = 0
    BY <1>3
  <2> QED BY <2>1 DEF FrameInv
<1>9. PhaseInv' /\ ReliedInv' /\ StaleTurnsSwept' /\ ToolsInStep'
  BY <1>1, <1>3 DEF PhaseInv, ReliedInv, StaleTurnsSwept, ToolsInStep, Alive
<1>10. RowInv' /\ SweepStep
  BY <1>1, <1>5 DEF DInv, RowInv, SweepStep
<1> QED BY <1>3, <1>7, <1>8, <1>9, <1>10 DEF StepKept, DInv

\* The host forks: the queue holds the init message with the catalog.
LEMMA ForkStep ==
    ASSUME DInv, Fork
    PROVE  StepKept
<1> DEFINE first == [op |-> "init", tools |-> catalog, id |-> NoRequest]
<1>1. /\ phase = "down" /\ ~hostUp /\ lives' = lives + 1 /\ phase' = "waiting" /\ hostUp' = TRUE
      /\ killed' = FALSE /\ toPeer' = <<first>> /\ wire' = [r \in Requests |-> <<>>]
      /\ readySeen' = FALSE /\ relied' = {}
      /\ UNCHANGED <<call, pending, draining, chain, busy, heard, listening, work, said, row,
                     bornIn, registry, catalog, pushes, kills, unswept>>
  BY DEF Fork, peerVars
<1>2. first \in Frames
  BY DEF Frames, DInv, TypeOK
<1>3. toPeer' \in Seq(Frames) /\ Len(toPeer)' = 1 /\ toPeer'[1] = first
  BY <1>1, <1>2
<1>4. TypeOK'
  <2>1. wire' \in [Requests -> Seq(Answers)]
    BY <1>1
  <2>2. IpcTypeOK'
    BY <1>1, <1>3, <2>1 DEF DInv, TypeOK, IpcTypeOK
  <2>3. DaemonTyped'
    <3>1. lives \in Nat /\ DaemonTyped
      BY Typed DEF DInv, TypeOK
    <3>2. lives' \in Nat
      BY <1>1, <3>1
    <3> QED BY <1>1, <3>1, <3>2 DEF DaemonTyped, Phases
  <2> QED BY <2>2, <2>3, Typed
<1>5. CallInv'
  <2>1. ASSUME NEW q \in Requests PROVE PerCall(q)' /\ PerWire(q)'
    <3>1. PerCall(q) /\ work[q] # "running"
      BY <1>1 DEF DInv, CallInv, PhaseInv
    <3>2. Heard(q)' = Heard(q) /\ Queued(q)' = Queued(q) /\ OnWire(q)' = 0 /\ wire'[q] = <<>>
      BY <1>1 DEF Heard, Queued, OnWire
    <3>3. PerCall(q)'
      BY <1>1, <3>1, <3>2 DEF PerCall
    <3>4. PerWire(q)'
      BY <1>1, <3>1, <3>2 DEF PerWire
    <3> QED BY <3>3, <3>4
  <2> QED BY <2>1 DEF CallInv
<1>6. FrameInv'
  BY <1>3 DEF FrameInv
<1>7. PhaseInv' /\ ReliedInv' /\ SweepStep /\ StaleTurnsSwept'
  BY <1>1 DEF DInv, PhaseInv, ReliedInv, SweepStep, StaleTurnsSwept
<1>8. RowInv'
  <2>1. \A x \in Rows : bornIn[x] \in Nat /\ lives \in Nat
    BY DEF DInv, TypeOK
  <2> QED BY <1>1, <2>1 DEF DInv, RowInv
<1>9. ToolsInStep'
  <2>1. ASSUME NEW t \in Tools PROVE WillHave(t)' <=> t \in catalog
    <3>1. DOMAIN (toPeer') = {1}
      BY <1>1, <1>3
    <3>2. Concerns(toPeer'[1], t)
      BY <1>3 DEF Concerns
    <3>3. WillHave(t)' <=> toPeer'[1].op # "remove" /\ t \in toPeer'[1].tools
      BY <3>1, <3>2 DEF WillHave
    <3> QED BY <1>3, <3>3
  <2> QED BY <1>1, <2>1 DEF ToolsInStep
<1> QED BY <1>4, <1>5, <1>6, <1>7, <1>8, <1>9 DEF StepKept, DInv

\* The host calls.
LEMMA CallStep ==
    ASSUME DInv, NEW r \in Requests, Call(r)
    PROVE  StepKept
<1> DEFINE f == RequestFrame(r)
<1>1. /\ call[r] = "idle" /\ call' = [call EXCEPT ![r] = "open"] /\ pending' = pending \cup {r}
      /\ toPeer' = IF killed \/ ~Alive THEN toPeer ELSE Append(toPeer, f)
      /\ relied' = IF readySeen /\ hostUp /\ ~killed /\ Alive THEN relied \cup {r} ELSE relied
      /\ UNCHANGED <<draining, chain, busy, heard, hostUp, killed, wire, listening, work, said,
                     phase, lives, row, bornIn, registry, catalog, pushes, kills, readySeen,
                     unswept>>
  BY DEF Call, SendRequest, peerVars
<1>2. f \in Frames /\ f.op = "request" /\ f.id = r /\ \A t : ~Concerns(f, t)
  BY DEF RequestFrame, Frames, Concerns
<1>3. CallInv'
  <2>1. TypeOK /\ CallInv /\ SendRequest(r, ~Alive) /\ (~Alive) \in BOOLEAN
    BY DEF DInv, Call
  <2> QED BY <2>1, SendKept
<1>4. work[r] = "none" /\ call'[r] = "open" /\ \A q \in Requests : call[q] # "idle" => call'[q] # "idle"
  BY <1>1 DEF DInv, CallInv, PerCall, TypeOK, IpcTypeOK
<1>5. CASE toPeer' = toPeer /\ (killed \/ ~Alive)
  <2>1. IpcTypeOK'
    <3>1. call' \in [Requests -> Promises] /\ pending' \subseteq Requests
      BY <1>1 DEF DInv, TypeOK, IpcTypeOK, Promises
    <3>2. draining' \subseteq Requests
      BY <1>1 DEF DInv, TypeOK, IpcTypeOK
    <3>3. \A q \in pending' \cup draining' : call'[q] = "open"
      BY <1>3, <3>1, <3>2 DEF CallInv, PerCall
    <3> QED BY <1>1, <1>5, <3>1, <3>3 DEF DInv, TypeOK, IpcTypeOK
  <2>2. FrameInv'
    <3>1. \A i \in 1 .. Len(toPeer) : toPeer[i].op = "request" => call'[toPeer[i].id] # "idle"
      BY <1>4 DEF DInv, FrameInv
    <3> QED BY <1>1, <1>5, <3>1 DEF DInv, FrameInv
  <2>3. \A q \in Requests : Asked(q)' <=> Asked(q)
    BY <1>5 DEF Asked, RequestFrame
  <2>4. \A t : WillHave(t)' <=> WillHave(t)
    BY <1>1, <1>5, ToolsUnchanged
  <2>6. ReliedInv'
    <3>1. relied \subseteq Requests
      BY DEF DInv, TypeOK
    <3> QED BY <1>1, <1>5, <2>3, <3>1 DEF DInv, ReliedInv
  <2>7. DaemonTyped' /\ PhaseInv'
    BY <1>1 DEF DInv, TypeOK, DaemonTyped, PhaseInv, Alive
  <2>8. RowInv' /\ StaleTurnsSwept' /\ SweepStep /\ ToolsInStep'
    BY <1>1, <2>4 DEF DInv, RowInv, StaleTurnsSwept, SweepStep, ToolsInStep, Alive
  <2> QED BY <1>3, <2>1, <2>2, <2>6, <2>7, <2>8, Typed DEF StepKept, DInv
<1>6. CASE toPeer' = Append(toPeer, f)
  <2>1. /\ FrameInv' /\ toPeer' \in Seq(Frames)
        /\ \A q \in Requests : Asked(q) \/ f = RequestFrame(q) => Asked(q)'
    BY <1>1, <1>2, <1>4, <1>6, FramesMore DEF DInv
  <2>2. IpcTypeOK'
    <3>1. call' \in [Requests -> Promises] /\ pending' \subseteq Requests
      BY <1>1 DEF DInv, TypeOK, IpcTypeOK, Promises
    <3>2. draining' \subseteq Requests
      BY <1>1 DEF DInv, TypeOK, IpcTypeOK
    <3>3. \A q \in pending' \cup draining' : call'[q] = "open"
      BY <1>3, <3>1, <3>2 DEF CallInv, PerCall
    <3> QED BY <1>1, <2>1, <3>1, <3>3 DEF DInv, TypeOK, IpcTypeOK
  <2>3. \A t : WillHave(t)' <=> WillHave(t)
    BY <1>1, <1>2, <1>6, ToolSent DEF DInv
  <2>4. ReliedInv'
    <3>1. relied \subseteq Requests
      BY DEF DInv, TypeOK
    <3> QED BY <1>1, <2>1, <3>1 DEF DInv, ReliedInv
  <2>5. DaemonTyped'
    BY <1>1 DEF DInv, TypeOK, DaemonTyped
  <2>6. PhaseInv'
    BY <1>1 DEF DInv, PhaseInv, Alive
  <2>7. RowInv' /\ StaleTurnsSwept' /\ SweepStep /\ ToolsInStep'
    BY <1>1, <2>3 DEF DInv, RowInv, StaleTurnsSwept, SweepStep, ToolsInStep, Alive
  <2> QED BY <1>3, <2>1, <2>2, <2>4, <2>5, <2>6, <2>7, Typed DEF StepKept, DInv
<1> QED BY <1>1, <1>5, <1>6

\* The host changes its catalog.
LEMMA PushStep ==
    ASSUME DInv, NEW op \in {"add", "remove"}, NEW t \in Tools, Push(op, t)
    PROVE  StepKept
<1> DEFINE f == [op |-> op, tools |-> {t}, id |-> NoRequest]
<1>1. /\ pushes' = pushes + 1
      /\ \/ op = "add" /\ t \notin catalog /\ catalog' = catalog \cup {t}
         \/ op = "remove" /\ t \in catalog /\ catalog' = catalog \ {t}
      /\ toPeer' = IF Alive THEN Append(toPeer, f) ELSE toPeer
      /\ UNCHANGED <<call, pending, draining, chain, busy, heard, hostUp, killed, wire, listening,
                     work, said, phase, lives, row, bornIn, registry, kills, readySeen, relied,
                     unswept>>
  BY DEF Push, hostVars, peerVars
<1>2. f \in Frames /\ f.op # "request"
  BY DEF Frames
<1>3. CallInv'
  BY <1>1, Untouched DEF DInv, CallInv
<1>4. /\ FrameInv' /\ toPeer' \in Seq(Frames)
      /\ \A q \in Requests : Asked(q) => Asked(q)'
  <2>1. CASE Alive
    BY <1>1, <1>2, <2>1, FramesMore DEF DInv
  <2>2. CASE ~Alive
    BY <1>1, <2>2 DEF DInv, FrameInv, TypeOK, IpcTypeOK, Asked, RequestFrame
  <2> QED BY <2>1, <2>2
<1>5. ToolsInStep'
  <2>1. SUFFICES ASSUME Alive, NEW u \in Tools PROVE WillHave(u)' <=> u \in catalog'
    BY <1>1 DEF ToolsInStep, Alive
  <2>2. WillHave(u)' <=> IF Concerns(f, u) THEN Brings(f, u) ELSE WillHave(u)
    BY <1>1, <1>2, <2>1, ToolSent DEF DInv
  <2>3. Concerns(f, u) <=> u = t
    BY DEF Concerns
  <2>4. Brings(f, u) <=> op = "add" /\ u = t
    BY DEF Brings
  <2>5. WillHave(u) <=> u \in catalog
    BY <2>1 DEF DInv, ToolsInStep
  <2> QED BY <1>1, <2>2, <2>3, <2>4, <2>5
<1>6. TypeOK'
  BY <1>1, <1>4 DEF DInv, TypeOK, IpcTypeOK
<1>7. PhaseInv' /\ RowInv' /\ StaleTurnsSwept' /\ SweepStep
  BY <1>1 DEF DInv, PhaseInv, RowInv, StaleTurnsSwept, SweepStep
<1>8. ReliedInv'
  BY <1>1, <1>4 DEF DInv, TypeOK, ReliedInv
<1> QED BY <1>3, <1>4, <1>5, <1>6, <1>7, <1>8 DEF StepKept, DInv

\* The process takes the first frame: init, a push or a request.
LEMMA ReceiveSteps ==
    ASSUME DInv, ReceiveInit \/ ReceivePush \/ ReceiveRequest
    PROVE  StepKept
<1>1. /\ toPeer # <<>> /\ DropFrame /\ TypeOK /\ FrameInv /\ CallInv /\ PhaseInv
      /\ phase \in {"waiting", "binding", "serving", "draining"}
  BY DEF ReceiveInit, ReceivePush, ReceiveRequest, DInv
<1>2. /\ toPeer' \in Seq(Frames) /\ NextFrame = toPeer[1] /\ NextFrame \in Frames
      /\ 1 \in 1 .. Len(toPeer)
  BY <1>1, QueueDropped
<1>3. CASE ReceiveInit \/ ReceivePush
  <2>1. /\ UNCHANGED <<call, pending, draining, chain, busy, heard, hostUp, killed, wire,
                       listening, work, said, lives, row, bornIn, catalog, pushes, kills, relied,
                       unswept>>
        /\ NextFrame.op \in {"init", "add", "remove"}
    BY <1>3 DEF ReceiveInit, ReceivePush, hostVars, peerVars
  <2>2. /\ FrameInv'
        /\ \A q \in Requests : Asked(q) => Asked(q)' \/ NextFrame = RequestFrame(q)
    BY <1>1, <2>1, FramesLeft
  <2>3. \A q \in Requests : Asked(q) => Asked(q)'
    BY <2>1, <2>2 DEF RequestFrame
  <2>4. CallInv'
    BY <2>1, Untouched DEF DInv, CallInv
  <2>5. /\ \A t : t \in registry' <=> IF Concerns(NextFrame, t) THEN Brings(NextFrame, t)
                                                              ELSE t \in registry
        /\ registry' \subseteq Tools
        /\ \/ phase' = phase /\ readySeen' = readySeen
           \/ phase = "waiting" /\ phase' = "binding" /\ readySeen' = FALSE
    <3>1. NextFrame.tools \subseteq Tools /\ registry \subseteq Tools
      BY <1>2 DEF Frames, DInv, TypeOK
    <3>2. CASE ReceiveInit
      <4>1. /\ NextFrame.op = "init" /\ registry' = NextFrame.tools /\ phase = "waiting"
            /\ phase' = "binding" /\ readySeen' = FALSE
        BY <3>2 DEF ReceiveInit, ReadySent
      <4>2. \A t : t \in registry' <=> IF Concerns(NextFrame, t) THEN Brings(NextFrame, t)
                                                              ELSE t \in registry
        BY <4>1 DEF Concerns, Brings
      <4> QED BY <3>1, <4>1, <4>2
    <3>3. CASE ReceivePush
      <4>1. /\ NextFrame.op \in {"add", "remove"} /\ PushHeard /\ phase' = phase /\ readySeen' = readySeen
            /\ registry' = IF NextFrame.op = "add" THEN registry \cup NextFrame.tools
                                                  ELSE registry \ NextFrame.tools
        BY <3>3 DEF ReceivePush, PushHeard
      <4>2. \A t : t \in registry' <=> IF Concerns(NextFrame, t) THEN Brings(NextFrame, t)
                                                              ELSE t \in registry
        BY <4>1 DEF Concerns, Brings
      <4> QED BY <3>1, <4>1, <4>2
    <3> QED BY <1>3, <3>2, <3>3
  <2>6. ToolsInStep'
    <3>1. \A t : WillHave(t)' <=> WillHave(t)
      BY <1>1, <2>5, ToolTaken
    <3> QED BY <1>1, <2>1, <3>1 DEF DInv, ToolsInStep, Alive
  <2>7. IpcTypeOK' /\ DaemonTyped'
    BY <1>1, <1>2, <2>1, <2>5 DEF TypeOK, IpcTypeOK, DaemonTyped, Phases
  <2>8. PhaseInv' /\ RowInv' /\ StaleTurnsSwept' /\ SweepStep
    BY <1>1, <2>1, <2>5 DEF DInv, PhaseInv, RowInv, StaleTurnsSwept, SweepStep
  <2>9. ReliedInv'
    BY <2>1, <2>3, <2>5 DEF DInv, TypeOK, ReliedInv
  <2> QED BY <2>2, <2>4, <2>6, <2>7, <2>8, <2>9, Typed DEF StepKept, DInv
<1>4. CASE ReceiveRequest
  <2> DEFINE r == NextFrame.id
  <2>1. /\ phase \in {"binding", "serving", "draining"} /\ NextFrame.op = "request"
        /\ TakeRequest(r) /\ UNCHANGED daemonVars
        /\ work' = IF listening THEN [work EXCEPT ![r] = "running"] ELSE work
        /\ UNCHANGED <<call, pending, draining, chain, busy, heard, hostUp, killed, wire, listening, said>>
    BY <1>4 DEF ReceiveRequest, TakeRequest, hostVars
  <2>2. r \in Requests /\ work[r] = "none" /\ call[r] # "idle" /\ NextFrame = RequestFrame(r)
    BY <1>1, <1>2, <2>1 DEF FrameInv
  <2>3. listening => hostUp /\ phase = "serving"
    BY <1>1 DEF PhaseInv
  <2>4. CallInv'
    BY <1>1, <2>1, <2>2, <2>3, TakenKept
  <2>5. \A q \in Requests : work'[q] # work[q] => q = r /\ listening /\ work'[q] = "running"
    BY <1>1, <2>1 DEF TypeOK, IpcTypeOK
  <2>6. /\ FrameInv'
        /\ \A q \in Requests : Asked(q) => Asked(q)' \/ NextFrame = RequestFrame(q)
    BY <1>1, <2>1, <2>5, FramesLeft
  <2>7. UNCHANGED <<phase, lives, row, bornIn, registry, catalog, pushes, kills, readySeen, relied,
                    unswept>>
    BY <2>1 DEF daemonVars
  <2>8. ToolsInStep'
    <3>1. \A t : ~Concerns(NextFrame, t)
      BY <2>1 DEF Concerns
    <3>2. \A t : WillHave(t)' <=> WillHave(t)
      BY <1>1, <2>7, <3>1, ToolTaken
    <3> QED BY <2>7, <3>2 DEF DInv, ToolsInStep, Alive
  <2>9. IpcTypeOK'
    <3>1. work' \in [Requests -> {"none", "running", "over"}]
      BY <1>1, <2>1 DEF TypeOK, IpcTypeOK
    <3> QED BY <1>1, <1>2, <2>1, <3>1 DEF TypeOK, IpcTypeOK
  <2>10. DaemonTyped' /\ RowInv' /\ StaleTurnsSwept' /\ SweepStep
    BY <1>1, <2>7 DEF DInv, TypeOK, DaemonTyped, RowInv, StaleTurnsSwept, SweepStep
  <2>11. PhaseInv'
    BY <1>1, <2>1, <2>3, <2>5, <2>7 DEF PhaseInv
  <2>12. ReliedInv'
    <3>1. SUFFICES ASSUME phase = "serving", NEW q \in relied PROVE work'[q] # "none" \/ Asked(q)'
      BY <2>7 DEF ReliedInv
    <3>2. q \in Requests /\ (work[q] # "none" \/ Asked(q))
      BY <1>1, <3>1 DEF DInv, ReliedInv, TypeOK
    <3>3. CASE work[q] # "none"
      BY <2>5, <3>2, <3>3
    <3>4. CASE NextFrame = RequestFrame(q)
      <4>1. q = r
        BY <3>4 DEF RequestFrame
      <4>2. listening
        BY <1>1, <3>1 DEF PhaseInv
      <4> QED BY <1>1, <2>1, <2>2, <4>1, <4>2 DEF TypeOK, IpcTypeOK
    <3> QED BY <2>6, <3>2, <3>3, <3>4
  <2> QED BY <2>4, <2>6, <2>8, <2>9, <2>10, <2>11, <2>12, Typed DEF StepKept, DInv
<1> QED BY <1>3, <1>4

\* A turn is recorded, the process serves, it is signalled, it drains.
LEMMA PhaseSteps ==
    ASSUME DInv, Serve \/ Signal \/ Terminate \/ \E r \in Requests : AppendRow(r)
    PROVE  StepKept
<1>1. /\ TypeOK /\ CallInv /\ FrameInv /\ PhaseInv /\ ReliedInv /\ RowInv /\ StaleTurnsSwept
      /\ ToolsInStep
  BY DEF DInv
<1>2. UNCHANGED <<call, pending, draining, chain, busy, heard, hostUp, toPeer, wire, work, said,
                  lives, registry, catalog, pushes, relied>>
  BY DEF Serve, Signal, Terminate, AppendRow, hostVars, ipcVars, peerVars, daemonVars
<1>3. CallInv' /\ FrameInv'
  <2>1. CallInv'
    BY <1>1, <1>2, Untouched DEF CallInv
  <2> QED BY <1>1, <1>2, <2>1 DEF FrameInv
<1>4. \A q \in Requests : Asked(q)' <=> Asked(q)
  BY <1>2 DEF Asked, RequestFrame
<1>5. \A t : WillHave(t)' <=> WillHave(t)
  BY <1>2, ToolsUnchanged
<1>6. row \in [Rows -> RowStatuses] /\ bornIn \in [Rows -> Nat] /\ lives \in Nat
  BY <1>1 DEF TypeOK
<1>7. CASE Serve
  <2>1. /\ phase = "binding" /\ phase' = "serving" /\ listening' = TRUE /\ readySeen' = TRUE
        /\ \/ row' = Recovered(row) /\ unswept' = FALSE /\ kills' = kills
           \/ row' = Backfill(row) /\ unswept' = TRUE /\ kills' = kills + 1
        /\ UNCHANGED <<killed, bornIn>>
    BY <1>7 DEF Serve, ReadySent, hostVars
  <2>2. \A x \in Rows :
          /\ row'[x] \in RowStatuses
          /\ row'[x] = "in_progress" => row[x] = "in_progress"
          /\ row'[x] = "interrupted" /\ row[x] # "interrupted" => row[x] = "in_progress"
          /\ ~unswept' => row'[x] \in Terminals \cup {"absent"}
    BY <1>6, <2>1 DEF Backfill, Recovered, Sweep, Terminals, RowStatuses
  <2>3. row' \in [Rows -> RowStatuses]
    BY <2>1, <2>2 DEF Backfill, Recovered, Sweep
  <2>4. IpcTypeOK' /\ DaemonTyped'
    <3>1. kills' \in Nat
      BY <1>1, <2>1 DEF TypeOK
    <3>2. unswept' \in BOOLEAN /\ readySeen' \in BOOLEAN
      BY <2>1
    <3>3. DaemonTyped'
      BY <1>1, <1>2, <2>1, <2>3, <3>1, <3>2 DEF TypeOK, DaemonTyped, Phases
    <3>4. IpcTypeOK'
      BY <1>1, <1>2, <2>1 DEF TypeOK, IpcTypeOK
    <3> QED BY <3>3, <3>4
  <2>5. PhaseInv' /\ ReliedInv' /\ RowInv' /\ SweepStep
    BY <1>1, <1>2, <1>4, <2>1, <2>2 DEF PhaseInv, ReliedInv, RowInv, SweepStep
  <2>6. StaleTurnsSwept'
    BY <2>2 DEF StaleTurnsSwept
  <2>7. ToolsInStep'
    BY <1>1, <1>2, <1>5, <2>1 DEF ToolsInStep, Alive
  <2> QED BY <1>3, <2>4, <2>5, <2>6, <2>7, Typed DEF StepKept, DInv
<1>8. CASE Signal \/ Terminate
  <2>1. /\ UNCHANGED <<row, bornIn, kills, readySeen, unswept>>
        /\ \/ phase' = phase /\ listening' = listening /\ killed' = TRUE
           \/ phase = "serving" /\ phase' = "draining" /\ listening' = FALSE /\ killed' = killed
    BY <1>8 DEF Signal, Terminate, hostVars, peerVars, daemonVars
  <2>2. IpcTypeOK' /\ DaemonTyped'
    BY <1>1, <1>2, <2>1 DEF TypeOK, IpcTypeOK, DaemonTyped, Phases
  <2>3. PhaseInv' /\ ReliedInv' /\ RowInv' /\ SweepStep /\ StaleTurnsSwept'
    BY <1>1, <1>2, <1>4, <2>1, <2>2 DEF PhaseInv, ReliedInv, RowInv, SweepStep, StaleTurnsSwept, DaemonTyped
  <2>4. ToolsInStep'
    BY <1>1, <1>2, <1>5, <2>1 DEF ToolsInStep, Alive
  <2> QED BY <1>3, <2>2, <2>3, <2>4, Typed DEF StepKept, DInv
<1>9. ASSUME NEW r \in Requests, AppendRow(r) PROVE StepKept
  <2>1. /\ work[r] = "running" /\ row[r] = "absent" /\ row' = [row EXCEPT ![r] = "in_progress"]
        /\ bornIn' = [bornIn EXCEPT ![r] = lives]
        /\ UNCHANGED <<phase, listening, killed, kills, readySeen, unswept>>
    BY <1>9 DEF AppendRow, ipcVars, hostVars, peerVars
  <2>2. phase \in {"serving", "draining"} /\ r \in Rows
    BY <1>1, <2>1 DEF PhaseInv, Rows
  <2>3. IpcTypeOK' /\ DaemonTyped'
    BY <1>1, <1>2, <1>6, <2>1 DEF TypeOK, IpcTypeOK, DaemonTyped, RowStatuses
  <2>4. /\ row'[r] = "in_progress" /\ bornIn'[r] = lives
        /\ \A x \in Rows : x # r => row'[x] = row[x] /\ bornIn'[x] = bornIn[x]
    BY <1>6, <2>1, <2>2
  <2>5. PhaseInv' /\ ReliedInv' /\ SweepStep
    BY <1>1, <1>2, <1>4, <2>1, <2>4, <2>3 DEF PhaseInv, ReliedInv, SweepStep, DaemonTyped
  <2>6. RowInv' /\ StaleTurnsSwept'
    BY <1>1, <1>2, <1>6, <2>1, <2>2, <2>4 DEF RowInv, StaleTurnsSwept
  <2>7. ToolsInStep'
    BY <1>1, <1>2, <1>5, <2>1 DEF ToolsInStep, Alive
  <2> QED BY <1>3, <2>3, <2>5, <2>6, <2>7, Typed DEF StepKept, DInv
<1> QED BY <1>7, <1>8, <1>9

\* Initially nothing has been said and nobody runs.
LEMMA DInit == Init => DInv
<1> SUFFICES ASSUME Init PROVE DInv
  OBVIOUS
<1> USE DEF Init, IpcInit
<1>1. /\ toPeer = <<>> /\ Len(toPeer) = 0
      /\ \A q \in Requests : Heard(q) = 0 /\ Queued(q) = 0 /\ OnWire(q) = 0
  BY DEF Heard, Queued, OnWire
<1>2. IpcTypeOK
  <2>1. /\ <<>> \in Seq(Nat) /\ <<>> \in Seq(Answers) /\ <<>> \in Seq(Frames)
    BY EmptySeq
  <2>2. /\ call \in [Requests -> Promises] /\ said \in [Requests -> Nat]
        /\ work \in [Requests -> {"none", "running", "over"}]
    BY DEF Promises
  <2>3. /\ chain \in [Requests -> Seq(Nat)] /\ heard \in [Requests -> Seq(Nat)]
        /\ wire \in [Requests -> Seq(Answers)] /\ toPeer \in Seq(Frames)
    BY <2>1
  <2>4. /\ pending \cup draining = {} /\ busy = {}
        /\ hostUp = FALSE /\ killed = FALSE /\ listening = FALSE
    OBVIOUS
  <2> QED BY <2>2, <2>3, <2>4 DEF IpcTypeOK
<1>2a. DaemonTyped
  <2>1. row \in [Rows -> RowStatuses]
    BY DEF RowStatuses
  <2>2. bornIn \in [Rows -> Nat]
    OBVIOUS
  <2>3. /\ phase \in Phases /\ lives \in Nat /\ pushes \in Nat /\ kills \in Nat
        /\ registry = {} /\ catalog = {} /\ relied = {} /\ readySeen = FALSE
        /\ unswept = FALSE
    BY DEF Phases
  <2> QED BY <2>1, <2>2, <2>3 DEF DaemonTyped
<1>3. CallInv
  <2>1. ASSUME NEW q \in Requests PROVE PerCall(q) /\ PerWire(q)
    BY <1>1 DEF PerCall, PerWire
  <2> QED BY <2>1 DEF CallInv
<1>4. FrameInv /\ PhaseInv /\ ReliedInv /\ RowInv /\ StaleTurnsSwept /\ ToolsInStep
  BY <1>1 DEF FrameInv, PhaseInv, ReliedInv, RowInv, StaleTurnsSwept, ToolsInStep, Alive
<1> QED BY <1>2, <1>2a, <1>3, <1>4, Typed DEF DInv

\* Every step, and a stutter.
LEMMA DStep == DInv /\ [Next]_vars => StepKept
<1> SUFFICES ASSUME DInv, [Next]_vars PROVE StepKept
  OBVIOUS
<1>1. CASE UNCHANGED vars
  <2>1. /\ UNCHANGED <<daemonVars, toPeer, listening>> /\ UNCHANGED hostUp
        /\ UNCHANGED <<call, pending, draining, chain, busy, heard, killed, wire, work, said>>
    BY <1>1 DEF vars, ipcVars, hostVars, peerVars
  <2>2. IpcTypeOK' /\ CallInv'
    <3>1. CallInv'
      BY <2>1, Untouched DEF DInv, CallInv
    <3> QED BY <2>1, <3>1 DEF DInv, TypeOK, IpcTypeOK
  <2>3. \A q \in Requests : /\ call[q] # "idle" => call'[q] # "idle"
                            /\ work[q] = "none" <=> work'[q] = "none"
                            /\ work'[q] = "running" => work[q] = "running"
    BY <2>1
  <2> QED BY <2>1, <2>2, <2>3, ChannelKept
<1>2. CASE Next
  <2>1. CASE Fork
    BY <2>1, ForkStep
  <2>2. CASE \E r \in Requests : Call(r)
    BY <2>2, CallStep
  <2>3. CASE \E op \in {"add", "remove"}, t \in Tools : Push(op, t)
    BY <2>3, PushStep
  <2>4. CASE StopAdapter \/ \E r \in Requests : HostHears(r) \/ Work(r)
    BY <2>4, ChannelSteps
  <2>5. CASE EarlySigterm \/ InitFails \/ BindFails \/ OpeningFails \/ Exit \/ Kill
    BY <2>5, GoneSteps
  <2>6. CASE ReceiveInit \/ ReceivePush \/ ReceiveRequest
    BY <2>6, ReceiveSteps
  <2>7. CASE Serve \/ Signal \/ Terminate \/ \E r \in Requests : AppendRow(r)
    BY <2>7, PhaseSteps
  <2> QED BY <1>2, <2>1, <2>2, <2>3, <2>4, <2>5, <2>6, <2>7 DEF Next, PeerStep
<1> QED BY <1>1, <1>2

-----------------------------------------------------------------------------
\* The inductive invariant holds in every reachable state.
THEOREM DaemonInvariance == Spec => []DInv
<1>1. Init => DInv
  BY DInit
<1>2. DInv /\ [Next]_vars => DInv'
  BY DStep DEF StepKept
<1> QED BY <1>1, <1>2, PTL DEF Spec

\* The variables of host, channel and process stay within their types.
THEOREM DaemonTypeCorrect == Spec => []TypeOK
<1>1. DInv => TypeOK
  BY DEF DInv
<1> QED BY <1>1, DaemonInvariance, PTL

\* No call waits without an entry and its timer, or a chain that runs out, that
\* will settle it (ipc.js).
THEOREM NeverOrphanedAlways == Spec => []NeverOrphaned
<1>1. DInv => NeverOrphaned
  BY DEF DInv, CallInv, PerCall, NeverOrphaned
<1> QED BY <1>1, DaemonInvariance, PTL

\* A request that was sent on the word of daemon:ready is taken or on its way
\* (agent-core-daemon.js).
THEOREM ReadyIsHeardAlways == Spec => []ReadyIsHeard
<1>1. DInv => ReadyIsHeard
  <2>1. TypeOK => DOMAIN toPeer = 1 .. Len(toPeer)
    BY LenProperties DEF TypeOK, IpcTypeOK
  <2> QED BY <2>1 DEF DInv, ReliedInv, Asked, ReadyIsHeard
<1> QED BY <1>1, DaemonInvariance, PTL

\* The process has, or is about to have, the tools of its host.
THEOREM ToolsInStepAlways == Spec => []ToolsInStep
<1>1. DInv => ToolsInStep
  BY DEF DInv
<1> QED BY <1>1, DaemonInvariance, PTL

\* A process whose sweep has not failed serves with no turn of an earlier life in
\* progress, whether that life ended by SIGTERM, by a kill or while it started
\* (runStartupRecoverySweep).
THEOREM StaleTurnsSweptAlways == Spec => []StaleTurnsSwept
<1>1. DInv => StaleTurnsSwept
  BY DEF DInv
<1> QED BY <1>1, DaemonInvariance, PTL

\* And no sweep touches any other row.
THEOREM SweepSparesAlways == Spec => SweepSpares
<1>1. DInv /\ [Next]_vars => [SweepStep]_vars
  BY DStep DEF StepKept
<1>2. SweepStep => \A x \in Rows : row'[x] = "interrupted" /\ row[x] # "interrupted" =>
                                    row[x] = "in_progress" /\ bornIn[x] < lives
  BY DEF SweepStep
<1> QED BY <1>1, <1>2, DaemonInvariance, PTL DEF Spec, SweepSpares

-----------------------------------------------------------------------------
\* Every step of host and process is a step of Settlement, or none.
LEMMA SettledStep ==
    ASSUME DInv, [Next]_vars
    PROVE  [Promised!Next]_<<call, said, heard>>
<1>1. TypeOK /\ CallInv
  BY DEF DInv
<1>2. CASE UNCHANGED <<call, said, heard>>
  BY <1>2
<1>3. ASSUME NEW r \in Requests, Call(r) PROVE Promised!Open(r)
  BY <1>3 DEF Call, SendRequest, peerVars, Promised!Open
<1>4. ASSUME NEW S \in SUBSET Requests, NEW why \in {"error", "timeout", "stopped"},
             call' = [q \in Requests |-> IF q \in S THEN why ELSE call[q]],
             \A q \in S : call[q] = "open", UNCHANGED <<said, heard>>
      PROVE  Promised!Next
  <2>1. Promised!Fail(S, why)
    BY <1>4 DEF Promised!Fail
  <2>2. why \in Promised!Failures
    BY DEF Promised!Failures
  <2> QED BY <2>1, <2>2 DEF Promised!Next
<1>5. ASSUME NEW r \in Requests, HandleResponse(r) PROVE [Promised!Next]_<<call, said, heard>>
  <2>1. PerCall(r) /\ PerWire(r) /\ UNCHANGED <<said, heard>>
    BY <1>1, <1>5 DEF CallInv, HandleResponse, peerVars
  <2>2. CASE r \in Awaited /\ call' = [call EXCEPT ![r] = "error"]
    <3>1. call[r] = "open"
      BY <2>1, <2>2 DEF Awaited, PerCall
    <3>2. call' = [q \in Requests |-> IF q \in {r} THEN "error" ELSE call[q]]
      BY <1>1, <2>2 DEF TypeOK, IpcTypeOK
    <3> QED BY <1>4, <2>1, <3>1, <3>2
  <2>3. CASE r \in Awaited /\ r \notin Streams /\ call' = [call EXCEPT ![r] = "value"]
    <3>1. call[r] = "open"
      BY <2>1, <2>3 DEF Awaited, PerCall
    <3>2. Promised!Fulfil(r)
      BY <2>1, <2>3, <3>1 DEF Promised!Fulfil
    <3> QED BY <3>2 DEF Promised!Next
  <2> QED BY <1>2, <1>5, <2>1, <2>2, <2>3 DEF HandleResponse, Terminal
<1>6. ASSUME NEW r \in Requests, StartChunk(r) PROVE Promised!Hear(r)
  <2>1. /\ chain[r] # <<>> /\ heard' = [heard EXCEPT ![r] = Append(@, Head(chain[r]))]
        /\ UNCHANGED <<call, said>>
    BY <1>6 DEF StartChunk, peerVars
  <2>2. chain[r] \in Seq(Nat) /\ PerCall(r)
    BY <1>1 DEF CallInv, TypeOK, IpcTypeOK
  <2>3. Len(chain[r]) \in Nat \ {0} /\ Head(chain[r]) = chain[r][1] /\ 1 \in 1 .. Len(chain[r])
    BY <2>1, <2>2, EmptySeq
  <2>4. Head(chain[r]) = Len(heard[r]) + 1
    BY <2>2, <2>3 DEF PerCall, Heard, Queued
  <2>5. Len(heard[r]) < said[r]
    <3>1. /\ Heard(r) \in Nat /\ Queued(r) \in Nat \ {0} /\ said[r] \in Nat
          /\ Heard(r) + Queued(r) <= said[r]
      BY <1>1, <2>2, <2>3, LenProperties DEF PerCall, Heard, Queued, TypeOK, IpcTypeOK
    <3>2. Heard(r) < said[r]
      BY ONLY <3>1
    <3> QED BY <3>2 DEF Heard
  <2>6. r \in Streams /\ call[r] \notin {"idle", "value"}
    BY <2>1, <2>2 DEF PerCall
  <2> QED BY <2>1, <2>4, <2>5, <2>6 DEF Promised!Hear
<1>7. ASSUME NEW r \in Requests, Drained(r) PROVE Promised!Fulfil(r)
  <2>1. /\ r \in draining /\ chain[r] = <<>> /\ call' = [call EXCEPT ![r] = "value"]
        /\ UNCHANGED <<said, heard>>
    BY <1>7 DEF Drained, ChainEmpty, peerVars
  <2>2. PerCall(r) /\ Heard(r) \in Nat /\ Queued(r) = 0 /\ said[r] \in Nat
    BY <1>1, <2>1, LenProperties DEF CallInv, Heard, Queued, TypeOK, IpcTypeOK
  <2>3. call[r] = "open" /\ Heard(r) + Queued(r) = said[r]
    BY <2>1, <2>2 DEF PerCall
  <2>4. Heard(r) = said[r]
    BY ONLY <2>2, <2>3
  <2> QED BY <2>1, <2>3, <2>4 DEF Promised!Fulfil, Heard
<1>8. ASSUME NEW r \in Requests, Timeout(r) PROVE Promised!Next
  <2>1. r \in pending /\ call' = [call EXCEPT ![r] = "timeout"] /\ UNCHANGED <<said, heard>>
    BY <1>8 DEF Timeout, peerVars
  <2>2. call[r] = "open"
    BY <1>1, <2>1 DEF CallInv, PerCall
  <2>3. call' = [q \in Requests |-> IF q \in {r} THEN "timeout" ELSE call[q]]
    BY <1>1, <2>1 DEF TypeOK, IpcTypeOK
  <2> QED BY <1>4, <2>1, <2>2, <2>3
<1>9. CASE StopAdapter
  <2>1. /\ call' = [q \in Requests |-> IF q \in pending THEN "stopped" ELSE call[q]]
        /\ UNCHANGED <<said, heard>>
    BY <1>9 DEF StopAdapter, StopHost, Rejected, peerVars
  <2>2. pending \in SUBSET Requests /\ \A q \in pending : call[q] = "open"
    BY <1>1 DEF TypeOK, IpcTypeOK
  <2> QED BY <1>4, <2>1, <2>2
<1>10. ASSUME NEW r \in Requests, Work(r) PROVE [Promised!Next]_<<call, said, heard>>
  <2>1. CASE EmitChunk(r)
    <3>1. PerCall(r) /\ work[r] = "running"
      BY <1>1, <2>1 DEF CallInv, EmitChunk
    <3>2. Promised!Say(r)
      BY <2>1, <3>1 DEF PerCall, EmitChunk, hostVars, Promised!Say
    <3> QED BY <3>2 DEF Promised!Next
  <2>2. CASE \E kind \in {"result", "error"} : Answer(r, kind)
    BY <1>2, <2>2 DEF Answer, hostVars
  <2> QED BY <1>10, <2>1, <2>2 DEF Work
<1>11. ASSUME NEW r \in Requests, HostHears(r) PROVE [Promised!Next]_<<call, said, heard>>
  <2>1. CASE EndChunk(r)
    BY <1>2, <2>1 DEF EndChunk, peerVars
  <2> QED BY <1>5, <1>6, <1>7, <1>8, <1>11, <2>1 DEF HostHears, HostStep, Promised!Next
<1>12. CASE \/ Fork \/ Signal \/ PeerStep \/ EarlySigterm \/ InitFails \/ BindFails \/ OpeningFails
            \/ Kill
            \/ \E r \in Requests : AppendRow(r)
            \/ \E op \in {"add", "remove"}, t \in Tools : Push(op, t)
  <2>1. CASE Fork \/ Signal \/ (\E r \in Requests : AppendRow(r))
             \/ (\E op \in {"add", "remove"}, t \in Tools : Push(op, t))
    BY <1>2, <2>1 DEF Fork, Signal, AppendRow, Push, ipcVars, hostVars, peerVars
  <2>2. CASE EarlySigterm \/ InitFails \/ BindFails \/ OpeningFails \/ Kill \/ Exit
    BY <1>2, <2>2 DEF EarlySigterm, InitFails, BindFails, OpeningFails, Kill, Exit, Gone, LosePeer, hostVars
  <2>3. CASE ReceiveInit \/ Serve \/ ReceivePush \/ ReceiveRequest \/ Terminate
    BY <1>2, <2>3 DEF ReceiveInit, Serve, ReceivePush, ReceiveRequest, TakeRequest, Terminate,
                      hostVars, peerVars
  <2> QED BY <1>12, <2>1, <2>2, <2>3 DEF PeerStep
<1>13. CASE UNCHANGED vars
  BY <1>2, <1>13 DEF vars, ipcVars, hostVars, peerVars
<1> QED BY <1>3, <1>9, <1>10, <1>11, <1>12, <1>13 DEF Next, Promised!Next

\* Calls over the adapter keep the promise of Settlement, for any number of them
\* and whatever happens to the process: settled once, chunks in order, and all of
\* them before the value.
THEOREM SettlementImplemented == Spec => ImplementsSettlement
<1>1. Init => Promised!Init
  BY DEF Init, IpcInit, Promised!Init
<1>2. DInv /\ [Next]_vars => [Promised!Next]_<<call, said, heard>>
  BY SettledStep
<1> QED BY <1>1, <1>2, DaemonInvariance, PTL DEF Spec, ImplementsSettlement, Promised!Spec

=============================================================================
