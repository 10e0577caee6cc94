---------------------------- MODULE NewtConfigProofs ----------------------------
(***************************************************************************)
(* Proofs about NewtProto and NewtConfig, for any number of senders, of    *)
(* chain ids, of exit nodes and of versions.                               *)
(***************************************************************************)
EXTENDS NewtConfig, TLAPS

-----------------------------------------------------------------------------
(* The buffers.                                                            *)

LEMMA FirstWritten ==
    ASSUME NEW b \in Chars \X Chars, NEW c
    PROVE  [b EXCEPT ![1] = c] = <<c, b[2]>>
OBVIOUS

LEMMA SecondWritten ==
    ASSUME NEW b \in Chars \X Chars, NEW c
    PROVE  [b EXCEPT ![2] = c] = <<b[1], c>>
OBVIOUS

-----------------------------------------------------------------------------
(* The invariant of NewtProto.                                             *)

Busy(t) == spc[t] # Idle

\* Ids are numbered in the order they are drawn, and what is sent ends in one.
Numbered ==
    /\ latest <= ids
    /\ \A t \in Senders : Busy(t) =>
          /\ spc[t].id \in 1..ids
          /\ spc[t].step = "full" => inflight[spc[t].kind][2] # 0
    /\ \A q \in requests : q[2][2] # 0

\* The rest holds as long as no two accesses of a buffer overlapped.

\* One sender at a time for each kind of request.
Solo == \A t, u \in Senders : Busy(t) /\ spc[u].kind = spc[t].kind => u = t

\* The id a sender drew is the one in its buffer, and nobody else has sent it.
Drawn ==
    \A t \in Senders : Busy(t) =>
        /\ inflight[spc[t].kind][1] = spc[t].id
        /\ spc[t].step = "full" => inflight[spc[t].kind] = Id(spc[t].id)
        /\ spc[t].kind = "register" => spc[t].id = latest
        /\ \A q \in requests : q[2] # Id(spc[t].id)
        /\ \A u \in Senders : Busy(u) /\ spc[u].id = spc[t].id => u = t

\* Every request the server has got has a whole id of its own.
Whole ==
    \A q \in requests :
        /\ q[2][1] \in 1..ids /\ q[2] = Id(q[2][1])
        /\ \A r \in requests : q[2] = r[2] => q = r

\* What handle_wg_connect works on: a reply without chainId, or one to a request
\* the server has got, and then to the one in flight if there is one.
Handled ==
    HandlingConnect =>
        /\ ~Writing("register")
        /\ reply # NoChain =>
              /\ \E q \in requests : q[2] = reply
              /\ IsEmpty(inflight["register"]) \/ reply = inflight["register"]
        /\ wpc = "clear" => reply \in applied

\* The register request in flight is the latest, or its own reply was applied.
Consumed ==
    ~Writing("register") /\ latest # 0 =>
        \/ inflight["register"] = Id(latest)
        \/ IsEmpty(inflight["register"]) /\ Id(latest) \in applied

Clean == Solo /\ Drawn /\ Whole /\ Handled /\ Consumed

ProtoInv == TypeOK /\ Numbered /\ (~raced => Clean)

LEMMA ProtoInitHolds == Init => ProtoInv
<1> SUFFICES ASSUME Init PROVE ProtoInv
  OBVIOUS
<1>1. 0 \in 0..MaxVersion /\ 0 \in 0..MaxIds
  BY VersionAssumption, IdsAssumption
<1>2. TypeOK
  BY <1>1 DEF Init, TypeOK, Chars, Chains
<1>3. \A t \in Senders : ~Busy(t)
  BY DEF Init, Busy
<1>4. Numbered
  BY <1>3 DEF Init, Numbered
<1>5. Clean
  BY <1>3 DEF Init, Clean, Solo, Drawn, Whole, Handled, Consumed,
              HandlingConnect
<1>. QED
  BY <1>2, <1>4, <1>5 DEF ProtoInv

-----------------------------------------------------------------------------
(* What the steps do.                                                      *)

LEMMA SenderShape ==
    ASSUME TypeOK, NEW t \in Senders
    PROVE  /\ Busy(t) <=> spc[t] \in Sends
           /\ Busy(t) => spc[t].kind \in Kinds /\ spc[t].step \in {"half", "full"}
                         /\ spc[t].id \in Chars
           /\ ~Busy(t) => spc[t].kind = "none" /\ spc[t].step = "idle"
BY DEF TypeOK, Busy, Idle, Sends, Kinds

LEMMA BeginsEffect ==
    ASSUME TypeOK, NEW t \in Senders, NEW k \in Kinds, SendBegins(t, k)
    PROVE  /\ ~Busy(t) /\ ids' = ids + 1 /\ ids \in Nat /\ ids + 1 \in Chars /\ ids < MaxIds
           /\ inflight' = [inflight EXCEPT ![k] = <<ids + 1, inflight[k][2]>>]
           /\ spc' = [spc EXCEPT ![t] = [kind |-> k, step |-> "half", id |-> ids + 1]]
           /\ latest' = IF k = "register" THEN ids + 1 ELSE latest
           /\ ~raced' => /\ ~raced
                         /\ \A u \in Senders \ {t} : spc[u].kind # k
                         /\ k = "register" => ~HandlingConnect
           /\ UNCHANGED <<version, exitNode, wpc, reply, requests, applied>>
<1>1. ids \in Nat /\ ids + 1 \in Chars /\ ids < MaxIds
  BY IdsAssumption DEF TypeOK, SendBegins, Chars
<1>2. inflight' = [inflight EXCEPT ![k] = <<ids + 1, inflight[k][2]>>]
  BY DEF SendBegins
<1>3. ~raced' => /\ ~raced
                 /\ \A u \in Senders \ {t} : spc[u].kind # k
                 /\ k = "register" => ~HandlingConnect
  BY Zenon DEF SendBegins
<1>4. /\ ~Busy(t) /\ ids' = ids + 1
      /\ spc' = [spc EXCEPT ![t] = [kind |-> k, step |-> "half", id |-> ids + 1]]
      /\ latest' = IF k = "register" THEN ids + 1 ELSE latest
      /\ UNCHANGED <<version, exitNode, wpc, reply, requests, applied>>
  BY Zenon DEF SendBegins, Busy
<1>. QED
  BY <1>1, <1>2, <1>3, <1>4

LEMMA FinishesEffect ==
    ASSUME TypeOK, NEW t \in Senders, SendFinishesId(t)
    PROVE  /\ Busy(t) /\ spc[t].step = "half"
           /\ inflight' = [inflight EXCEPT ![spc[t].kind]
                                        = <<inflight[spc[t].kind][1], spc[t].id>>]
           /\ spc' = [spc EXCEPT ![t] = [kind |-> spc[t].kind, step |-> "full",
                                         id |-> spc[t].id]]
           /\ UNCHANGED <<version, exitNode, ids, wpc, reply, requests, latest,
                          applied, raced>>
<1>1. Busy(t) /\ spc[t] \in Sends
  BY SenderShape DEF SendFinishesId, Busy, Idle
<1>2. spc[t].kind \in Kinds /\ spc[t].id \in Chars
  BY <1>1, SenderShape
<1>3. inflight' = [inflight EXCEPT ![spc[t].kind]
                                = <<inflight[spc[t].kind][1], spc[t].id>>]
  <2>1. inflight[spc[t].kind] \in Chars \X Chars
    BY <1>2 DEF TypeOK
  <2>2. [inflight[spc[t].kind] EXCEPT ![2] = spc[t].id]
          = <<inflight[spc[t].kind][1], spc[t].id>>
    BY <2>1, SecondWritten
  <2>. QED
    BY <2>2 DEF SendFinishesId
<1>4. [spc[t] EXCEPT !.step = "full"]
        = [kind |-> spc[t].kind, step |-> "full", id |-> spc[t].id]
  BY <1>1 DEF Sends
<1>. QED
  BY <1>1, <1>3, <1>4 DEF SendFinishesId

LEMMA ClearedEffect ==
    ASSUME TypeOK, ConnectCleared
    PROVE  /\ wpc = "clear" /\ wpc' = "idle" /\ reply' = NoChain
           /\ \/ reply = NoChain /\ inflight' = inflight
              \/ /\ reply # NoChain
                 /\ inflight' = [inflight EXCEPT !["register"]
                                              = <<0, inflight["register"][2]>>]
           /\ UNCHANGED <<version, exitNode, spc, ids, requests, latest, applied,
                          raced>>
<1>1. 0 \in Chars /\ "register" \in Kinds
  BY IdsAssumption DEF Chars, Kinds
<1>2. [inflight["register"] EXCEPT ![1] = 0] = <<0, inflight["register"][2]>>
  <2>1. inflight["register"] \in Chars \X Chars
    BY <1>1 DEF TypeOK
  <2>. QED
    BY <2>1, FirstWritten
<1>. QED
  BY <1>2 DEF ConnectCleared

LEMMA ExitNodesEffect ==
    ASSUME TypeOK, ExitNodes
    PROVE  /\ wpc = "idle"
           /\ \/ inflight' = inflight
              \/ /\ inflight' = [inflight EXCEPT !["ping"] = <<0, inflight["ping"][2]>>]
                 /\ \/ IsEmpty(inflight["ping"])
                    \/ \E q \in requests : q[2] = inflight["ping"]
           /\ exitNode' \in Nodes \cup {exitNode} /\ SeesVersion
           /\ raced' = (raced \/ Writing("ping"))
           /\ UNCHANGED <<spc, ids, wpc, reply, requests, latest, applied>>
<1>1. 0 \in Chars /\ "ping" \in Kinds
  BY IdsAssumption DEF Chars, Kinds
<1>2. PICK c \in Answers("ping") :
          /\ Matches("ping", c)
          /\ inflight' = IF c = NoChain THEN inflight
                         ELSE [inflight EXCEPT !["ping"][1] = 0]
  BY DEF ExitNodes
<1>3. c = NoChain \/ \E q \in requests : q[2] = c
  BY DEF Answers
<1>4. CASE c = NoChain
  BY <1>2, <1>4 DEF ExitNodes
<1>5. CASE c # NoChain
  <2>1. [inflight["ping"] EXCEPT ![1] = 0] = <<0, inflight["ping"][2]>>
    <3>1. inflight["ping"] \in Chars \X Chars
      BY <1>1 DEF TypeOK
    <3>. QED
      BY <3>1, FirstWritten
  <2>. QED
    BY <1>2, <1>3, <1>5, <2>1 DEF ExitNodes, Matches
<1>. QED
  BY <1>4, <1>5

LEMMA AcceptedEffect ==
    ASSUME TypeOK, ConnectAccepted
    PROVE  /\ wpc = "idle" /\ wpc' = "apply" /\ SeesVersion
           /\ reply' # NoChain =>
                 /\ \E q \in requests : q[2] = reply'
                 /\ IsEmpty(inflight["register"]) \/ reply' = inflight["register"]
           /\ reply' \in Chains
           /\ raced' = (raced \/ Writing("register"))
           /\ UNCHANGED <<inflight, exitNode, spc, ids, requests, latest, applied>>
<1>1. PICK c \in Answers("register") : Matches("register", c) /\ reply' = c
  BY DEF ConnectAccepted
<1>2. c = NoChain \/ \E q \in requests : q[2] = c
  BY DEF Answers
<1>. QED
  BY <1>1, <1>2 DEF ConnectAccepted, Matches, TypeOK, Chains

LEMMA VersionTyped == TypeOK /\ SeesVersion => version' \in 0..MaxVersion
BY DEF TypeOK, SeesVersion

LEMMA ProtoTyped == TypeOK /\ Next => TypeOK'
<1> SUFFICES ASSUME TypeOK, Next PROVE TypeOK'
  OBVIOUS
<1>1. ASSUME NEW t \in Senders, NEW k \in Kinds, SendBegins(t, k) PROVE TypeOK'
  <2>1. /\ ids' \in 0..MaxIds /\ latest' \in 0..MaxIds
    <3>1. ids + 1 \in 0..MaxIds
      BY <1>1, BeginsEffect DEF Chars
    <3>. QED
      BY <1>1, <3>1, BeginsEffect DEF TypeOK
  <2>2. inflight' \in [Kinds -> Chars \X Chars]
    BY <1>1, BeginsEffect DEF TypeOK
  <2>3. spc' \in [Senders -> {Idle} \cup Sends]
    BY <1>1, BeginsEffect DEF TypeOK, Sends
  <2>4. raced' \in BOOLEAN
    BY <1>1, Zenon DEF SendBegins
  <2>. QED
    BY <1>1, <2>1, <2>2, <2>3, <2>4, BeginsEffect DEF TypeOK
<1>2. ASSUME NEW t \in Senders, SendFinishesId(t) PROVE TypeOK'
  <2>1. spc[t].kind \in Kinds /\ spc[t].id \in Chars
    BY <1>2, FinishesEffect, SenderShape
  <2>2. inflight' \in [Kinds -> Chars \X Chars]
    BY <1>2, <2>1, FinishesEffect DEF TypeOK
  <2>3. spc' \in [Senders -> {Idle} \cup Sends]
    BY <1>2, <2>1, FinishesEffect DEF TypeOK, Sends
  <2>. QED
    BY <1>2, <2>2, <2>3, FinishesEffect DEF TypeOK
<1>3. ASSUME NEW t \in Senders, SendTransmits(t) PROVE TypeOK'
  <2>1. spc[t].kind \in Kinds
    BY <1>3, SenderShape DEF SendTransmits
  <2>. QED
    BY <1>3, <2>1 DEF SendTransmits, TypeOK
<1>4. CASE ConnectAccepted
  <2>1. raced' \in BOOLEAN /\ wpc' \in {"idle", "apply", "clear"}
    BY <1>4, Zenon DEF ConnectAccepted
  <2>. QED
    BY <1>4, <2>1, AcceptedEffect, VersionTyped DEF TypeOK
<1>5. CASE ConnectDropped \/ OtherMessage
  <2>1. raced' \in BOOLEAN
    BY <1>5, Zenon DEF ConnectDropped, OtherMessage, TypeOK
  <2>. QED
    BY <1>5, <2>1, VersionTyped DEF ConnectDropped, OtherMessage, TypeOK
<1>6. CASE ConnectApplied
  BY <1>6 DEF ConnectApplied, TypeOK
<1>7. CASE ConnectCleared
  <2>1. inflight' \in [Kinds -> Chars \X Chars]
    <3>1. 0 \in Chars
      BY IdsAssumption DEF Chars
    <3>. QED
      BY <1>7, <3>1, ClearedEffect DEF TypeOK
  <2>. QED
    BY <1>7, <2>1, ClearedEffect DEF TypeOK, Chains
<1>8. CASE ExitNodes
  <2>1. inflight' \in [Kinds -> Chars \X Chars]
    <3>1. 0 \in Chars
      BY IdsAssumption DEF Chars
    <3>. QED
      BY <1>8, <3>1, ExitNodesEffect DEF TypeOK
  <2>2. raced' \in BOOLEAN
    BY <1>8, ExitNodesEffect, Zenon
  <2>. QED
    BY <1>8, <2>1, <2>2, ExitNodesEffect, VersionTyped DEF TypeOK
<1>. QED
  BY <1>1, <1>2, <1>3, <1>4, <1>5, <1>6, <1>7, <1>8 DEF Next, Worker

-----------------------------------------------------------------------------
(* The numbering, which no overlap disturbs.                               *)

\* The effects above, sender by sender and buffer by buffer.
LEMMA BeginsAfter ==
    ASSUME TypeOK, NEW t \in Senders, NEW k \in Kinds, SendBegins(t, k)
    PROVE  /\ Busy(t)' /\ spc'[t].kind = k /\ spc'[t].step = "half"
           /\ spc'[t].id = ids + 1
           /\ \A u \in Senders : u # t => spc'[u] = spc[u]
           /\ inflight'[k] = <<ids + 1, inflight[k][2]>>
           /\ \A j \in Kinds : j # k => inflight'[j] = inflight[j]
<1>1. spc' = [spc EXCEPT ![t] = [kind |-> k, step |-> "half", id |-> ids + 1]]
      /\ inflight' = [inflight EXCEPT ![k] = <<ids + 1, inflight[k][2]>>]
  BY BeginsEffect
<1>2. spc'[t] = [kind |-> k, step |-> "half", id |-> ids + 1]
      /\ \A u \in Senders : u # t => spc'[u] = spc[u]
  BY <1>1 DEF TypeOK
<1>3. inflight'[k] = <<ids + 1, inflight[k][2]>>
      /\ \A j \in Kinds : j # k => inflight'[j] = inflight[j]
  BY <1>1 DEF TypeOK
<1>. QED
  BY <1>2, <1>3 DEF Busy, Idle

LEMMA FinishesAfter ==
    ASSUME TypeOK, NEW t \in Senders, SendFinishesId(t)
    PROVE  /\ Busy(t)' /\ spc'[t].kind = spc[t].kind /\ spc'[t].step = "full"
           /\ spc'[t].id = spc[t].id
           /\ \A u \in Senders : u # t => spc'[u] = spc[u]
           /\ inflight'[spc[t].kind] = <<inflight[spc[t].kind][1], spc[t].id>>
           /\ \A j \in Kinds : j # spc[t].kind => inflight'[j] = inflight[j]
<1>1. /\ spc' = [spc EXCEPT ![t] = [kind |-> spc[t].kind, step |-> "full",
                                     id |-> spc[t].id]]
      /\ inflight' = [inflight EXCEPT ![spc[t].kind]
                                   = <<inflight[spc[t].kind][1], spc[t].id>>]
      /\ spc[t].kind \in Kinds
  BY FinishesEffect, SenderShape
<1>2. spc'[t] = [kind |-> spc[t].kind, step |-> "full", id |-> spc[t].id]
      /\ \A u \in Senders : u # t => spc'[u] = spc[u]
  BY <1>1 DEF TypeOK
<1>3. inflight'[spc[t].kind] = <<inflight[spc[t].kind][1], spc[t].id>>
      /\ \A j \in Kinds : j # spc[t].kind => inflight'[j] = inflight[j]
  BY <1>1 DEF TypeOK
<1>. QED
  BY <1>2, <1>3 DEF Busy, Idle

LEMMA TransmitsAfter ==
    ASSUME TypeOK, NEW t \in Senders, SendTransmits(t)
    PROVE  /\ Busy(t) /\ spc[t].step = "full" /\ spc[t].kind \in Kinds
           /\ ~Busy(t)' /\ spc'[t] = Idle
           /\ \A u \in Senders : u # t => spc'[u] = spc[u]
           /\ requests' \subseteq requests \cup {<<spc[t].kind, inflight[spc[t].kind]>>}
           /\ requests \subseteq requests'
           /\ UNCHANGED <<inflight, version, exitNode, ids, wpc, reply, latest,
                          applied, raced>>
<1>1. Busy(t) /\ spc[t].step = "full"
  BY DEF SendTransmits, Busy, Idle
<1>2. spc[t].kind \in Kinds
  BY <1>1, SenderShape
<1>3. spc'[t] = Idle /\ \A u \in Senders : u # t => spc'[u] = spc[u]
  BY DEF SendTransmits, TypeOK
<1>. QED
  BY <1>1, <1>2, <1>3 DEF SendTransmits, Busy

LEMMA WorkerKeeps ==
    ASSUME TypeOK, Worker
    PROVE  /\ UNCHANGED <<spc, ids, requests, latest>>
           /\ \A j \in Kinds : inflight'[j][2] = inflight[j][2]
           /\ raced => raced'
<1>1. CASE ConnectAccepted
  BY <1>1, AcceptedEffect, Zenon
<1>2. CASE ConnectDropped \/ OtherMessage
  <2>1. UNCHANGED <<inflight, spc, ids, requests, latest>>
    BY <1>2 DEF ConnectDropped, OtherMessage
  <2>2. raced' = (raced \/ Writing("register")) \/ raced' = raced
    BY <1>2, Zenon DEF ConnectDropped, OtherMessage
  <2>3. raced => raced'
    BY <2>2, Zenon
  <2>. QED
    BY <2>1, <2>3
<1>3. CASE ConnectApplied
  BY <1>3, Zenon DEF ConnectApplied
<1>4. CASE ConnectCleared
  <2>1. \A j \in Kinds : inflight'[j][2] = inflight[j][2]
    BY <1>4, ClearedEffect DEF TypeOK
  <2>. QED
    BY <1>4, <2>1, ClearedEffect
<1>5. CASE ExitNodes
  <2>1. \A j \in Kinds : inflight'[j][2] = inflight[j][2]
    BY <1>5, ExitNodesEffect DEF TypeOK
  <2>2. raced => raced'
    BY <1>5, ExitNodesEffect, Zenon
  <2>. QED
    BY <1>5, <2>1, <2>2, ExitNodesEffect
<1>. QED
  BY <1>1, <1>2, <1>3, <1>4, <1>5 DEF Worker

LEMMA NumberedKept == TypeOK /\ Numbered /\ Next => Numbered'
<1> SUFFICES ASSUME TypeOK, Numbered, Next PROVE Numbered'
  OBVIOUS
<1>0. ids \in Nat /\ latest \in Nat
  BY IdsAssumption DEF TypeOK
<1>1. ASSUME NEW t \in Senders, NEW k \in Kinds, SendBegins(t, k)
      PROVE  Numbered'
  <2>1. latest' <= ids'
    BY <1>0, <1>1, BeginsEffect DEF Numbered
  <2>2. ASSUME NEW u \in Senders, Busy(u)'
        PROVE  /\ spc'[u].id \in 1..ids'
               /\ spc'[u].step = "full" => inflight'[spc'[u].kind][2] # 0
    <3>1. CASE u = t
      <4>1. ids + 1 \in 1..(ids + 1)
        BY <1>0
      <4>. QED
        BY <1>1, <3>1, <4>1, BeginsEffect, BeginsAfter
    <3>2. CASE u # t
      <4>1. spc'[u] = spc[u] /\ Busy(u)
        BY <1>1, <2>2, <3>2, BeginsAfter DEF Busy
      <4>2. spc[u].id \in 1..ids /\ spc[u].kind \in Kinds
            /\ (spc[u].step = "full" => inflight[spc[u].kind][2] # 0)
        BY <4>1, SenderShape DEF Numbered
      <4>3. spc[u].id \in 1..ids'
        BY <1>0, <1>1, <4>2, BeginsEffect
      <4>4. inflight'[spc[u].kind][2] = inflight[spc[u].kind][2]
        BY <1>1, <4>2, BeginsAfter
      <4>. QED
        BY <4>1, <4>2, <4>3, <4>4
    <3>. QED
      BY <3>1, <3>2
  <2>. QED
    BY <1>1, <2>1, <2>2, BeginsEffect DEF Numbered
<1>2. ASSUME NEW t \in Senders, SendFinishesId(t) PROVE Numbered'
  <2>1. Busy(t) /\ spc[t].id # 0
    BY <1>0, <1>2, FinishesEffect DEF Numbered
  <2>2. ASSUME NEW u \in Senders, Busy(u)'
        PROVE  /\ spc'[u].id \in 1..ids'
               /\ spc'[u].step = "full" => inflight'[spc'[u].kind][2] # 0
    <3>1. CASE u = t
      BY <1>2, <2>1, <3>1, FinishesEffect, FinishesAfter DEF Numbered
    <3>2. CASE u # t
      <4>1. spc'[u] = spc[u] /\ Busy(u)
        BY <1>2, <2>2, <3>2, FinishesAfter DEF Busy
      <4>2. spc[u].id \in 1..ids /\ spc[u].kind \in Kinds
            /\ (spc[u].step = "full" => inflight[spc[u].kind][2] # 0)
        BY <4>1, SenderShape DEF Numbered
      <4>3. \/ inflight'[spc[u].kind] = inflight[spc[u].kind]
            \/ inflight'[spc[u].kind][2] = spc[t].id
        BY <1>2, <4>2, FinishesAfter
      <4>. QED
        BY <1>2, <2>1, <4>1, <4>2, <4>3, FinishesEffect
    <3>. QED
      BY <3>1, <3>2
  <2>. QED
    BY <1>2, <2>2, FinishesEffect DEF Numbered
<1>3. ASSUME NEW t \in Senders, SendTransmits(t) PROVE Numbered'
  <2>1. \A q \in requests' : q[2][2] # 0
    BY <1>3, TransmitsAfter DEF Numbered
  <2>2. \A u \in Senders : Busy(u)' => Busy(u) /\ spc'[u] = spc[u]
    BY <1>3, TransmitsAfter DEF Busy
  <2>. QED
    BY <1>3, <2>1, <2>2, TransmitsAfter DEF Numbered
<1>4. CASE Worker
  <2>1. ASSUME NEW u \in Senders, Busy(u)' PROVE Busy(u) /\ spc[u].kind \in Kinds
    BY <1>4, <2>1, WorkerKeeps, SenderShape DEF Busy
  <2>. QED
    BY <1>4, <2>1, WorkerKeeps DEF Numbered
<1>. QED
  BY <1>1, <1>2, <1>3, <1>4 DEF Next

-----------------------------------------------------------------------------
(* What holds as long as no accesses overlapped: one lemma for each step.  *)

LEMMA BeginsClean ==
    ASSUME TypeOK, Numbered, Clean, NEW t \in Senders, NEW k \in Kinds,
           SendBegins(t, k), ~raced'
    PROVE  Clean'
<1>0. ids \in Nat /\ latest \in Nat
  BY IdsAssumption DEF TypeOK
<1>1. /\ \A u \in Senders : u # t => spc'[u] = spc[u] /\ spc[u].kind # k
      /\ k = "register" => ~HandlingConnect
  BY BeginsEffect, BeginsAfter
<1>2. Solo'
  <2>1. ASSUME NEW a \in Senders, NEW b \in Senders, Busy(a)',
               spc'[b].kind = spc'[a].kind
        PROVE  b = a
    BY <1>1, <2>1, BeginsAfter DEF Solo, Clean, Busy
  <2>. QED
    BY <2>1 DEF Solo
<1>3. Drawn'
  <2>1. ASSUME NEW u \in Senders, u # t, Busy(u)'
        PROVE  /\ Busy(u) /\ spc'[u] = spc[u] /\ spc[u].kind \in Kinds
               /\ spc[u].id \in 1..ids
               /\ inflight'[spc[u].kind] = inflight[spc[u].kind]
    <3>1. Busy(u) /\ spc'[u] = spc[u]
      BY <1>1, <2>1 DEF Busy
    <3>2. spc[u].kind \in Kinds /\ spc[u].id \in 1..ids
      BY <3>1, SenderShape DEF Numbered
    <3>. QED
      BY <1>1, <2>1, <3>1, <3>2, BeginsAfter
  <2>2. \A q \in requests : q[2] # Id(ids + 1)
    <3>1. ASSUME NEW q \in requests, q[2] = Id(ids + 1) PROVE FALSE
      <4>1. q[2][1] = ids + 1
        BY <3>1 DEF Id
      <4>2. q[2][1] \in 1..ids
        BY DEF Clean, Whole
      <4>. QED
        BY <1>0, <4>1, <4>2
    <3>. QED
      BY <3>1
  <2>3. ASSUME NEW u \in Senders, u # t, Busy(u)'
        PROVE  spc'[u].id # ids + 1
    BY <1>0, <2>1, <2>3
  <2>4. ASSUME NEW u \in Senders, Busy(u)'
        PROVE  /\ inflight'[spc'[u].kind][1] = spc'[u].id
               /\ spc'[u].step = "full" => inflight'[spc'[u].kind] = Id(spc'[u].id)
               /\ spc'[u].kind = "register" => spc'[u].id = latest'
               /\ \A q \in requests' : q[2] # Id(spc'[u].id)
               /\ \A v \in Senders : Busy(v)' /\ spc'[v].id = spc'[u].id => v = u
    <3>1. CASE u = t
      BY <2>2, <2>3, <3>1, BeginsEffect, BeginsAfter
    <3>2. CASE u # t
      <4>1. /\ inflight[spc[u].kind][1] = spc[u].id
            /\ spc[u].step = "full" => inflight[spc[u].kind] = Id(spc[u].id)
            /\ spc[u].kind = "register" => spc[u].id = latest
            /\ \A q \in requests : q[2] # Id(spc[u].id)
            /\ \A v \in Senders : Busy(v) /\ spc[v].id = spc[u].id => v = u
        BY <2>1, <2>4, <3>2 DEF Clean, Drawn
      <4>2. spc[u].kind = "register" => latest' = latest
        BY <1>1, <3>2, BeginsEffect
      <4>3. ASSUME NEW v \in Senders, Busy(v)', spc'[v].id = spc'[u].id
            PROVE  v = u
        BY <2>1, <2>3, <2>4, <3>2, <4>1, <4>3, BeginsAfter
      <4>. QED
        BY <2>1, <2>4, <3>2, <4>1, <4>2, <4>3, BeginsEffect
    <3>. QED
      BY <3>1, <3>2
  <2>. QED
    BY <2>4 DEF Drawn
<1>4. Whole'
  <2>1. requests' = requests /\ ids' = ids + 1
    BY BeginsEffect
  <2>2. \A q \in requests : q[2][1] \in 1..ids => q[2][1] \in 1..ids'
    BY <1>0, <2>1
  <2>. QED
    BY <2>1, <2>2 DEF Clean, Whole
<1>5. k # "register" => inflight'["register"] = inflight["register"]
                        /\ (Writing("register")' <=> Writing("register"))
  <2>1. inflight'["register"] = inflight["register"] \/ k = "register"
    BY BeginsAfter DEF Kinds
  <2>2. spc[t].kind = "none" /\ spc'[t].kind = k
    BY BeginsEffect, BeginsAfter, SenderShape
  <2>3. k # "register" => (Writing("register")' <=> Writing("register"))
    BY <1>1, <2>2 DEF Writing
  <2>. QED
    BY <2>1, <2>3
<1>6. Handled'
  BY <1>1, <1>5, BeginsEffect DEF Clean, Handled, HandlingConnect, IsEmpty
<1>7. k = "register" => Writing("register")'
  BY BeginsAfter DEF Writing
<1>8. Consumed'
  BY <1>5, <1>7, BeginsEffect DEF Clean, Consumed, IsEmpty
<1>. QED
  BY <1>2, <1>3, <1>4, <1>6, <1>8 DEF Clean

LEMMA FinishesClean ==
    ASSUME TypeOK, Numbered, Clean, NEW t \in Senders, SendFinishesId(t)
    PROVE  Clean'
<1>1. /\ Busy(t) /\ spc[t].step = "half" /\ spc[t].kind \in Kinds
      /\ UNCHANGED <<ids, wpc, reply, requests, latest, applied, raced>>
  BY FinishesEffect, SenderShape
<1>2. \A u \in Senders : /\ spc'[u].kind = spc[u].kind /\ spc'[u].id = spc[u].id
                         /\ Busy(u)' <=> Busy(u)
                         /\ u # t => spc'[u] = spc[u]
  BY <1>1, FinishesAfter DEF Busy
<1>3. inflight'[spc[t].kind] = Id(spc[t].id)
  BY <1>1, FinishesAfter DEF Clean, Drawn, Id
<1>4. \A u \in Senders : Busy(u) /\ u # t =>
          inflight'[spc[u].kind] = inflight[spc[u].kind]
  <2>1. ASSUME NEW u \in Senders, Busy(u), u # t
        PROVE  spc[u].kind \in Kinds /\ spc[u].kind # spc[t].kind
    BY <1>1, <2>1, SenderShape DEF Clean, Solo
  <2>. QED
    BY <2>1, FinishesAfter
<1>5. Solo'
  BY <1>2 DEF Clean, Solo
<1>6. Drawn'
  <2>1. ASSUME NEW u \in Senders, Busy(u)'
        PROVE  /\ inflight'[spc'[u].kind][1] = spc'[u].id
               /\ spc'[u].step = "full" => inflight'[spc'[u].kind] = Id(spc'[u].id)
               /\ spc'[u].kind = "register" => spc'[u].id = latest'
               /\ \A q \in requests' : q[2] # Id(spc'[u].id)
               /\ \A v \in Senders : Busy(v)' /\ spc'[v].id = spc'[u].id => v = u
    <3>1. /\ spc[u].kind = "register" => spc[u].id = latest
          /\ \A q \in requests : q[2] # Id(spc[u].id)
          /\ \A v \in Senders : Busy(v) /\ spc[v].id = spc[u].id => v = u
          /\ inflight[spc[u].kind][1] = spc[u].id
          /\ spc[u].step = "full" => inflight[spc[u].kind] = Id(spc[u].id)
      BY <1>2, <2>1 DEF Clean, Drawn
    <3>2. /\ inflight'[spc'[u].kind][1] = spc'[u].id
          /\ spc'[u].step = "full" => inflight'[spc'[u].kind] = Id(spc'[u].id)
      <4>1. CASE u = t
        BY <1>2, <1>3, <4>1 DEF Id
      <4>2. CASE u # t
        BY <1>2, <1>4, <2>1, <3>1, <4>2
      <4>. QED
        BY <4>1, <4>2
    <3>. QED
      BY <1>1, <1>2, <3>1, <3>2
  <2>. QED
    BY <2>1 DEF Drawn
<1>7. Whole'
  BY <1>1 DEF Clean, Whole
<1>8. spc[t].kind # "register" => inflight'["register"] = inflight["register"]
  BY FinishesAfter DEF Kinds
<1>9. Writing("register")' => Writing("register")
  BY <1>2, FinishesAfter DEF Writing
<1>10. Handled'
  <2>1. HandlingConnect => spc[t].kind # "register"
    BY <1>1 DEF Clean, Handled, Writing
  <2>. QED
    BY <1>1, <1>8, <1>9, <2>1 DEF Clean, Handled, HandlingConnect, IsEmpty
<1>11. Consumed'
  <2>1. CASE spc[t].kind = "register"
    <3>1. spc[t].id = latest
      BY <1>1, <2>1 DEF Clean, Drawn
    <3>. QED
      BY <1>1, <1>3, <2>1, <3>1 DEF Consumed
  <2>2. CASE spc[t].kind # "register"
    <3>1. Writing("register") => Writing("register")'
      BY <1>2, <2>2 DEF Writing
    <3>. QED
      BY <1>1, <1>8, <2>2, <3>1 DEF Clean, Consumed, IsEmpty
  <2>. QED
    BY <2>1, <2>2
<1>. QED
  BY <1>5, <1>6, <1>7, <1>10, <1>11 DEF Clean

LEMMA TransmitsClean ==
    ASSUME TypeOK, Numbered, Clean, NEW t \in Senders, SendTransmits(t)
    PROVE  Clean'
<1>1. /\ Busy(t) /\ spc[t].step = "full" /\ spc[t].kind \in Kinds
      /\ UNCHANGED <<inflight, ids, wpc, reply, latest, applied, raced>>
  BY TransmitsAfter
<1>2. \A u \in Senders : Busy(u)' => Busy(u) /\ u # t /\ spc'[u] = spc[u]
  BY TransmitsAfter DEF Busy
<1>3. \A q \in requests' : q \in requests \/ q = <<spc[t].kind, Id(spc[t].id)>>
  BY <1>1, TransmitsAfter DEF Clean, Drawn
<1>4. \A q \in requests : q[2] # Id(spc[t].id)
  BY <1>1 DEF Clean, Drawn
<1>5. Solo'
  <2>1. ASSUME NEW a \in Senders, NEW b \in Senders, Busy(a)',
               spc'[b].kind = spc'[a].kind
        PROVE  b = a
    <3>1. Busy(a) /\ spc'[a] = spc[a] /\ spc[a].kind \in Kinds
      BY <1>2, <2>1, SenderShape
    <3>2. spc'[b] = spc[b]
      BY <2>1, <3>1, TransmitsAfter DEF Idle, Kinds
    <3>. QED
      BY <2>1, <3>1, <3>2 DEF Clean, Solo
  <2>. QED
    BY <2>1 DEF Solo
<1>6. Drawn'
  <2>1. ASSUME NEW u \in Senders, Busy(u)'
        PROVE  /\ inflight'[spc'[u].kind][1] = spc'[u].id
               /\ spc'[u].step = "full" => inflight'[spc'[u].kind] = Id(spc'[u].id)
               /\ spc'[u].kind = "register" => spc'[u].id = latest'
               /\ \A q \in requests' : q[2] # Id(spc'[u].id)
               /\ \A v \in Senders : Busy(v)' /\ spc'[v].id = spc'[u].id => v = u
    <3>0. Busy(u) /\ u # t /\ spc'[u] = spc[u]
      BY <1>2, <2>1
    <3>1. /\ spc[u].kind = "register" => spc[u].id = latest
          /\ \A q \in requests : q[2] # Id(spc[u].id)
          /\ \A v \in Senders : Busy(v) /\ spc[v].id = spc[u].id => v = u
          /\ inflight[spc[u].kind][1] = spc[u].id
          /\ spc[u].step = "full" => inflight[spc[u].kind] = Id(spc[u].id)
      BY <3>0 DEF Clean, Drawn
    <3>2. Id(spc[t].id) # Id(spc[u].id)
      BY <1>1, <3>0, <3>1 DEF Id
    <3>. QED
      BY <1>1, <1>2, <1>3, <3>0, <3>1, <3>2
  <2>. QED
    BY <2>1 DEF Drawn
<1>7. Whole'
  <2>1. ASSUME NEW q \in requests'
        PROVE  /\ q[2][1] \in 1..ids' /\ q[2] = Id(q[2][1])
               /\ \A r \in requests' : q[2] = r[2] => q = r
    <3>1. CASE q \in requests
      BY <1>1, <1>3, <1>4, <3>1 DEF Clean, Whole
    <3>2. CASE q = <<spc[t].kind, Id(spc[t].id)>>
      BY <1>1, <1>3, <1>4, <3>2 DEF Numbered, Id
    <3>. QED
      BY <1>3, <3>1, <3>2
  <2>. QED
    BY <2>1 DEF Whole
<1>8. Writing("register")' <=> Writing("register")
  BY <1>1, TransmitsAfter DEF Writing, Idle
<1>9. Handled'
  BY <1>1, <1>8, TransmitsAfter DEF Clean, Handled, HandlingConnect, IsEmpty
<1>10. Consumed'
  BY <1>1, <1>8 DEF Clean, Consumed, IsEmpty
<1>. QED
  BY <1>5, <1>6, <1>7, <1>9, <1>10 DEF Clean

\* A step of the worker that changes neither the buffer nor what it handles.
LEMMA QuietClean ==
    ASSUME Clean, UNCHANGED <<inflight, spc, ids, wpc, reply, requests, latest, applied>>
    PROVE  Clean'
<1>1. Solo' /\ Whole'
  BY DEF Clean, Solo, Whole, Busy
<1>2. Drawn'
  BY DEF Clean, Drawn, Busy
<1>3. Handled' /\ Consumed'
  BY DEF Clean, Handled, Consumed, HandlingConnect, IsEmpty, Writing
<1>. QED
  BY <1>1, <1>2, <1>3 DEF Clean

LEMMA AcceptedClean ==
    ASSUME TypeOK, Clean, ConnectAccepted, ~raced'
    PROVE  Clean'
<1>1. ~Writing("register")
  BY Zenon DEF ConnectAccepted
<1>2. /\ wpc' = "apply"
      /\ reply' # NoChain =>
            /\ \E q \in requests : q[2] = reply'
            /\ IsEmpty(inflight["register"]) \/ reply' = inflight["register"]
      /\ UNCHANGED <<inflight, spc, ids, requests, latest, applied>>
  BY AcceptedEffect
<1>3. Solo' /\ Whole'
  BY <1>2 DEF Clean, Solo, Whole, Busy
<1>4. Drawn'
  BY <1>2 DEF Clean, Drawn, Busy
<1>5. Handled'
  BY <1>1, <1>2 DEF Handled, Writing, IsEmpty
<1>6. Consumed'
  BY <1>2 DEF Clean, Consumed, IsEmpty, Writing
<1>. QED
  BY <1>3, <1>4, <1>5, <1>6 DEF Clean

LEMMA AppliedClean ==
    ASSUME TypeOK, Clean, ConnectApplied
    PROVE  Clean'
<1>1. /\ wpc = "apply" /\ wpc' = "clear" /\ applied' = applied \cup {reply}
      /\ UNCHANGED <<inflight, spc, ids, reply, requests, latest>>
  BY DEF ConnectApplied
<1>2. Solo' /\ Whole'
  BY <1>1 DEF Clean, Solo, Whole, Busy
<1>3. Drawn'
  BY <1>1 DEF Clean, Drawn, Busy
<1>4. Handled'
  BY <1>1 DEF Clean, Handled, HandlingConnect, Writing, IsEmpty
<1>5. Consumed'
  BY <1>1 DEF Clean, Consumed, IsEmpty, Writing
<1>. QED
  BY <1>2, <1>3, <1>4, <1>5 DEF Clean

\* A buffer is emptied only when nobody waits for the id in it to be sent: the
\* server has got that id already.
LEMMA EmptiedClean ==
    ASSUME TypeOK, Numbered, Clean, NEW k \in Kinds, ~Writing(k),
           \E q \in requests : q[2] = inflight[k]
    PROVE  \A u \in Senders : Busy(u) => spc[u].kind # k
<1>1. SUFFICES ASSUME NEW u \in Senders, Busy(u), spc[u].kind = k PROVE FALSE
  OBVIOUS
<1>2. spc[u].step = "full"
  BY <1>1, SenderShape DEF Writing
<1>3. inflight[k] = Id(spc[u].id) /\ \A q \in requests : q[2] # Id(spc[u].id)
  BY <1>1, <1>2 DEF Clean, Drawn
<1>. QED
  BY <1>3

\* The id of a sender that has finished it is not empty.
LEMMA FullNotEmpty ==
    ASSUME TypeOK, Numbered, Clean, NEW k \in Kinds, ~Writing(k),
           NEW u \in Senders, Busy(u), spc[u].kind = k
    PROVE  ~IsEmpty(inflight[k])
<1>0. ids \in Nat
  BY DEF TypeOK
<1>1. spc[u].step = "full"
  BY SenderShape DEF Writing
<1>2. inflight[k][1] = spc[u].id /\ spc[u].id \in 1..ids
  BY <1>1 DEF Clean, Drawn, Numbered
<1>. QED
  BY <1>0, <1>2 DEF IsEmpty

LEMMA ClearedClean ==
    ASSUME TypeOK, Numbered, Clean, ConnectCleared
    PROVE  Clean'
<1>1. /\ wpc = "clear" /\ wpc' = "idle"
      /\ UNCHANGED <<spc, ids, requests, latest, applied>>
  BY ClearedEffect
<1>2. Solo' /\ Whole' /\ Handled'
  BY <1>1 DEF Clean, Solo, Whole, Busy, Handled, HandlingConnect
<1>3. CASE reply = NoChain
  <2>1. inflight' = inflight
    BY <1>3, ClearedEffect
  <2>2. Drawn'
    BY <1>1, <2>1 DEF Clean, Drawn, Busy
  <2>3. Consumed'
    BY <1>1, <2>1 DEF Clean, Consumed, IsEmpty, Writing
  <2>. QED
    BY <1>2, <2>2, <2>3 DEF Clean
<1>4. CASE reply # NoChain
  <2>1. /\ ~Writing("register") /\ reply \in applied
        /\ \E q \in requests : q[2] = reply
        /\ IsEmpty(inflight["register"]) \/ reply = inflight["register"]
    BY <1>1, <1>4 DEF Clean, Handled, HandlingConnect
  <2>2. "register" \in Kinds
    BY DEF Kinds
  <2>3. \A u \in Senders : Busy(u) => spc[u].kind # "register"
    BY <2>1, <2>2, EmptiedClean, FullNotEmpty
  <2>4. inflight'["register"] = <<0, inflight["register"][2]>>
        /\ \A j \in Kinds : j # "register" => inflight'[j] = inflight[j]
    BY <1>4, <2>2, ClearedEffect DEF TypeOK
  <2>5. Drawn'
    <3>1. \A u \in Senders : Busy(u) => inflight'[spc[u].kind] = inflight[spc[u].kind]
      BY <2>3, <2>4, SenderShape
    <3>. QED
      BY <1>1, <3>1 DEF Clean, Drawn, Busy
  <2>6. Consumed'
    <3>1. SUFFICES ASSUME latest # 0
          PROVE  IsEmpty(inflight'["register"]) /\ Id(latest) \in applied'
      BY <1>1 DEF Consumed, IsEmpty
    <3>2. IsEmpty(inflight'["register"])
      BY <2>4 DEF IsEmpty
    <3>3. \/ inflight["register"] = Id(latest)
          \/ IsEmpty(inflight["register"]) /\ Id(latest) \in applied
      BY <2>1, <3>1 DEF Clean, Consumed
    <3>4. inflight["register"] = Id(latest) => ~IsEmpty(inflight["register"])
      BY <3>1 DEF IsEmpty, Id
    <3>. QED
      BY <1>1, <2>1, <3>2, <3>3, <3>4
  <2>. QED
    BY <1>2, <2>5, <2>6 DEF Clean
<1>. QED
  BY <1>3, <1>4

LEMMA ExitNodesClean ==
    ASSUME TypeOK, Numbered, Clean, ExitNodes, ~raced'
    PROVE  Clean'
<1>1. ~Writing("ping") /\ UNCHANGED <<spc, ids, wpc, reply, requests, latest, applied>>
  <2>1. ~Writing("ping")
    BY Zenon DEF ExitNodes
  <2>. QED
    BY <2>1, ExitNodesEffect
<1>2. CASE inflight' = inflight
  BY <1>1, <1>2, QuietClean
<1>3. CASE /\ inflight' = [inflight EXCEPT !["ping"] = <<0, inflight["ping"][2]>>]
           /\ \/ IsEmpty(inflight["ping"])
              \/ \E q \in requests : q[2] = inflight["ping"]
  <2>1. "ping" \in Kinds /\ "register" \in Kinds
    BY DEF Kinds
  <2>2. \A u \in Senders : Busy(u) => spc[u].kind # "ping"
    BY <1>1, <1>3, <2>1, EmptiedClean, FullNotEmpty
  <2>3. \A j \in Kinds : j # "ping" => inflight'[j] = inflight[j]
    BY <1>3, <2>1 DEF TypeOK
  <2>4. \A u \in Senders : Busy(u) => inflight'[spc[u].kind] = inflight[spc[u].kind]
    BY <2>2, <2>3, SenderShape
  <2>5. inflight'["register"] = inflight["register"]
    BY <2>1, <2>3
  <2>6. Solo' /\ Whole'
    BY <1>1 DEF Clean, Solo, Whole, Busy
  <2>7. Drawn'
    BY <1>1, <2>4 DEF Clean, Drawn, Busy
  <2>8. Handled' /\ Consumed'
    BY <1>1, <2>5
       DEF Clean, Handled, Consumed, HandlingConnect, IsEmpty, Writing
  <2>. QED
    BY <2>6, <2>7, <2>8 DEF Clean
<1>. QED
  BY <1>2, <1>3, ExitNodesEffect

LEMMA ProtoStep == ProtoInv /\ [Next]_vars => ProtoInv'
<1>1. ASSUME ProtoInv, Next PROVE ProtoInv'
  <2>1. TypeOK' /\ Numbered'
    BY <1>1, ProtoTyped, NumberedKept DEF ProtoInv
  <2>2. ASSUME ~raced' PROVE Clean'
    <3>1. TypeOK /\ Numbered
      BY <1>1 DEF ProtoInv
    <3>2. ASSUME NEW t \in Senders, NEW k \in Kinds, SendBegins(t, k) PROVE Clean'
      <4>1. ~raced
        BY <2>2, <3>1, <3>2, BeginsEffect
      <4>. QED
        BY <1>1, <2>2, <3>1, <3>2, <4>1, BeginsClean DEF ProtoInv
    <3>3. ASSUME NEW t \in Senders, SendFinishesId(t) PROVE Clean'
      <4>1. ~raced
        BY <2>2, <3>1, <3>3, FinishesEffect
      <4>. QED
        BY <1>1, <3>1, <3>3, <4>1, FinishesClean DEF ProtoInv
    <3>4. ASSUME NEW t \in Senders, SendTransmits(t) PROVE Clean'
      <4>1. ~raced
        BY <2>2, <3>1, <3>4, TransmitsAfter
      <4>. QED
        BY <1>1, <3>1, <3>4, <4>1, TransmitsClean DEF ProtoInv
    <3>5. CASE Worker
      <4>1. Clean
        <5>1. ~raced
          BY <2>2, <3>1, <3>5, WorkerKeeps
        <5>. QED
          BY <1>1, <5>1 DEF ProtoInv
      <4>2. CASE ConnectAccepted
        BY <2>2, <3>1, <4>1, <4>2, AcceptedClean
      <4>3. CASE ConnectDropped \/ OtherMessage
        <5>1. UNCHANGED <<inflight, spc, ids, wpc, reply, requests, latest, applied>>
          BY <4>3 DEF ConnectDropped, OtherMessage
        <5>. QED
          BY <4>1, <5>1, QuietClean
      <4>4. CASE ConnectApplied
        BY <3>1, <4>1, <4>4, AppliedClean
      <4>5. CASE ConnectCleared
        BY <3>1, <4>1, <4>5, ClearedClean
      <4>6. CASE ExitNodes
        BY <2>2, <3>1, <4>1, <4>6, ExitNodesClean
      <4>. QED
        BY <3>5, <4>2, <4>3, <4>4, <4>5, <4>6 DEF Worker
    <3>. QED
      BY <1>1, <3>2, <3>3, <3>4, <3>5 DEF Next
  <2>. QED
    BY <2>1, <2>2 DEF ProtoInv
<1>2. ASSUME ProtoInv, UNCHANGED vars PROVE ProtoInv'
  <2>1. UNCHANGED <<inflight, spc, ids, wpc, reply, requests, latest, applied>>
        /\ raced' = raced
    BY <1>2 DEF vars
  <2>2. TypeOK' /\ Numbered'
    BY <1>2 DEF vars, ProtoInv, TypeOK, Numbered, Busy
  <2>. QED
    BY <1>2, <2>1, <2>2, QuietClean DEF ProtoInv
<1>. QED
  BY <1>1, <1>2

\* The invariant of the requests and replies, whatever the tasks interleave.
THEOREM ProtoInvariant == Spec => []ProtoInv
BY ProtoInitHolds, ProtoStep, PTL DEF Spec

LEMMA ProtoInvImplies ==
    ProtoInv => OnlyOwnReplyConsumes /\ RequestsAreWhole
<1> SUFFICES ASSUME ProtoInv
             PROVE  OnlyOwnReplyConsumes /\ RequestsAreWhole
  OBVIOUS
<1>1. OnlyOwnReplyConsumes
  BY DEF ProtoInv, Clean, Consumed, OnlyOwnReplyConsumes
<1>2. RequestsAreWhole
  <2>1. ids \in Nat
    BY DEF ProtoInv, TypeOK
  <2>2. ASSUME ~raced, NEW q \in requests
        PROVE  q[2][1] = q[2][2] /\ q[2][1] # 0 /\ \A r \in requests : q[2] = r[2] => q = r
    BY <2>1, <2>2 DEF ProtoInv, Clean, Whole, Id
  <2>. QED
    BY <2>2 DEF RequestsAreWhole
<1>. QED
  BY <1>1, <1>2

-----------------------------------------------------------------------------
(* The configuration's way composes over the messages: each of its steps   *)
(* is a step of NewtProto or leaves NewtProto alone.                       *)

LEMMA ConfigRefinesStep == [ConfigNext]_allVars => [Next]_vars
<1> SUFFICES ASSUME [ConfigNext]_allVars PROVE [Next]_vars
  OBVIOUS
<1>1. CASE CbBegins \/ CbWrites \/ CbSetsBit
  BY <1>1, Zenon DEF CbBegins, CbWrites, CbSetsBit, Next, Worker, protoVars
<1>2. CASE OtherWork
  BY <1>2, Zenon DEF OtherWork, Next, Worker
<1>3. ASSUME NEW t \in Senders, CbWgReconnect(t) PROVE [Next]_vars
  BY <1>3, Zenon DEF CbWgReconnect, Next, Worker
<1>4. ASSUME NEW t \in Senders, TaskStep(t) PROVE [Next]_vars
  <2>1. CASE BeginsRequest(t)
    BY <2>1, Zenon DEF BeginsRequest, Next
  <2>2. CASE FinishesId(t) \/ SendsRequest(t)
    BY <2>2, Zenon DEF FinishesId, SendsRequest, Next
  <2>3. CASE \/ ReconnectClearsBit(t) \/ Awakes(t) \/ InitReadsKey(t)
             \/ InitReadsAddress(t) \/ StartReadsHost(t) \/ Ends(t)
    BY <2>3, Zenon DEF ReconnectClearsBit, Awakes, InitReadsKey, InitReadsAddress,
                       StartReadsHost, Ends, protoVars
  <2>. QED
    BY <1>4, <2>1, <2>2, <2>3 DEF TaskStep
<1>5. CASE UNCHANGED allVars
  BY <1>5 DEF allVars, protoVars
<1>. QED
  BY <1>1, <1>2, <1>3, <1>4, <1>5 DEF ConfigNext

\* What the callbacks, the supervisor and the reconnect tasks do to the requests
\* and replies is what NewtProto allows: its properties hold of the whole.
THEOREM ConfigRefinesProto == ConfigSpec => Spec
<1>1. ConfigInit => Init
  BY DEF ConfigInit
<1>. QED
  BY <1>1, ConfigRefinesStep, PTL DEF ConfigSpec, Spec

\* A late, duplicated or unidentified wg/connect never takes the register
\* request in flight out of flight: only its own reply does
\* (newt_proto.c:72-83, 156-158).
THEOREM OnlyOwnConsumes == ConfigSpec => []OnlyOwnReplyConsumes
BY ConfigRefinesProto, ProtoInvariant, ProtoInvImplies, PTL

\* No two requests the server gets share an id, and every one is whole.
THEOREM WholeRequests == ConfigSpec => []RequestsAreWhole
BY ConfigRefinesProto, ProtoInvariant, ProtoInvImplies, PTL

-----------------------------------------------------------------------------
(* The invariant of NewtConfig.                                            *)

\* The callback runs while the worker applies, and the fields it has passed
\* hold the reply it applies.
Callback ==
    /\ cpc # "none" <=> wpc = "apply"
    /\ cpc # "none" => reply # Unset
    /\ cpc \in {"host", "address", "bit"} => cfg["key"] = reply
    /\ cpc \in {"address", "bit"} => cfg["host"] = reply
    /\ cpc = "bit" => cfg["address"] = reply

\* A task that sends is at the stage of what it sends; it owns no registration
\* before it has begun one, and has no tunnel before it has read.
Tasks ==
    \A t \in Senders :
        /\ Busy(t) => stage[t] = spc[t].kind
        /\ own[t] <= latest
        /\ stage[t] \in {"none", "start", "ping"} => own[t] = 0
        /\ stage[t] \in {"none", "start", "ping", "register", "await"} =>
              tun[t] = Nothing

\* As long as no wg/connect came on top of one in use.
Untouched ==
    /\ cpc # "none" => ~InUse
    /\ InUse => \A f \in Fields : cfg[f] = cfg["key"] /\ cfg[f] # Unset
    /\ \A t \in Senders :
          /\ stage[t] \in {"address", "connect"} => tun[t]["key"] = cfg["key"]
          /\ stage[t] = "connect" => tun[t]["address"] = cfg["address"]
          /\ stage[t] = "online" =>
                \A f \in Fields : tun[t][f] = tun[t]["key"] /\ tun[t][f] # Unset

\* As long as every wg/connect applied was asked for, and none was applied
\* before a task on its way to register had done so: where a task may read, it
\* reads nothing older than its own registration.
InOrder ==
    /\ cpc # "none" => reply # NoChain
    /\ \A t \in Senders :
          /\ cpc # "none" => reply[1] >= own[t]
          /\ stage[t] \in {"ping", "register"} => ~configured
          /\ \A f \in Fields :
                /\ (stage[t] = "await" /\ configured) \/ stage[t] \in Reading =>
                      cfg[f][1] >= own[t]
                /\ tun[t][f] = Unset \/ tun[t][f][1] >= own[t]

ConfigInv ==
    /\ ConfigTypeOK /\ ProtoInv
    /\ Callback /\ Tasks
    /\ ~overwrites => Untouched
    /\ ~raced /\ ~unasked /\ ~early => InOrder

LEMMA ConfigInitHolds == ConfigInit => ConfigInv
<1> SUFFICES ASSUME ConfigInit PROVE ConfigInv
  OBVIOUS
<1>1. Init /\ ProtoInv
  BY ProtoInitHolds DEF ConfigInit
<1>2. /\ cfg = Nothing /\ configured = FALSE /\ cpc = "none"
      /\ \A t \in Senders : stage[t] \in {"ping", "none"} /\ own[t] = 0 /\ tun[t] = Nothing
  BY DEF ConfigInit
<1>3. ConfigTypeOK
  <2>1. TypeOK /\ Unset \in Chains /\ 0 \in 0..MaxIds
    BY <1>1, IdsAssumption DEF ProtoInv, Unset, Chains, Chars
  <2>2. Nothing \in [Fields -> Chains]
    BY <2>1 DEF Nothing
  <2>. QED
    BY <2>1, <2>2, Zenon DEF ConfigInit, ConfigTypeOK, Stages
<1>4. Callback
  BY <1>1, <1>2 DEF Init, Callback
<1>5. Tasks
  <2>1. \A t \in Senders : ~Busy(t)
    BY <1>1 DEF Init, Busy
  <2>2. latest = 0
    BY <1>1 DEF Init
  <2>3. \A t \in Senders : own[t] <= latest /\ own[t] = 0 /\ tun[t] = Nothing
    <3>1. 0 <= latest
      BY <2>2
    <3>. QED
      BY <1>2, <3>1, Zenon
  <2>4. ASSUME NEW t \in Senders
        PROVE  /\ Busy(t) => stage[t] = spc[t].kind
               /\ own[t] <= latest
               /\ stage[t] \in {"none", "start", "ping"} => own[t] = 0
               /\ stage[t] \in {"none", "start", "ping", "register", "await"} =>
                     tun[t] = Nothing
    BY <2>1, <2>3
  <2>. QED
    BY <2>4 DEF Tasks
<1>6. Untouched
  BY <1>2 DEF Untouched, InUse, Reading
<1>7. InOrder
  BY <1>2 DEF InOrder, Reading, Nothing, Fields
<1>. QED
  BY <1>1, <1>3, <1>4, <1>5, <1>6, <1>7 DEF ConfigInv

LEMMA StageMoves ==
    ASSUME ConfigTypeOK, NEW t \in Senders, NEW next \in Stages, GoesTo(t, next)
    PROVE  /\ stage'[t] = next /\ \A u \in Senders : u # t => stage'[u] = stage[u]
           /\ stage' \in [Senders -> Stages]
BY DEF ConfigTypeOK, GoesTo

\* The steps that leave the configuration alone.
LEMMA QuietKeeps ==
    ASSUME ConfigInv, ProtoInv', UNCHANGED configVars, latest' = latest,
           raced => raced',
           cpc # "none" => wpc' = wpc /\ reply' = reply,
           cpc = "none" => wpc' # "apply",
           \A t \in Senders : Busy(t)' => Busy(t) /\ spc'[t].kind = spc[t].kind
    PROVE  ConfigInv'
<1>1. /\ cfg' = cfg /\ configured' = configured /\ cpc' = cpc /\ stage' = stage
      /\ own' = own /\ tun' = tun
  BY DEF configVars
<1>2. ConfigTypeOK'
  BY DEF ConfigInv, ConfigTypeOK, configVars, ProtoInv
<1>3. Callback'
  BY <1>1 DEF ConfigInv, Callback
<1>4. Tasks'
  BY <1>1 DEF ConfigInv, Tasks
<1>5. ~overwrites' => Untouched'
  <2>1. ~overwrites' => Untouched
    BY DEF ConfigInv, configVars
  <2>2. InUse' <=> InUse
    BY <1>1 DEF InUse
  <2>. QED
    BY <1>1, <2>1, <2>2 DEF Untouched
<1>6. ~raced' /\ ~unasked' /\ ~early' => InOrder'
  <2>1. ~raced' /\ ~unasked' /\ ~early' => InOrder
    BY DEF ConfigInv, configVars
  <2>. QED
    BY <1>1, <2>1 DEF InOrder
<1>. QED
  BY <1>2, <1>3, <1>4, <1>5, <1>6 DEF ConfigInv

LEMMA BeginsKeeps ==
    ASSUME ConfigInv, ProtoInv', CbBegins
    PROVE  ConfigInv'
<1>0. TypeOK /\ Numbered /\ ConfigTypeOK
  BY DEF ConfigInv, ProtoInv
<1>1. /\ wpc = "idle" /\ wpc' = "apply" /\ cpc' = "key"
      /\ UNCHANGED <<inflight, spc, ids, requests, latest,
                     cfg, configured, stage, own, tun, early>>
      /\ reply' # NoChain => \E q \in requests : q[2] = reply'
      /\ IsEmpty(inflight["register"]) \/ reply' = inflight["register"] \/ reply' = NoChain
  BY <1>0, AcceptedEffect DEF CbBegins
<1>2. ~overwrites' => ~overwrites /\ ~InUse
  BY Zenon DEF CbBegins
<1>3. ~raced' /\ ~unasked' =>
          /\ ~raced /\ ~unasked /\ ~Writing("register")
          /\ reply' # NoChain /\ ~IsEmpty(inflight["register"])
  BY Zenon DEF CbBegins, ConnectAccepted
<1>4. ConfigTypeOK'
  <2>1. overwrites' \in BOOLEAN /\ unasked' \in BOOLEAN
    BY Zenon DEF CbBegins
  <2>2. early' \in BOOLEAN /\ cpc' \in {"none", "bit"} \cup Fields
    BY <1>0, <1>1 DEF ConfigTypeOK, Fields
  <2>. QED
    BY <1>0, <1>1, <2>1, <2>2 DEF ConfigTypeOK, ProtoInv
<1>5. Callback'
  <2>1. reply' # Unset
    BY <1>0, <1>1 DEF Numbered, Unset, NoChain
  <2>. QED
    BY <1>1, <2>1 DEF Callback
<1>6. Tasks'
  BY <1>1 DEF ConfigInv, Tasks, Busy
<1>7. ASSUME ~overwrites' PROVE Untouched'
  <2>1. Untouched /\ ~InUse
    BY <1>2, <1>7 DEF ConfigInv
  <2>2. InUse' <=> InUse
    BY <1>1 DEF InUse
  <2>. QED
    BY <1>1, <2>1, <2>2 DEF Untouched
<1>8. ASSUME ~raced', ~unasked', ~early' PROVE InOrder'
  <2>1. InOrder /\ Consumed /\ ~Writing("register")
    BY <1>1, <1>3, <1>8 DEF ConfigInv, ProtoInv, Clean
  <2>2. reply' = inflight["register"] /\ reply' # NoChain /\ ~IsEmpty(inflight["register"])
    BY <1>1, <1>3, <1>8
  <2>3. inflight["register"] \in Chars \X Chars
    BY <1>0 DEF TypeOK, Kinds
  <2>4. reply'[1] >= latest
    <3>1. CASE latest = 0
      BY <2>2, <2>3, <3>1 DEF Chars
    <3>2. CASE latest # 0
      <4>1. reply'[1] = latest
        BY <2>1, <2>2, <3>2 DEF Consumed, Id
      <4>2. latest \in Nat
        BY <1>0 DEF TypeOK
      <4>. QED
        BY <4>1, <4>2
    <3>. QED
      BY <3>1, <3>2
  <2>5. \A t \in Senders : reply'[1] >= own[t]
    <3>1. reply'[1] \in Int /\ latest \in Int
      BY <1>0, <2>2, <2>3 DEF TypeOK, Chars
    <3>2. \A t \in Senders : own[t] \in Int /\ own[t] <= latest
      BY <1>0 DEF ConfigTypeOK, ConfigInv, Tasks
    <3>. QED
      BY <2>4, <3>1, <3>2
  <2>. QED
    BY <1>1, <2>1, <2>2, <2>5 DEF InOrder
<1>. QED
  BY <1>4, <1>5, <1>6, <1>7, <1>8 DEF ConfigInv

LEMMA WritesKeeps ==
    ASSUME ConfigInv, ProtoInv', CbWrites
    PROVE  ConfigInv'
<1>0. TypeOK /\ Numbered /\ ConfigTypeOK
  BY DEF ConfigInv, ProtoInv
<1>1. /\ cpc \in Fields /\ cfg' = [cfg EXCEPT ![cpc] = reply]
      /\ \/ cpc = "key" /\ cpc' = "host"
         \/ cpc = "host" /\ cpc' = "address"
         \/ cpc = "address" /\ cpc' = "bit"
      /\ UNCHANGED <<inflight, spc, ids, requests, latest, wpc, reply,
                     configured, stage, own, tun>>
  BY DEF CbWrites, Fields, protoVars, vars
<1>2. raced' = raced /\ overwrites' = overwrites /\ unasked' = unasked /\ early' = early
  BY DEF CbWrites, protoVars, vars
<1>3. /\ cfg'[cpc] = reply /\ \A f \in Fields : f # cpc => cfg'[f] = cfg[f]
      /\ cpc # "none"
  BY <1>0, <1>1 DEF ConfigTypeOK, Fields
<1>4. ConfigTypeOK'
  <2>1. cfg' \in [Fields -> Chains] /\ cpc' \in {"none", "bit"} \cup Fields
    BY <1>0, <1>1 DEF ConfigTypeOK, TypeOK, Fields
  <2>. QED
    BY <1>0, <1>1, <1>2, <2>1 DEF ConfigTypeOK, ProtoInv
<1>5. Callback'
  BY <1>1, <1>3 DEF ConfigInv, Callback, Fields
<1>6. Tasks'
  BY <1>1 DEF ConfigInv, Tasks, Busy
<1>7. ASSUME ~overwrites' PROVE Untouched'
  <2>1. Untouched /\ ~InUse
    BY <1>2, <1>3, <1>7 DEF ConfigInv, Untouched
  <2>2. ~InUse' /\ \A t \in Senders : stage[t] \notin Reading
    BY <1>1, <2>1 DEF InUse
  <2>. QED
    BY <1>1, <2>1, <2>2 DEF Untouched, Reading
<1>8. ASSUME ~raced', ~unasked', ~early' PROVE InOrder'
  <2>1. InOrder
    BY <1>2, <1>8 DEF ConfigInv
  <2>. QED
    BY <1>1, <1>3, <2>1 DEF InOrder
<1>. QED
  BY <1>4, <1>5, <1>6, <1>7, <1>8 DEF ConfigInv

LEMMA SetsBitKeeps ==
    ASSUME ConfigInv, ProtoInv', CbSetsBit
    PROVE  ConfigInv'
<1>0. TypeOK /\ Numbered /\ ConfigTypeOK
  BY DEF ConfigInv, ProtoInv
<1>1. /\ cpc = "bit" /\ cpc' = "none" /\ wpc' = "clear" /\ configured' = TRUE
      /\ UNCHANGED <<inflight, spc, ids, requests, latest, reply,
                     cfg, stage, own, tun>>
  BY DEF CbSetsBit, ConnectApplied
<1>2. raced' = raced /\ overwrites' = overwrites /\ unasked' = unasked
  BY DEF CbSetsBit, ConnectApplied
<1>3. ~early' => ~early /\ ~ \E t \in Senders : stage[t] \in {"ping", "register"}
  BY Zenon DEF CbSetsBit
<1>4. cfg["key"] = reply /\ cfg["host"] = reply /\ cfg["address"] = reply /\ reply # Unset
  BY <1>1 DEF ConfigInv, Callback
<1>5. \A f \in Fields : cfg[f] = reply
  BY <1>4 DEF Fields
<1>6. ConfigTypeOK'
  <2>1. early' \in BOOLEAN
    BY Zenon DEF CbSetsBit
  <2>2. overwrites' \in BOOLEAN /\ unasked' \in BOOLEAN
    BY <1>0, <1>2 DEF ConfigTypeOK
  <2>. QED
    BY <1>0, <1>1, <2>1, <2>2 DEF ConfigTypeOK, ProtoInv
<1>7. Callback'
  BY <1>1 DEF Callback
<1>8. Tasks'
  BY <1>1 DEF ConfigInv, Tasks, Busy
<1>9. ASSUME ~overwrites' PROVE Untouched'
  <2>1. Untouched
    BY <1>2, <1>9 DEF ConfigInv
  <2>. QED
    BY <1>1, <1>4, <1>5, <2>1 DEF Untouched, Fields
<1>10. ASSUME ~raced', ~unasked', ~early' PROVE InOrder'
  <2>1. InOrder /\ ~ \E t \in Senders : stage[t] \in {"ping", "register"}
    BY <1>2, <1>3, <1>10 DEF ConfigInv
  <2>. QED
    BY <1>1, <1>5, <2>1 DEF InOrder
<1>. QED
  BY <1>6, <1>7, <1>8, <1>9, <1>10 DEF ConfigInv

LEMMA OtherWorkKeeps ==
    ASSUME ConfigInv, ProtoInv', OtherWork
    PROVE  ConfigInv'
<1>0. TypeOK /\ Callback
  BY DEF ConfigInv, ProtoInv
<1>1. Worker /\ UNCHANGED configVars
  BY Zenon DEF OtherWork, Worker
<1>2. UNCHANGED <<spc, ids, requests, latest>> /\ (raced => raced')
  BY <1>0, <1>1, WorkerKeeps
<1>3. wpc # "apply" /\ wpc' # "apply"
  <2>1. CASE ConnectCleared
    BY <2>1 DEF ConnectCleared
  <2>2. CASE ExitNodes
    BY <1>0, <2>2, ExitNodesEffect
  <2>3. CASE ConnectDropped \/ OtherMessage
    BY <2>3 DEF ConnectDropped, OtherMessage
  <2>. QED
    BY <2>1, <2>2, <2>3 DEF OtherWork
<1>4. cpc = "none"
  BY <1>0, <1>3 DEF Callback
<1>. QED
  BY <1>1, <1>2, <1>3, <1>4, QuietKeeps DEF Busy

LEMMA FinishesKeeps ==
    ASSUME ConfigInv, ProtoInv', NEW t \in Senders, FinishesId(t)
    PROVE  ConfigInv'
<1>0. TypeOK /\ Callback
  BY DEF ConfigInv, ProtoInv
<1>1. SendFinishesId(t) /\ UNCHANGED configVars
  BY DEF FinishesId
<1>2. UNCHANGED <<wpc, reply, latest, raced>>
  BY <1>0, <1>1, FinishesEffect
<1>3. \A u \in Senders : Busy(u)' => Busy(u) /\ spc'[u].kind = spc[u].kind
  BY <1>0, <1>1, FinishesEffect, FinishesAfter DEF Busy
<1>. QED
  BY <1>0, <1>1, <1>2, <1>3, QuietKeeps DEF Callback

LEMMA StartKeeps ==
    ASSUME ConfigInv, ProtoInv', NEW t \in Senders, CbWgReconnect(t)
    PROVE  ConfigInv'
<1>0. TypeOK /\ ConfigTypeOK /\ Callback
  BY DEF ConfigInv, ProtoInv
<1>1. /\ stage[t] = "none" /\ GoesTo(t, "start") /\ wpc = "idle"
      /\ UNCHANGED <<cfg, configured, cpc, own, tun>>
      /\ UNCHANGED <<inflight, spc, wpc, reply, latest>>
  BY DEF CbWgReconnect, OtherMessage
<1>2. UNCHANGED <<overwrites, unasked, early, raced>>
  BY DEF CbWgReconnect, OtherMessage
<1>3. /\ stage'[t] = "start" /\ \A u \in Senders : u # t => stage'[u] = stage[u]
      /\ stage' \in [Senders -> Stages]
  BY <1>0, <1>1, StageMoves DEF Stages
<1>4. ConfigTypeOK'
  BY <1>0, <1>1, <1>2, <1>3 DEF ConfigTypeOK, ProtoInv
<1>5. Callback'
  BY <1>0, <1>1 DEF Callback
<1>6. Tasks'
  <2>1. ~Busy(t)
    BY <1>0, <1>1, SenderShape DEF ConfigInv, Tasks, Kinds
  <2>. QED
    BY <1>1, <1>3, <2>1 DEF ConfigInv, Tasks, Busy
<1>7. ASSUME ~overwrites' PROVE Untouched'
  <2>1. Untouched
    BY <1>2, <1>7 DEF ConfigInv
  <2>2. InUse' <=> InUse
    BY <1>1, <1>3 DEF InUse, Reading
  <2>. QED
    BY <1>1, <1>3, <2>1, <2>2 DEF Untouched
<1>8. ASSUME ~raced', ~unasked', ~early' PROVE InOrder'
  <2>1. InOrder
    BY <1>2, <1>8 DEF ConfigInv
  <2>. QED
    BY <1>1, <1>3, <2>1 DEF InOrder, Reading
<1>. QED
  BY <1>4, <1>5, <1>6, <1>7, <1>8 DEF ConfigInv

LEMMA ClearsBitKeeps ==
    ASSUME ConfigInv, ProtoInv', NEW t \in Senders, ReconnectClearsBit(t)
    PROVE  ConfigInv'
<1>0. TypeOK /\ ConfigTypeOK /\ Callback
  BY DEF ConfigInv, ProtoInv
<1>1. /\ stage[t] = "start" /\ GoesTo(t, "ping") /\ configured' = FALSE
      /\ UNCHANGED <<cfg, cpc, own, tun>>
      /\ UNCHANGED <<inflight, spc, wpc, reply, latest>>
  BY DEF ReconnectClearsBit, protoVars, vars
<1>2. UNCHANGED <<overwrites, unasked, early, raced>>
  BY DEF ReconnectClearsBit, protoVars, vars
<1>3. /\ stage'[t] = "ping" /\ \A u \in Senders : u # t => stage'[u] = stage[u]
      /\ stage' \in [Senders -> Stages]
  BY <1>0, <1>1, StageMoves DEF Stages
<1>4. ConfigTypeOK'
  BY <1>0, <1>1, <1>2, <1>3 DEF ConfigTypeOK, ProtoInv
<1>5. Callback'
  BY <1>0, <1>1 DEF Callback
<1>6. Tasks'
  <2>1. ~Busy(t)
    BY <1>0, <1>1, SenderShape DEF ConfigInv, Tasks, Kinds
  <2>. QED
    BY <1>1, <1>3, <2>1 DEF ConfigInv, Tasks, Busy
<1>7. ASSUME ~overwrites' PROVE Untouched'
  <2>1. Untouched
    BY <1>2, <1>7 DEF ConfigInv
  <2>2. InUse' => InUse
    BY <1>1, <1>3 DEF InUse, Reading
  <2>. QED
    BY <1>1, <1>3, <2>1, <2>2 DEF Untouched
<1>8. ASSUME ~raced', ~unasked', ~early' PROVE InOrder'
  <2>1. InOrder
    BY <1>2, <1>8 DEF ConfigInv
  <2>. QED
    BY <1>1, <1>3, <2>1 DEF InOrder, Reading
<1>. QED
  BY <1>4, <1>5, <1>6, <1>7, <1>8 DEF ConfigInv

LEMMA RequestKeeps ==
    ASSUME ConfigInv, ProtoInv', NEW t \in Senders, BeginsRequest(t)
    PROVE  ConfigInv'
<1>0. TypeOK /\ ConfigTypeOK /\ Callback /\ Numbered /\ Tasks
  BY DEF ConfigInv, ProtoInv
<1>1. /\ stage[t] \in Kinds /\ SendBegins(t, stage[t])
      /\ own' = IF stage[t] = "register" THEN [own EXCEPT ![t] = ids'] ELSE own
      /\ UNCHANGED <<cfg, configured, cpc, stage, tun>>
      /\ UNCHANGED <<overwrites, unasked, early>>
  BY DEF BeginsRequest
<1>2. /\ ids' = ids + 1 /\ ids \in Nat /\ ids + 1 \in Chars
      /\ latest' = IF stage[t] = "register" THEN ids + 1 ELSE latest
      /\ UNCHANGED <<wpc, reply>>
  BY <1>0, <1>1, BeginsEffect
<1>3. ~raced' => ~raced /\ (stage[t] = "register" => ~HandlingConnect)
  BY <1>0, <1>1, BeginsEffect
<1>4. latest \in Nat /\ latest <= ids
  BY <1>0 DEF Numbered, TypeOK
<1>5. /\ stage[t] = "register" => own'[t] = ids + 1
      /\ stage[t] # "register" => own'[t] = own[t]
      /\ \A u \in Senders : u # t => own'[u] = own[u]
  BY <1>0, <1>1, <1>2 DEF ConfigTypeOK
<1>6. ConfigTypeOK'
  <2>1. own' \in [Senders -> 0..MaxIds]
    BY <1>0, <1>1, <1>2 DEF ConfigTypeOK, Chars
  <2>. QED
    BY <1>0, <1>1, <2>1 DEF ConfigTypeOK, ProtoInv
<1>7. Callback'
  BY <1>0, <1>1, <1>2 DEF Callback
<1>8. Tasks'
  <2>1. ASSUME NEW u \in Senders, Busy(u)' PROVE stage'[u] = spc'[u].kind
    <3>1. CASE u = t
      BY <1>0, <1>1, <3>1, BeginsAfter
    <3>2. CASE u # t
      BY <1>0, <1>1, <2>1, <3>2, BeginsAfter DEF Tasks, Busy
    <3>. QED
      BY <3>1, <3>2
  <2>2. ASSUME NEW u \in Senders PROVE own'[u] <= latest'
    <3>1. own[u] \in Nat /\ own[u] <= latest
      BY <1>0 DEF ConfigTypeOK, Tasks
    <3>2. latest <= latest' /\ latest' \in Nat /\ (stage[t] = "register" => latest' = ids + 1)
      BY <1>2, <1>4
    <3>3. own'[u] = own[u] \/ (stage[t] = "register" /\ own'[u] = ids + 1)
      BY <1>5
    <3>. QED
      BY <1>2, <1>4, <3>1, <3>2, <3>3
  <2>3. ASSUME NEW u \in Senders
        PROVE  /\ stage'[u] \in {"none", "start", "ping"} => own'[u] = 0
               /\ stage'[u] \in {"none", "start", "ping", "register", "await"} =>
                     tun'[u] = Nothing
    BY <1>0, <1>1, <1>5 DEF Tasks
  <2>. QED
    BY <2>1, <2>2, <2>3 DEF Tasks
<1>9. ASSUME ~overwrites' PROVE Untouched'
  <2>1. Untouched
    BY <1>1, <1>9 DEF ConfigInv
  <2>2. InUse' <=> InUse
    BY <1>1 DEF InUse
  <2>. QED
    BY <1>1, <2>1, <2>2 DEF Untouched
<1>10. ASSUME ~raced', ~unasked', ~early' PROVE InOrder'
  <2>1. InOrder
    BY <1>1, <1>3, <1>10 DEF ConfigInv
  <2>2. stage[t] = "register" => cpc = "none" /\ tun[t] = Nothing
    BY <1>0, <1>3, <1>10 DEF Callback, Tasks, HandlingConnect
  <2>3. \A f \in Fields : stage[t] = "register" => tun[t][f] = Unset
    BY <2>2 DEF Nothing
  <2>4. ASSUME NEW u \in Senders
        PROVE  /\ cpc' # "none" => reply'[1] >= own'[u]
               /\ stage'[u] \in {"ping", "register"} => ~configured'
               /\ \A f \in Fields :
                    /\ (stage'[u] = "await" /\ configured') \/ stage'[u] \in Reading =>
                          cfg'[f][1] >= own'[u]
                    /\ tun'[u][f] = Unset \/ tun'[u][f][1] >= own'[u]
    <3>1. CASE own'[u] = own[u]
      BY <1>1, <1>2, <2>1, <3>1 DEF InOrder
    <3>2. CASE u = t /\ stage[t] = "register"
      BY <1>1, <1>2, <2>1, <2>2, <2>3, <3>2 DEF InOrder, Reading
    <3>. QED
      BY <1>5, <3>1, <3>2
  <2>5. cpc' # "none" => reply' # NoChain
    BY <1>1, <1>2, <2>1 DEF InOrder
  <2>. QED
    BY <2>4, <2>5 DEF InOrder
<1>. QED
  BY <1>6, <1>7, <1>8, <1>9, <1>10 DEF ConfigInv

LEMMA SendKeeps ==
    ASSUME ConfigInv, ProtoInv', NEW t \in Senders, SendsRequest(t)
    PROVE  ConfigInv'
<1>0. TypeOK /\ ConfigTypeOK /\ Callback /\ Tasks
  BY DEF ConfigInv, ProtoInv
<1>1. /\ SendTransmits(t)
      /\ GoesTo(t, IF stage[t] = "ping" THEN "register" ELSE "await")
      /\ UNCHANGED <<cfg, configured, cpc, own, tun>>
      /\ UNCHANGED <<overwrites, unasked, early>>
  BY DEF SendsRequest
<1>2. /\ Busy(t) /\ spc[t].kind \in Kinds /\ ~Busy(t)'
      /\ \A u \in Senders : u # t => spc'[u] = spc[u]
      /\ UNCHANGED <<wpc, reply, latest, raced>>
  BY <1>0, <1>1, TransmitsAfter
<1>3. stage[t] \in Kinds
  BY <1>0, <1>2 DEF Tasks
<1>4. /\ \/ stage[t] = "ping" /\ stage'[t] = "register"
         \/ stage[t] = "register" /\ stage'[t] = "await"
      /\ \A u \in Senders : u # t => stage'[u] = stage[u]
      /\ stage' \in [Senders -> Stages]
  BY <1>0, <1>1, <1>3, StageMoves DEF Stages, Kinds
<1>5. ConfigTypeOK'
  BY <1>0, <1>1, <1>4 DEF ConfigTypeOK, ProtoInv
<1>6. Callback'
  BY <1>0, <1>1, <1>2 DEF Callback
<1>7. Tasks'
  BY <1>0, <1>1, <1>2, <1>4 DEF Tasks, Busy
<1>8. ASSUME ~overwrites' PROVE Untouched'
  <2>1. Untouched
    BY <1>1, <1>8 DEF ConfigInv
  <2>2. InUse' <=> InUse
    BY <1>1, <1>4 DEF InUse, Reading
  <2>. QED
    BY <1>1, <1>2, <1>4, <2>1, <2>2 DEF Untouched
<1>9. ASSUME ~raced', ~unasked', ~early' PROVE InOrder'
  <2>1. InOrder
    BY <1>1, <1>2, <1>9 DEF ConfigInv
  <2>. QED
    BY <1>1, <1>2, <1>4, <2>1 DEF InOrder, Reading
<1>. QED
  BY <1>5, <1>6, <1>7, <1>8, <1>9 DEF ConfigInv

\* What the steps of a task that has sent its requests share.
LEMMA LaterShape ==
    ASSUME ConfigInv, NEW t \in Senders, stage[t] \notin Kinds
    PROVE  ~Busy(t)
BY SenderShape DEF ConfigInv, ProtoInv, Tasks

LEMMA AwakesKeeps ==
    ASSUME ConfigInv, ProtoInv', NEW t \in Senders, Awakes(t)
    PROVE  ConfigInv'
<1>0. TypeOK /\ ConfigTypeOK /\ Callback /\ Tasks
  BY DEF ConfigInv, ProtoInv
<1>1. /\ stage[t] = "await" /\ configured /\ GoesTo(t, "key")
      /\ UNCHANGED <<cfg, configured, cpc, own, tun>>
      /\ UNCHANGED <<inflight, spc, wpc, reply, latest, raced>>
      /\ UNCHANGED <<overwrites, unasked, early>>
  BY DEF Awakes, protoVars, vars
<1>2. /\ stage'[t] = "key" /\ \A u \in Senders : u # t => stage'[u] = stage[u]
      /\ stage' \in [Senders -> Stages]
  BY <1>0, <1>1, StageMoves DEF Stages, Reading
<1>3. ~Busy(t)
  BY <1>1, LaterShape DEF Kinds
<1>4. ConfigTypeOK'
  BY <1>0, <1>1, <1>2 DEF ConfigTypeOK, ProtoInv
<1>5. Callback'
  BY <1>0, <1>1 DEF Callback
<1>6. Tasks'
  BY <1>0, <1>1, <1>2, <1>3 DEF Tasks, Busy
<1>7. ASSUME ~overwrites' PROVE Untouched'
  <2>1. Untouched
    BY <1>1, <1>7 DEF ConfigInv
  <2>2. InUse /\ InUse'
    BY <1>1 DEF InUse
  <2>. QED
    BY <1>1, <1>2, <2>1, <2>2 DEF Untouched
<1>8. ASSUME ~raced', ~unasked', ~early' PROVE InOrder'
  <2>1. InOrder
    BY <1>1, <1>8 DEF ConfigInv
  <2>. QED
    BY <1>1, <1>2, <2>1 DEF InOrder, Reading
<1>. QED
  BY <1>4, <1>5, <1>6, <1>7, <1>8 DEF ConfigInv

\* One field read: what newt_wg_init and newt_wg_start do between their looks
\* at the configuration.
LEMMA ReadKeeps ==
    ASSUME ConfigInv, ProtoInv', NEW t \in Senders, NEW f \in Fields,
           NEW next \in {"address", "connect", "online"},
           stage[t] \in Reading, Reads(t, f), GoesTo(t, next),
           UNCHANGED <<protoVars, cfg, configured, cpc, own, overwrites, unasked, early>>,
           \/ stage[t] = "key" /\ f = "key" /\ next = "address"
           \/ stage[t] = "address" /\ f = "address" /\ next = "connect"
           \/ stage[t] = "connect" /\ f = "host" /\ next \in {"connect", "online"}
    PROVE  ConfigInv'
<1>0. TypeOK /\ ConfigTypeOK /\ Callback /\ Tasks
  BY DEF ConfigInv, ProtoInv
<1>1. /\ UNCHANGED <<cfg, configured, cpc, own>>
      /\ UNCHANGED <<inflight, spc, wpc, reply, latest, raced>>
      /\ UNCHANGED <<overwrites, unasked, early>>
  BY DEF protoVars, vars
<1>2. /\ stage'[t] = next /\ \A u \in Senders : u # t => stage'[u] = stage[u]
      /\ stage' \in [Senders -> Stages]
  BY <1>0, StageMoves DEF Stages, Reading
<1>3. /\ tun' \in [Senders -> [Fields -> Chains]]
      /\ tun'[t][f] = cfg[f]
      /\ \A g \in Fields : g # f => tun'[t][g] = tun[t][g]
      /\ \A u \in Senders : u # t => tun'[u] = tun[u]
  BY <1>0 DEF Reads, ConfigTypeOK
<1>4. ~Busy(t)
  BY LaterShape DEF Kinds, Reading
<1>5. ConfigTypeOK'
  BY <1>0, <1>1, <1>2, <1>3 DEF ConfigTypeOK, ProtoInv
<1>6. Callback'
  BY <1>0, <1>1 DEF Callback
<1>7. Tasks'
  BY <1>0, <1>1, <1>2, <1>3, <1>4 DEF Tasks, Busy
<1>8. ASSUME ~overwrites' PROVE Untouched'
  <2>1. Untouched
    BY <1>1, <1>8 DEF ConfigInv
  <2>2. InUse /\ (InUse' => InUse)
    BY DEF InUse
  <2>3. cpc = "none" /\ \A g \in Fields : cfg[g] = cfg["key"] /\ cfg[g] # Unset
    BY <2>1, <2>2 DEF Untouched
  <2>4. /\ stage'[t] \in {"address", "connect"} => tun'[t]["key"] = cfg["key"]
        /\ stage'[t] = "connect" => tun'[t]["address"] = cfg["address"]
        /\ stage'[t] = "online" =>
              \A g \in Fields : tun'[t][g] = tun'[t]["key"] /\ tun'[t][g] # Unset
    <3>1. CASE stage[t] = "key"
      BY <1>2, <1>3, <3>1
    <3>2. CASE stage[t] = "address"
      BY <1>2, <1>3, <2>1, <3>2 DEF Untouched, Fields
    <3>3. CASE stage[t] = "connect"
      BY <1>2, <1>3, <2>1, <2>3, <3>3 DEF Untouched, Fields
    <3>. QED
      BY <3>1, <3>2, <3>3 DEF Reading
  <2>5. ASSUME NEW u \in Senders, u # t
        PROVE  /\ stage'[u] \in {"address", "connect"} => tun'[u]["key"] = cfg["key"]
               /\ stage'[u] = "connect" => tun'[u]["address"] = cfg["address"]
               /\ stage'[u] = "online" =>
                     \A g \in Fields : tun'[u][g] = tun'[u]["key"] /\ tun'[u][g] # Unset
    BY <1>2, <1>3, <2>1, <2>5 DEF Untouched
  <2>. QED
    BY <1>1, <2>3, <2>4, <2>5 DEF Untouched
<1>9. ASSUME ~raced', ~unasked', ~early' PROVE InOrder'
  <2>1. InOrder
    BY <1>1, <1>9 DEF ConfigInv
  <2>2. \A g \in Fields : cfg[g][1] >= own[t]
    BY <2>1 DEF InOrder
  <2>3. \A g \in Fields : tun'[t][g] = Unset \/ tun'[t][g][1] >= own[t]
    BY <1>3, <2>1, <2>2 DEF InOrder
  <2>4. ASSUME NEW u \in Senders
        PROVE  /\ cpc' # "none" => reply'[1] >= own'[u]
               /\ stage'[u] \in {"ping", "register"} => ~configured'
               /\ \A g \in Fields :
                    /\ (stage'[u] = "await" /\ configured') \/ stage'[u] \in Reading =>
                          cfg'[g][1] >= own'[u]
                    /\ tun'[u][g] = Unset \/ tun'[u][g][1] >= own'[u]
    <3>1. CASE u = t
      BY <1>1, <1>2, <2>1, <2>2, <2>3, <3>1 DEF InOrder
    <3>2. CASE u # t
      BY <1>1, <1>2, <1>3, <2>1, <3>2 DEF InOrder
    <3>. QED
      BY <3>1, <3>2
  <2>5. cpc' # "none" => reply' # NoChain
    BY <1>1, <2>1 DEF InOrder
  <2>. QED
    BY <2>4, <2>5 DEF InOrder
<1>. QED
  BY <1>5, <1>6, <1>7, <1>8, <1>9 DEF ConfigInv

LEMMA EndsKeeps ==
    ASSUME ConfigInv, ProtoInv', NEW t \in Senders, Ends(t)
    PROVE  ConfigInv'
<1>0. TypeOK /\ ConfigTypeOK /\ Callback /\ Tasks
  BY DEF ConfigInv, ProtoInv
<1>1. /\ spc[t] = Idle /\ GoesTo(t, "none")
      /\ own' = [own EXCEPT ![t] = 0] /\ tun' = [tun EXCEPT ![t] = Nothing]
      /\ UNCHANGED <<cfg, configured, cpc>>
      /\ UNCHANGED <<inflight, spc, wpc, reply, latest, raced>>
      /\ UNCHANGED <<overwrites, unasked, early>>
  BY DEF Ends, protoVars, vars
<1>2. /\ stage'[t] = "none" /\ \A u \in Senders : u # t => stage'[u] = stage[u]
      /\ stage' \in [Senders -> Stages]
  BY <1>0, <1>1, StageMoves DEF Stages
<1>3. /\ own'[t] = 0 /\ \A u \in Senders : u # t => own'[u] = own[u]
      /\ tun'[t] = Nothing /\ \A u \in Senders : u # t => tun'[u] = tun[u]
  BY <1>0, <1>1 DEF ConfigTypeOK
<1>4. ConfigTypeOK'
  <2>1. Nothing \in [Fields -> Chains] /\ 0 \in 0..MaxIds
    BY IdsAssumption DEF Nothing, Unset, Chains, Chars
  <2>2. tun' \in [Senders -> [Fields -> Chains]] /\ own' \in [Senders -> 0..MaxIds]
    BY <1>0, <1>1, <2>1 DEF ConfigTypeOK
  <2>. QED
    BY <1>0, <1>1, <1>2, <2>2 DEF ConfigTypeOK, ProtoInv
<1>5. Callback'
  BY <1>0, <1>1 DEF Callback
<1>6. Tasks'
  <2>1. ~Busy(t) /\ latest \in Nat
    BY <1>0, <1>1 DEF Busy, TypeOK
  <2>2. \A u \in Senders : own'[u] <= latest
    BY <1>0, <1>3, <2>1 DEF Tasks
  <2>. QED
    BY <1>0, <1>1, <1>2, <1>3, <2>1, <2>2 DEF Tasks, Busy
<1>7. ASSUME ~overwrites' PROVE Untouched'
  <2>1. Untouched
    BY <1>1, <1>7 DEF ConfigInv
  <2>2. InUse' => InUse
    BY <1>1, <1>2 DEF InUse, Reading
  <2>. QED
    BY <1>1, <1>2, <1>3, <2>1, <2>2 DEF Untouched
<1>8. ASSUME ~raced', ~unasked', ~early' PROVE InOrder'
  <2>1. InOrder
    BY <1>1, <1>8 DEF ConfigInv
  <2>2. cpc' # "none" => reply' # NoChain /\ reply'[1] >= 0
    <3>1. cpc # "none" => reply # NoChain
      BY <2>1 DEF InOrder
    <3>2. reply # NoChain => reply[1] >= 0
      BY <1>0 DEF TypeOK, Chains, Chars
    <3>. QED
      BY <1>1, <3>1, <3>2
  <2>3. \A f \in Fields : tun'[t][f] = Unset
    BY <1>3 DEF Nothing
  <2>4. ASSUME NEW u \in Senders
        PROVE  /\ cpc' # "none" => reply'[1] >= own'[u]
               /\ stage'[u] \in {"ping", "register"} => ~configured'
               /\ \A f \in Fields :
                    /\ (stage'[u] = "await" /\ configured') \/ stage'[u] \in Reading =>
                          cfg'[f][1] >= own'[u]
                    /\ tun'[u][f] = Unset \/ tun'[u][f][1] >= own'[u]
    <3>1. CASE u = t
      BY <1>2, <1>3, <2>2, <2>3, <3>1 DEF Reading
    <3>2. CASE u # t
      BY <1>1, <1>2, <1>3, <2>1, <3>2 DEF InOrder
    <3>. QED
      BY <3>1, <3>2
  <2>. QED
    BY <2>2, <2>4 DEF InOrder
<1>. QED
  BY <1>4, <1>5, <1>6, <1>7, <1>8 DEF ConfigInv

-----------------------------------------------------------------------------
(* The theorems about the configuration.                                   *)

LEMMA ConfigStep == ConfigInv /\ [ConfigNext]_allVars => ConfigInv'
<1> SUFFICES ASSUME ConfigInv, [ConfigNext]_allVars PROVE ConfigInv'
  OBVIOUS
<1>0. ProtoInv'
  BY ConfigRefinesStep, ProtoStep DEF ConfigInv
<1>1. CASE CbBegins \/ CbWrites \/ CbSetsBit \/ OtherWork
  BY <1>0, <1>1, BeginsKeeps, WritesKeeps, SetsBitKeeps, OtherWorkKeeps
<1>2. ASSUME NEW t \in Senders, CbWgReconnect(t) PROVE ConfigInv'
  BY <1>0, <1>2, StartKeeps
<1>3. ASSUME NEW t \in Senders, TaskStep(t) PROVE ConfigInv'
  <2>1. CASE ReconnectClearsBit(t)
    BY <1>0, <2>1, ClearsBitKeeps
  <2>2. CASE BeginsRequest(t)
    BY <1>0, <2>2, RequestKeeps
  <2>3. CASE FinishesId(t)
    BY <1>0, <2>3, FinishesKeeps
  <2>4. CASE SendsRequest(t)
    BY <1>0, <2>4, SendKeeps
  <2>5. CASE Awakes(t)
    BY <1>0, <2>5, AwakesKeeps
  <2>6. CASE InitReadsKey(t)
    BY <1>0, <2>6, ReadKeeps DEF InitReadsKey, Fields, Reading
  <2>7. CASE InitReadsAddress(t)
    BY <1>0, <2>7, ReadKeeps DEF InitReadsAddress, Fields, Reading
  <2>8. CASE StartReadsHost(t)
    BY <1>0, <2>8, ReadKeeps DEF StartReadsHost, Fields, Reading
  <2>9. CASE Ends(t)
    BY <1>0, <2>9, EndsKeeps
  <2>. QED
    BY <1>3, <2>1, <2>2, <2>3, <2>4, <2>5, <2>6, <2>7, <2>8, <2>9 DEF TaskStep
<1>4. CASE UNCHANGED allVars
  <2>1. UNCHANGED configVars /\ UNCHANGED vars
    BY <1>4 DEF allVars, protoVars
  <2>2. UNCHANGED <<latest, raced, wpc, reply, spc>>
    BY <2>1 DEF vars
  <2>. QED
    BY <1>0, <2>1, <2>2, QuietKeeps DEF Busy, ConfigInv, Callback
<1>. QED
  BY <1>1, <1>2, <1>3, <1>4 DEF ConfigNext

\* The invariant of the whole.
THEOREM ConfigInvariant == ConfigSpec => []ConfigInv
BY ConfigInitHolds, ConfigStep, PTL DEF ConfigSpec

\* Every variable keeps its type.
THEOREM ConfigTypes == ConfigSpec => []ConfigTypeOK
<1>1. ConfigInv => ConfigTypeOK
  BY DEF ConfigInv
<1>. QED
  BY <1>1, ConfigInvariant, PTL

\* The tunnel a task brings up has key, addresses and host of one wg/connect,
\* unless another came while the bit was set or a task was reading
\* (newt.c:56-70, 85-96).
THEOREM WholeTunnel == ConfigSpec => []TunnelIsWhole
<1>1. ConfigInv => TunnelIsWhole
  BY DEF ConfigInv, Untouched, TunnelIsWhole
<1>. QED
  BY <1>1, ConfigInvariant, PTL

\* No task sets its tunnel up from an answer older than its own registration,
\* but in the two ways around the chain ids (newt.c:75-85, newt_proto.c:73).
THEOREM NothingOlder == ConfigSpec => []NoOlderConfiguration
<1>1. ConfigInv => NoOlderConfiguration
  BY DEF ConfigInv, InOrder, NoOlderConfiguration
<1>. QED
  BY <1>1, ConfigInvariant, PTL
=============================================================================
