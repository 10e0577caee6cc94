----------------------------- MODULE NewtWsProofs -----------------------------
(***************************************************************************)
(* Proofs about NewtWs, for every set of tasks and heap blocks, every      *)
(* queue depth, and whether or not a take may expire.                      *)
(*                                                                         *)
(* The invariants of NewtWs are not inductive: that the worker is gone     *)
(* after newt_ws_stop depends on the semaphore telling the truth, on every *)
(* stage of the stop finding what the earlier ones left, and on blocks     *)
(* having one owner.  Sound collects these facts; they hold until a take   *)
(* has expired.                                                            *)
(***************************************************************************)
EXTENDS NewtWs, TLAPS

\* Which handles exist, read off the stage of the lifecycle.
Stages ==
    /\ client # "null" => apc \in {"idle", "destroy"} /\ ~stopFlag
    /\ client # "null" => worker # NULL
    /\ apc = "destroy" => client # "null"
    /\ worker # NULL <=> (client # "null" \/ apc \in {"flag", "sentinel", "take"})
    /\ worker # NULL => queueUp /\ doneSem # "null"
    /\ stopFlag <=> apc \in {"sentinel", "take", "semdel", "drain", "unflag"}
    /\ apc \in {"semdel", "drain"} => queueUp
    /\ apc = "drain" => doneSem = "null"
    /\ apc \in {"idle", "unflag"} /\ client = "null" =>
          ~queueUp /\ doneSem = "null" /\ queue = <<>>

\* The worker lives exactly as long as its handle, until it has given its
\* token; a token is given only by a worker that was told to stop.
WorkerLives ==
    /\ \A w \in Workers : wpc[w] # Dead => w = worker /\ doneSem = "empty"
    /\ worker # NULL /\ doneSem = "empty" => wpc[worker] # Dead
    /\ worker # NULL /\ doneSem = "given" => stopFlag

\* Only a worker between its receive and its free holds a block.
HoldsWhileBusy ==
    \A w \in Workers : held[w] # NULL => wpc[w] \in {"got", "dispatch", "call"}

NotStranded ==
    apc = "take" => \A w \in Workers : wpc[w] = "recv" => queue # <<>>

OneOwner ==
    /\ live = QueuedBufs \cup HeldBufs
    /\ \A i, j \in DOMAIN queue :
          queue[i] = queue[j] /\ queue[i] # NULL => i = j
    /\ QueuedBufs \cap HeldBufs = {}

Sound ==
    ~fault /\ Stages /\ WorkerLives /\ HoldsWhileBusy /\ NotStranded /\ OneOwner

IInv == TypeOK /\ (~expired => Sound)
-----------------------------------------------------------------------------
(* Type correctness.                                                       *)

LEMMA InitTyped == Init => TypeOK
<1> SUFFICES ASSUME Init PROVE TypeOK
  OBVIOUS
<1>1. queue \in Seq(Bufs \cup {NULL}) /\ Len(queue) <= QueueDepth
  BY DepthAssumption DEF Init
<1>2. wpc \in [Workers -> WorkerPCs] /\ held \in [Workers -> Bufs \cup {NULL}]
  BY DEF Init, WorkerPCs
<1>. QED
  BY <1>1, <1>2, Zenon DEF Init, TypeOK, ApiPCs

LEMMA LifecycleTyped ==
    ASSUME TypeOK, WsInit \/ WsInitFails \/ WsStart \/ StopEnter \/ Stop
    PROVE  TypeOK'
<1>1. CASE WsInit
  <2>1. PICK w \in Workers : worker' = w /\ wpc' = [wpc EXCEPT ![w] = "top"]
    BY <1>1, Zenon DEF WsInit, Alive
  <2>2. wpc' \in [Workers -> WorkerPCs] /\ worker' \in Workers \cup {NULL}
    BY <2>1 DEF TypeOK, WorkerPCs
  <2>3. queue' \in Seq(Bufs \cup {NULL}) /\ Len(queue') <= QueueDepth
    BY <1>1, DepthAssumption DEF WsInit
  <2>. QED
    BY <1>1, <2>2, <2>3, Zenon DEF WsInit, TypeOK
<1>2. CASE WsInitFails
  BY <1>2 DEF WsInitFails, TypeOK
<1>3. CASE WsStart
  BY <1>3 DEF WsStart, TypeOK
<1>4. CASE StopEnter
  BY <1>4 DEF StopEnter, TypeOK, ApiPCs
<1>5. CASE StopDestroyClient
  BY <1>5 DEF StopDestroyClient, TypeOK, ApiPCs
<1>6. CASE StopSetFlag
  BY <1>6 DEF StopSetFlag, TypeOK, ApiPCs
<1>7. CASE StopSendSentinel
  BY <1>7, DepthAssumption DEF StopSendSentinel, TypeOK, ApiPCs
<1>8. CASE StopTakeDone
  BY <1>8 DEF StopTakeDone, TypeOK, ApiPCs
<1>9. CASE StopTakeExpires
  BY <1>9 DEF StopTakeExpires, TypeOK, ApiPCs
<1>10. CASE StopDeleteSem
  BY <1>10 DEF StopDeleteSem, TypeOK, ApiPCs
<1>11. CASE StopDeleteQueue
  <2>1. queue' \in Seq(Bufs \cup {NULL}) /\ Len(queue') <= QueueDepth
    BY <1>11, DepthAssumption DEF StopDeleteQueue
  <2>2. fault' \in BOOLEAN /\ queueUp' \in BOOLEAN /\ live' \subseteq Bufs
    BY <1>11, Zenon DEF StopDeleteQueue, TypeOK
  <2>. QED
    BY <1>11, <2>1, <2>2, Zenon DEF StopDeleteQueue, TypeOK, ApiPCs
<1>12. CASE StopClearFlag
  BY <1>12 DEF StopClearFlag, TypeOK, ApiPCs
<1>. QED
  BY <1>1, <1>2, <1>3, <1>4, <1>5, <1>6, <1>7, <1>8, <1>9, <1>10, <1>11, <1>12
     DEF Stop

LEMMA WorkerTyped ==
    ASSUME TypeOK, NEW w \in Workers, WorkerStep(w)
    PROVE  TypeOK'
<1> USE DEF lifecycle, heap
<1>1. CASE WorkerTopStops(w)
  BY <1>1 DEF WorkerTopStops, GiveAndDie, TypeOK, WorkerPCs
<1>2. CASE WorkerEntersReceive(w)
  BY <1>2 DEF WorkerEntersReceive, TypeOK, WorkerPCs
<1>3. CASE WorkerReceives(w)
  <2>1. /\ Head(queue) \in Bufs \cup {NULL}
        /\ queue' \in Seq(Bufs \cup {NULL})
        /\ Len(queue') <= QueueDepth
    BY <1>3, DepthAssumption DEF WorkerReceives, TypeOK
  <2>2. held' \in [Workers -> Bufs \cup {NULL}] /\ wpc' \in [Workers -> WorkerPCs]
    BY <1>3, <2>1 DEF WorkerReceives, TypeOK, WorkerPCs
  <2>. QED
    BY <1>3, <2>1, <2>2, Zenon DEF WorkerReceives, TypeOK
<1>4. CASE WorkerGotStops(w)
  BY <1>4 DEF WorkerGotStops, FreeHeld, GiveAndDie, TypeOK, WorkerPCs
<1>5. CASE WorkerGotGoesOn(w)
  BY <1>5 DEF WorkerGotGoesOn, TypeOK, WorkerPCs
<1>6. CASE WorkerCalls(w)
  BY <1>6 DEF WorkerCalls, TypeOK, WorkerPCs
<1>7. CASE WorkerFrees(w)
  BY <1>7 DEF WorkerFrees, FreeHeld, FreeFaults, TypeOK, WorkerPCs
<1>. QED
  BY <1>1, <1>2, <1>3, <1>4, <1>5, <1>6, <1>7 DEF WorkerStep

LEMMA TypeStep == TypeOK /\ [Next]_vars => TypeOK'
<1> SUFFICES ASSUME TypeOK, [Next]_vars PROVE TypeOK'
  OBVIOUS
<1>1. CASE QueueFull \/ Faulted \/ UNCHANGED vars
  BY <1>1 DEF QueueFull, Faulted, vars, TypeOK
<1>2. CASE WsInit \/ WsInitFails \/ WsStart \/ StopEnter \/ Stop
  BY <1>2, LifecycleTyped
<1>3. ASSUME NEW w \in Workers, WorkerStep(w) PROVE TypeOK'
  BY <1>3, WorkerTyped
<1>4. CASE EnqueuePayload
  BY <1>4, DepthAssumption DEF EnqueuePayload, TypeOK, lifecycle
<1>. QED
  BY <1>1, <1>2, <1>3, <1>4 DEF Next

\* No variable ever leaves its type (newt_ws.c:44-56).
THEOREM TypeCorrect == Spec => []TypeOK
BY InitTyped, TypeStep, PTL DEF Spec

-----------------------------------------------------------------------------
(* What a send and a receive do to the contents of a queue.                *)

Contents(q) == {q[i] : i \in DOMAIN q}
NoRepeats(q) == \A i, j \in DOMAIN q : q[i] = q[j] /\ q[i] # NULL => i = j

LEMMA SendContents ==
    ASSUME NEW S, NEW q \in Seq(S), NEW e \in S
    PROVE  /\ Contents(Append(q, e)) = Contents(q) \cup {e}
           /\ NoRepeats(q) /\ (e = NULL \/ e \notin Contents(q)) =>
                 NoRepeats(Append(q, e))
           /\ Append(q, e) # <<>>
<1>1. /\ Len(q) \in Nat
      /\ DOMAIN q = 1..Len(q)
      /\ DOMAIN Append(q, e) = 1..(Len(q) + 1)
      /\ \A i \in 1..Len(q) : Append(q, e)[i] = q[i]
      /\ Append(q, e)[Len(q) + 1] = e
  OBVIOUS
<1>2. Contents(Append(q, e)) = Contents(q) \cup {e}
  <2>1. Contents(Append(q, e)) \subseteq Contents(q) \cup {e}
    BY <1>1 DEF Contents
  <2>2. Contents(q) \cup {e} \subseteq Contents(Append(q, e))
    BY <1>1 DEF Contents
  <2>. QED
    BY <2>1, <2>2
<1>3. ASSUME NoRepeats(q), e = NULL \/ e \notin Contents(q)
      PROVE  NoRepeats(Append(q, e))
  BY <1>1, <1>3 DEF NoRepeats, Contents
<1>. QED
  BY <1>1, <1>2, <1>3

LEMMA ReceiveContents ==
    ASSUME NEW S, NEW q \in Seq(S), q # <<>>
    PROVE  /\ Contents(q) = {Head(q)} \cup Contents(Tail(q))
           /\ NoRepeats(q) =>
                 /\ NoRepeats(Tail(q))
                 /\ Head(q) # NULL => Head(q) \notin Contents(Tail(q))
<1>1. /\ Len(q) \in Nat /\ Len(q) > 0
      /\ DOMAIN q = 1..Len(q)
      /\ Head(q) = q[1]
      /\ DOMAIN Tail(q) = 1..(Len(q) - 1)
      /\ \A i \in 1..(Len(q) - 1) : Tail(q)[i] = q[i + 1]
  OBVIOUS
<1>2. Contents(q) = {Head(q)} \cup Contents(Tail(q))
  <2>1. ASSUME NEW i \in DOMAIN q PROVE q[i] \in {Head(q)} \cup Contents(Tail(q))
    <3>1. CASE i = 1
      BY <1>1, <3>1
    <3>2. CASE i # 1
      <4>1. i - 1 \in 1..(Len(q) - 1) /\ i = (i - 1) + 1
        BY <1>1, <3>2
      <4>. QED
        BY <1>1, <4>1 DEF Contents
    <3>. QED
      BY <3>1, <3>2
  <2>2. Contents(Tail(q)) \subseteq Contents(q)
    BY <1>1 DEF Contents
  <2>3. Head(q) \in Contents(q)
    BY <1>1 DEF Contents
  <2>. QED
    BY <2>1, <2>2, <2>3 DEF Contents
<1>3. ASSUME NoRepeats(q)
      PROVE  /\ NoRepeats(Tail(q))
             /\ Head(q) # NULL => Head(q) \notin Contents(Tail(q))
  <2>1. NoRepeats(Tail(q))
    BY <1>1, <1>3 DEF NoRepeats
  <2>2. Head(q) # NULL => Head(q) \notin Contents(Tail(q))
    BY <1>1, <1>3 DEF NoRepeats, Contents
  <2>. QED
    BY <2>1, <2>2
<1>. QED
  BY <1>2, <1>3

-----------------------------------------------------------------------------
(* Sound is kept by every step, as long as no take expires.                *)

LEMMA InitSound == Init => Sound
<1> SUFFICES ASSUME Init PROVE Sound
  OBVIOUS
<1>1. OneOwner
  BY DEF Init, OneOwner, QueuedBufs, HeldBufs
<1>. QED
  BY <1>1, NullAssumption, Zenon
     DEF Init, Sound, Stages, WorkerLives, HoldsWhileBusy, NotStranded

\* Steps that touch neither a queue nor a block leave the owners alone.
LEMMA OwnersUnchanged ==
    ASSUME OneOwner, UNCHANGED <<live, queue, held>>
    PROVE  OneOwner'
BY DEF OneOwner, QueuedBufs, HeldBufs

LEMMA InitCallSound == ASSUME TypeOK, Sound, WsInit PROVE Sound'
<1>1. PICK w \in Workers : worker' = w /\ wpc' = [wpc EXCEPT ![w] = "top"]
  BY DEF WsInit
<1>2. worker = NULL /\ queue = <<>> /\ \A v \in Workers : wpc[v] = Dead
  BY NullAssumption DEF WsInit, Sound, Stages, WorkerLives
<1>3. \A v \in Workers : wpc'[v] = IF v = w THEN "top" ELSE Dead
  BY <1>1, <1>2 DEF TypeOK
<1>4. Stages'
  BY <1>1, NullAssumption DEF WsInit, Stages
<1>5. WorkerLives'
  BY <1>1, <1>3 DEF WsInit, WorkerLives, Dead
<1>6. HoldsWhileBusy'
  BY <1>2, <1>3 DEF WsInit, Sound, HoldsWhileBusy, Dead
<1>7. NotStranded'
  BY <1>3 DEF WsInit, NotStranded
<1>8. OneOwner'
  BY <1>2, OwnersUnchanged DEF WsInit, Sound
<1>. QED
  BY <1>4, <1>5, <1>6, <1>7, <1>8 DEF WsInit, Sound

LEMMA StopSound ==
    ASSUME TypeOK, Sound, ~expired', WsStart \/ WsInitFails \/ StopEnter \/ Stop
    PROVE  Sound'
<1> USE NullAssumption DEF Sound
<1>1. CASE WsInitFails \/ WsStart \/ StopEnter
  <2>1. OneOwner'
    BY <1>1, OwnersUnchanged DEF WsInitFails, WsStart, StopEnter
  <2>2. Stages'
    BY <1>1 DEF WsInitFails, WsStart, StopEnter, Stages
  <2>3. WorkerLives' /\ HoldsWhileBusy' /\ NotStranded'
    BY <1>1 DEF WsInitFails, WsStart, StopEnter, Stages, WorkerLives,
       HoldsWhileBusy, NotStranded
  <2>. QED
    BY <1>1, <2>1, <2>2, <2>3 DEF WsInitFails, WsStart, StopEnter
<1>2. CASE StopDestroyClient
  <2>1. OneOwner'
    BY <1>2, OwnersUnchanged DEF StopDestroyClient
  <2>. QED
    BY <1>2, <2>1 DEF StopDestroyClient, Stages, WorkerLives, HoldsWhileBusy,
       NotStranded
<1>3. CASE StopSetFlag
  <2>1. OneOwner'
    BY <1>3, OwnersUnchanged DEF StopSetFlag
  <2>. QED
    BY <1>3, <2>1 DEF StopSetFlag, Stages, WorkerLives, HoldsWhileBusy,
       NotStranded
<1>4. CASE StopSendSentinel
  <2>1. queue' # <<>>
    BY <1>4, DepthAssumption DEF StopSendSentinel, TypeOK
  <2>2. OneOwner'
    <3>1. CASE queue' = queue
      BY <1>4, <3>1, OwnersUnchanged DEF StopSendSentinel
    <3>2. CASE queue' = Append(queue, NULL)
      <4>1. Contents(queue') = Contents(queue) \cup {NULL} /\ NoRepeats(queue')
        BY <3>2, SendContents DEF TypeOK, OneOwner, NoRepeats
      <4>. QED
        BY <1>4, <4>1 DEF StopSendSentinel, OneOwner, QueuedBufs, HeldBufs,
           Contents, NoRepeats
    <3>. QED
      BY <1>4, <3>1, <3>2 DEF StopSendSentinel
  <2>. QED
    BY <1>4, <2>1, <2>2 DEF StopSendSentinel, Stages, WorkerLives,
       HoldsWhileBusy, NotStranded
<1>5. CASE StopTakeDone
  <2>1. OneOwner'
    BY <1>5, OwnersUnchanged DEF StopTakeDone
  <2>. QED
    BY <1>5, <2>1 DEF StopTakeDone, Stages, WorkerLives, HoldsWhileBusy,
       NotStranded
<1>6. CASE StopTakeExpires
  BY <1>6 DEF StopTakeExpires
<1>7. CASE StopDeleteSem
  <2>1. OneOwner'
    BY <1>7, OwnersUnchanged DEF StopDeleteSem
  <2>. QED
    BY <1>7, <2>1 DEF StopDeleteSem, Stages, WorkerLives, HoldsWhileBusy,
       NotStranded
<1>8. CASE StopDeleteQueue
  <2>1. \A w \in Workers : wpc[w] = Dead /\ held[w] = NULL
    BY <1>8 DEF StopDeleteQueue, Stages, WorkerLives, HoldsWhileBusy, Dead
  <2>2. HeldBufs = {} /\ HeldBufs' = {}
    BY <1>8, <2>1 DEF StopDeleteQueue, HeldBufs
  <2>3. QueuedBufs' = {} /\ live' = {}
    BY <1>8, <2>2 DEF StopDeleteQueue, QueuedBufs, OneOwner
  <2>4. OneOwner'
    BY <1>8, <2>2, <2>3 DEF StopDeleteQueue, OneOwner
  <2>5. ~fault'
    BY <1>8, <2>1, Zenon DEF StopDeleteQueue, OneOwner, Dead
  <2>. QED
    BY <1>8, <2>1, <2>4, <2>5 DEF StopDeleteQueue, Stages, WorkerLives,
       HoldsWhileBusy, NotStranded
<1>9. CASE StopClearFlag
  <2>1. OneOwner'
    BY <1>9, OwnersUnchanged DEF StopClearFlag
  <2>. QED
    BY <1>9, <2>1 DEF StopClearFlag, Stages, WorkerLives, HoldsWhileBusy,
       NotStranded
<1>. QED
  BY <1>1, <1>2, <1>3, <1>4, <1>5, <1>6, <1>7, <1>8, <1>9 DEF Stop

LEMMA EnqueueSound == ASSUME TypeOK, Sound, EnqueuePayload PROVE Sound'
<1> USE NullAssumption DEF Sound, lifecycle
<1>1. PICK b \in Bufs \ live : live' = live \cup {b} /\ queue' = Append(queue, b)
  BY DEF EnqueuePayload
<1>2. b # NULL /\ b \notin Contents(queue) /\ b \notin HeldBufs
  BY <1>1 DEF OneOwner, QueuedBufs, Contents
<1>3. /\ Contents(queue') = Contents(queue) \cup {b}
      /\ NoRepeats(queue')
      /\ queue' # <<>>
  BY <1>1, <1>2, SendContents DEF TypeOK, OneOwner, NoRepeats
<1>4. QueuedBufs' = QueuedBufs \cup {b} /\ HeldBufs' = HeldBufs
  BY <1>2, <1>3 DEF QueuedBufs, Contents, HeldBufs, EnqueuePayload
<1>5. OneOwner'
  BY <1>1, <1>2, <1>3, <1>4 DEF OneOwner, NoRepeats
<1>6. Stages' /\ WorkerLives' /\ HoldsWhileBusy' /\ NotStranded'
  BY <1>3 DEF EnqueuePayload, Stages, WorkerLives, HoldsWhileBusy, NotStranded
<1>. QED
  BY <1>5, <1>6 DEF EnqueuePayload

\* The block a worker frees is its own and no one else's.
LEMMA FreeSound ==
    ASSUME TypeOK, Sound, NEW w \in Workers, wpc[w] # Dead, FreeHeld(w),
           UNCHANGED queue
    PROVE  OneOwner' /\ ~FreeFaults(w) /\ \A v \in Workers : held'[v] = NULL
<1> USE DEF Sound
<1>1. \A v \in Workers : v # w => wpc[v] = Dead /\ held[v] = NULL
  BY DEF WorkerLives, HoldsWhileBusy, Dead
<1>2. HeldBufs = {held[w]} \ {NULL}
  BY <1>1 DEF HeldBufs
<1>3. \A v \in Workers : held'[v] = NULL
  BY <1>1 DEF FreeHeld, TypeOK
<1>4. HeldBufs' = {} /\ QueuedBufs' = QueuedBufs
  BY <1>3 DEF HeldBufs, QueuedBufs
<1>5. live' = QueuedBufs
  BY <1>2 DEF OneOwner, FreeHeld, QueuedBufs
<1>6. OneOwner'
  BY <1>4, <1>5 DEF OneOwner
<1>7. ~FreeFaults(w)
  BY <1>2 DEF FreeFaults, OneOwner
<1>. QED
  BY <1>3, <1>6, <1>7

LEMMA WorkerSound ==
    ASSUME TypeOK, Sound, NEW w \in Workers, WorkerStep(w)
    PROVE  Sound'
<1> USE NullAssumption DEF Sound, lifecycle, heap, Dead
<1>1. wpc[w] # Dead /\ w = worker /\ worker # NULL /\ doneSem = "empty" /\ queueUp
  BY DEF WorkerStep, WorkerTopStops, WorkerEntersReceive, WorkerReceives,
     WorkerGotStops, WorkerGotGoesOn, WorkerCalls, WorkerFrees, WorkerLives,
     Stages
<1>2. \A v \in Workers : v # w => wpc[v] = Dead /\ held[v] = NULL
  BY <1>1 DEF WorkerLives, HoldsWhileBusy
<1>3. CASE WorkerTopStops(w)
  <2>1. \A v \in Workers : wpc'[v] = Dead
    BY <1>2, <1>3 DEF WorkerTopStops, GiveAndDie, TypeOK
  <2>2. doneSem' = "given" /\ ~fault'
    BY <1>1, <1>3 DEF WorkerTopStops, GiveAndDie
  <2>3. OneOwner'
    BY <1>3, OwnersUnchanged DEF WorkerTopStops
  <2>4. HoldsWhileBusy'
    BY <1>2, <1>3 DEF WorkerTopStops, HoldsWhileBusy
  <2>. QED
    BY <1>1, <1>3, <2>1, <2>2, <2>3, <2>4
       DEF WorkerTopStops, Stages, WorkerLives, NotStranded
<1>4. CASE WorkerEntersReceive(w)
  <2>1. wpc' = [wpc EXCEPT ![w] = "recv"] /\ ~fault' /\ ~stopFlag
    BY <1>1, <1>4 DEF WorkerEntersReceive
  <2>2. OneOwner'
    BY <1>4, OwnersUnchanged DEF WorkerEntersReceive
  <2>3. WorkerLives' /\ HoldsWhileBusy'
    BY <1>1, <1>4, <2>1
       DEF WorkerEntersReceive, WorkerLives, HoldsWhileBusy, TypeOK
  <2>4. Stages' /\ NotStranded'
    BY <1>4, <2>1 DEF WorkerEntersReceive, Stages, NotStranded
  <2>. QED
    BY <2>1, <2>2, <2>3, <2>4
<1>5. CASE WorkerReceives(w)
  <2>1. held[w] = NULL
    BY <1>5 DEF WorkerReceives, HoldsWhileBusy
  <2>2. /\ held' = [held EXCEPT ![w] = Head(queue)]
        /\ wpc' = [wpc EXCEPT ![w] = "got"]
        /\ Contents(queue) = {Head(queue)} \cup Contents(queue')
        /\ NoRepeats(queue')
        /\ Head(queue) # NULL => Head(queue) \notin Contents(queue')
    BY <1>5, ReceiveContents DEF WorkerReceives, TypeOK, OneOwner, NoRepeats
  <2>3. HeldBufs = {} /\ HeldBufs' = {Head(queue)} \ {NULL}
    BY <1>2, <2>1, <2>2 DEF HeldBufs, TypeOK
  <2>4. OneOwner'
    BY <1>5, <2>2, <2>3
       DEF WorkerReceives, OneOwner, QueuedBufs, Contents, NoRepeats
  <2>5. Stages' /\ WorkerLives' /\ HoldsWhileBusy' /\ NotStranded'
    BY <1>1, <1>2, <1>5, <2>2
       DEF WorkerReceives, Stages, WorkerLives, HoldsWhileBusy, NotStranded,
           TypeOK
  <2>. QED
    BY <1>5, <2>4, <2>5 DEF WorkerReceives
<1>6. CASE WorkerGotStops(w)
  <2>1. OneOwner' /\ ~FreeFaults(w) /\ \A v \in Workers : held'[v] = NULL
    BY <1>1, <1>6, FreeSound DEF WorkerGotStops
  <2>2. \A v \in Workers : wpc'[v] = Dead
    BY <1>2, <1>6 DEF WorkerGotStops, GiveAndDie, TypeOK
  <2>3. doneSem' = "given" /\ ~fault'
    BY <1>1, <1>6, <2>1 DEF WorkerGotStops, GiveAndDie
  <2>. QED
    BY <1>1, <1>6, <2>1, <2>2, <2>3
       DEF WorkerGotStops, Stages, WorkerLives, HoldsWhileBusy, NotStranded
<1>7. CASE WorkerGotGoesOn(w)
  <2>1. OneOwner'
    BY <1>7, OwnersUnchanged DEF WorkerGotGoesOn
  <2>. QED
    BY <1>1, <1>7, <2>1
       DEF WorkerGotGoesOn, Stages, WorkerLives, HoldsWhileBusy, NotStranded,
           TypeOK
<1>8. CASE WorkerCalls(w)
  <2>1. OneOwner'
    BY <1>8, OwnersUnchanged DEF WorkerCalls
  <2>. QED
    BY <1>1, <1>8, <2>1
       DEF WorkerCalls, Stages, WorkerLives, HoldsWhileBusy, NotStranded, TypeOK
<1>9. CASE WorkerFrees(w)
  <2>1. OneOwner' /\ ~FreeFaults(w) /\ \A v \in Workers : held'[v] = NULL
    BY <1>1, <1>9, FreeSound DEF WorkerFrees
  <2>2. wpc' = [wpc EXCEPT ![w] = "top"] /\ ~fault'
    BY <1>9, <2>1 DEF WorkerFrees
  <2>. QED
    BY <1>1, <1>9, <2>1, <2>2
       DEF WorkerFrees, Stages, WorkerLives, HoldsWhileBusy, NotStranded, TypeOK
<1>. QED
  BY <1>3, <1>4, <1>5, <1>6, <1>7, <1>8, <1>9 DEF WorkerStep

LEMMA SoundStep == TypeOK /\ (~expired => Sound) /\ [Next]_vars => (~expired' => Sound')
<1> SUFFICES ASSUME TypeOK, ~expired => Sound, [Next]_vars, ~expired' PROVE Sound'
  OBVIOUS
<1>1. CASE UNCHANGED vars
  <2>1. Sound
    BY <1>1 DEF vars
  <2>. QED
    BY <1>1, <2>1, OwnersUnchanged DEF vars, Sound, Stages, WorkerLives,
       HoldsWhileBusy, NotStranded
<1>2. CASE WsInit
  BY <1>2, InitCallSound DEF WsInit
<1>3. CASE WsInitFails \/ WsStart \/ StopEnter
  BY <1>3, StopSound DEF WsInitFails, WsStart, StopEnter
<1>4. CASE Stop
  BY <1>4, StopSound DEF Stop, StopDestroyClient, StopSetFlag, StopSendSentinel,
     StopTakeDone, StopTakeExpires, StopDeleteSem, StopDeleteQueue, StopClearFlag
<1>5. CASE EnqueuePayload
  BY <1>5, EnqueueSound DEF EnqueuePayload, lifecycle
<1>6. ASSUME NEW w \in Workers, WorkerStep(w) PROVE Sound'
  BY <1>6, WorkerSound DEF WorkerStep, WorkerTopStops, WorkerEntersReceive,
     WorkerReceives, WorkerGotStops, WorkerGotGoesOn, WorkerCalls, WorkerFrees,
     lifecycle
<1>. QED
  BY <1>1, <1>2, <1>3, <1>4, <1>5, <1>6 DEF Next, QueueFull, Faulted

LEMMA Invariance == Spec => []IInv
<1>1. Init => IInv
  BY InitTyped, InitSound DEF IInv
<1>2. IInv /\ [Next]_vars => IInv'
  BY TypeStep, SoundStep DEF IInv
<1>. QED
  BY <1>1, <1>2, PTL DEF Spec

\* Undefined behaviour is reached only after a take in newt_ws_stop has given
\* up (newt_ws.c:318): no deleted queue or semaphore is used and no block is
\* freed twice otherwise.
THEOREM FaultFree == Spec => []FaultOnlyAfterExpiry
<1>1. IInv => FaultOnlyAfterExpiry
  BY Zenon DEF IInv, Sound, FaultOnlyAfterExpiry
<1>. QED
  BY <1>1, Invariance, PTL

\* A sentinel that found the queue full never strands the worker
\* (newt_ws.c:313-319).
THEOREM NeverStranded == Spec => []StopNeverStrandsWorker
<1>1. IInv => StopNeverStrandsWorker
  BY Zenon DEF IInv, Sound, NotStranded, StopNeverStrandsWorker
<1>. QED
  BY <1>1, Invariance, PTL

\* No payload is leaked, queued twice or freed while queued
\* (newt_ws.c:101-105, 135-148, 328-330).
THEOREM BlocksOwned == Spec => []EveryBlockOwnedOnce
<1>1. IInv => EveryBlockOwnedOnce
  BY Zenon DEF IInv, Sound, OneOwner, EveryBlockOwnedOnce
<1>. QED
  BY <1>1, Invariance, PTL

\* newt_ws_stop returns only when the worker it stopped is gone, so that there
\* never are two workers (newt_ws.c:303-344).
THEOREM WorkerJoined == Spec => []StopJoinsWorker
<1>1. ASSUME IInv, ~expired PROVE StopJoinsWorker
  <2>1. Alive \subseteq {worker}
    BY <1>1 DEF IInv, Sound, WorkerLives, Alive
  <2>2. ASSUME apc = "idle", client = "null"
        PROVE  Alive = {} /\ live = {} /\ ~queueUp /\ doneSem = "null"
    <3>1. ~queueUp /\ doneSem = "null" /\ queue = <<>>
      BY <1>1, <2>2 DEF IInv, Sound, Stages
    <3>2. \A w \in Workers : wpc[w] = Dead /\ held[w] = NULL
      BY <1>1, <3>1 DEF IInv, Sound, WorkerLives, HoldsWhileBusy, Dead
    <3>3. live = {}
      BY <1>1, <3>1, <3>2 DEF IInv, Sound, OneOwner, QueuedBufs, HeldBufs
    <3>. QED
      BY <3>1, <3>2, <3>3 DEF Alive
  <2>. QED
    BY <2>1, <2>2 DEF StopJoinsWorker
<1>2. IInv => StopJoinsWorker
  BY <1>1 DEF StopJoinsWorker
<1>. QED
  BY <1>2, Invariance, PTL

-----------------------------------------------------------------------------
(* newt_ws.c keeps the promise of WsInbox, step by step, until a take has  *)
(* expired.  Two more facts are needed: the sentinel is in the queue only  *)
(* while the stop flag is up, and whatever is dispatched is a message.     *)

Ready ==
    /\ worker # NULL /\ ~stopFlag => NULL \notin Contents(queue)
    /\ \A w \in Workers : wpc[w] \in {"dispatch", "call"} => held[w] # NULL

LEMMA InitReady == Init => Ready
BY DEF Init, Ready, Dead

LEMMA ReadyStep ==
    ASSUME TypeOK, Sound, Ready, [Next]_vars, ~expired'
    PROVE  Ready'
<1> USE NullAssumption DEF Dead
<1>1. CASE UNCHANGED vars
  BY <1>1 DEF vars, Ready, Contents
<1>2. CASE WsInit
  <2>1. PICK w \in Workers : wpc' = [wpc EXCEPT ![w] = "top"]
    BY <1>2 DEF WsInit
  <2>2. queue' = <<>> /\ held' = held
    BY <1>2 DEF WsInit
  <2>3. NULL \notin Contents(queue')
    BY <2>2 DEF Contents
  <2>. QED
    BY <2>1, <2>2, <2>3 DEF Ready, TypeOK
<1>3. CASE WsInitFails
  BY <1>3 DEF WsInitFails, Ready, Sound, Stages
<1>4. CASE WsStart \/ StopEnter
  BY <1>4 DEF WsStart, StopEnter, Ready
<1>5. CASE Stop
  <2>1. held' = held /\ wpc' = wpc
    BY <1>5 DEF Stop, StopDestroyClient, StopSetFlag, StopSendSentinel, StopTakeDone,
       StopTakeExpires, StopDeleteSem, StopDeleteQueue, StopClearFlag
  <2>2. (worker # NULL /\ ~stopFlag)' => worker # NULL /\ ~stopFlag /\ queue' = queue
    BY <1>5 DEF Stop, StopDestroyClient, StopSetFlag, StopSendSentinel, StopTakeDone,
       StopTakeExpires, StopDeleteSem, StopDeleteQueue, StopClearFlag, Sound, Stages
  <2>. QED
    BY <2>1, <2>2 DEF Ready
<1>6. CASE EnqueuePayload
  <2>1. PICK b \in Bufs \ live : queue' = Append(queue, b)
    BY <1>6 DEF EnqueuePayload
  <2>2. Contents(queue') = Contents(queue) \cup {b}
    BY <2>1, SendContents DEF TypeOK
  <2>. QED
    BY <1>6, <2>2 DEF EnqueuePayload, lifecycle, Ready
<1>7. ASSUME NEW w \in Workers, WorkerStep(w) PROVE Ready'
  <2> USE DEF lifecycle, heap
  <2>1. CASE WorkerTopStops(w)
    BY <2>1 DEF WorkerTopStops, GiveAndDie, Ready, TypeOK
  <2>2. CASE WorkerEntersReceive(w)
    BY <2>2 DEF WorkerEntersReceive, Ready, TypeOK
  <2>3. CASE WorkerReceives(w)
    <3>1. Contents(queue') \subseteq Contents(queue)
      BY <2>3, ReceiveContents DEF WorkerReceives, TypeOK
    <3>. QED
      BY <2>3, <3>1 DEF WorkerReceives, Ready, TypeOK
  <2>4. CASE WorkerGotStops(w)
    BY <2>4 DEF WorkerGotStops, GiveAndDie, FreeHeld, Ready, TypeOK
  <2>5. CASE WorkerGotGoesOn(w)
    BY <2>5 DEF WorkerGotGoesOn, Ready, TypeOK
  <2>6. CASE WorkerCalls(w)
    BY <2>6 DEF WorkerCalls, Ready, TypeOK
  <2>7. CASE WorkerFrees(w)
    BY <2>7 DEF WorkerFrees, FreeHeld, Ready, TypeOK
  <2>. QED
    BY <1>7, <2>1, <2>2, <2>3, <2>4, <2>5, <2>6, <2>7 DEF WorkerStep
<1>. QED
  BY <1>1, <1>2, <1>3, <1>4, <1>5, <1>6, <1>7 DEF Next, QueueFull, Faulted

\* The inbox, seen from the one worker there is.
InboxUp ==
    /\ inboxPhase = IF stopFlag THEN "closing" ELSE "up"
    /\ inboxPending =
          IF stopFlag THEN <<>>
          ELSE IF wpc[worker] = "got" /\ held[worker] # NULL
          THEN <<held[worker]>> \o queue ELSE queue
    /\ inboxTaken = IF wpc[worker] \in {"dispatch", "call"} THEN held[worker] ELSE NULL
    /\ inboxRunning <=> wpc[worker] = "call"

InboxDown ==
    inboxPhase = "down" /\ inboxPending = <<>> /\ inboxTaken = NULL /\ ~inboxRunning

LEMMA UpSeen == TypeOK /\ Sound /\ worker # NULL => InboxUp
<1>1. SUFFICES ASSUME TypeOK, Sound, worker # NULL PROVE InboxUp
  OBVIOUS
<1>2. worker \in Workers /\ \A v \in Workers : v # worker => wpc[v] = Dead
  BY <1>1 DEF TypeOK, Sound, WorkerLives
<1>3. inboxPhase = IF stopFlag THEN "closing" ELSE "up"
  BY <1>1 DEF inboxPhase
<1>4. (Checking = {}) <=> ~(wpc[worker] = "got" /\ held[worker] # NULL)
  BY <1>2 DEF Checking, Dead
<1>5. inboxPending =
        IF stopFlag THEN <<>>
        ELSE IF wpc[worker] = "got" /\ held[worker] # NULL
        THEN <<held[worker]>> \o queue ELSE queue
  BY <1>3, <1>4 DEF inboxPending
<1>6. inboxTaken = IF wpc[worker] \in {"dispatch", "call"} THEN held[worker] ELSE NULL
  BY <1>1, <1>2 DEF inboxTaken, Busy
<1>7. inboxRunning <=> wpc[worker] = "call"
  BY <1>1, <1>2, Zenon DEF inboxRunning
<1>. QED
  BY <1>3, <1>5, <1>6, <1>7 DEF InboxUp

LEMMA DownSeen == worker = NULL => InboxDown
BY DEF InboxDown, inboxPhase, inboxPending, inboxTaken, inboxRunning

LEMMA SeenNext ==
    /\ TypeOK' /\ Sound' /\ (worker # NULL)' => InboxUp'
    /\ (worker = NULL)' => InboxDown'
BY UpSeen, DownSeen, PTL

LEMMA RunningBoolean == inboxRunning \in BOOLEAN
BY Zenon DEF inboxRunning

LEMMA RunningBooleanNext == inboxRunning' \in BOOLEAN
BY Zenon DEF inboxRunning

\* What is in the inbox besides the queue is one message in the worker's hands.
LEMMA PendingShape ==
    ASSUME TypeOK, Sound, worker # NULL, ~stopFlag, InboxUp
    PROVE  /\ inboxPending \in Seq(Bufs \cup {NULL})
           /\ Len(inboxPending) <= Len(queue) + 1
           /\ Contents(inboxPending) \ {NULL} \subseteq live
<1>1. worker \in Workers /\ held[worker] \in Bufs \cup {NULL}
      /\ queue \in Seq(Bufs \cup {NULL})
  BY DEF TypeOK
<1>2. Contents(queue) \ {NULL} \subseteq live
  BY DEF Sound, OneOwner, QueuedBufs, Contents
<1>3. CASE inboxPending = queue
  BY <1>1, <1>2, <1>3
<1>4. CASE held[worker] # NULL /\ inboxPending = <<held[worker]>> \o queue
  <2>1. held[worker] \in live
    BY <1>1, <1>4 DEF Sound, OneOwner, HeldBufs
  <2> DEFINE h == held[worker]
             q == <<h>> \o queue
  <2> HIDE DEF h
  <2>2. h \in Bufs \cup {NULL} /\ h \in live
    BY <1>1, <2>1 DEF h
  <2>3. /\ q \in Seq(Bufs \cup {NULL}) /\ Len(q) = Len(queue) + 1 /\ Len(queue) \in Nat
        /\ DOMAIN q = 1 .. Len(queue) + 1 /\ q[1] = h
        /\ \A i \in 2 .. Len(queue) + 1 : q[i] = queue[i - 1]
    BY <1>1, <2>2
  <2> HIDE DEF q
  <2>4. Contents(q) \subseteq {h} \cup Contents(queue)
    <3>1. ASSUME NEW i \in DOMAIN q PROVE q[i] \in {h} \cup Contents(queue)
      <4>1. CASE i = 1
        BY <2>3, <4>1
      <4>2. CASE i # 1
        <5>1. i \in 2 .. Len(queue) + 1 /\ i - 1 \in 1 .. Len(queue)
          BY <2>3, <4>2
        <5>2. DOMAIN queue = 1 .. Len(queue)
          BY <1>1
        <5>. QED
          BY <2>3, <5>1, <5>2 DEF Contents
      <4>. QED
        BY <4>1, <4>2
    <3>. QED
      BY <3>1 DEF Contents
  <2>5. inboxPending = q
    BY <1>4 DEF q, h
  <2>. QED
    BY <1>2, <2>2, <2>3, <2>4, <2>5
<1>. QED
  BY <1>3, <1>4 DEF InboxUp

LEMMA LifecycleIsInbox ==
    ASSUME TypeOK, Sound, TypeOK', Sound', WsInit \/ WsInitFails \/ WsStart \/ StopEnter
    PROVE  Inbox!Next \/ UNCHANGED Inbox!vars
<1> USE NullAssumption
<1>1. CASE WsInit
  <2>1. worker = NULL /\ InboxDown
    BY <1>1, DownSeen DEF WsInit, Sound, Stages
  <2>2. PICK w \in Workers : worker' = w /\ wpc' = [wpc EXCEPT ![w] = "top"]
    BY <1>1 DEF WsInit
  <2>3. worker' # NULL /\ wpc'[worker'] = "top" /\ ~stopFlag' /\ queue' = <<>>
    BY <1>1, <2>2 DEF WsInit, TypeOK
  <2>4. InboxUp'
    BY <2>3, SeenNext
  <2>5. inboxPhase' = "up" /\ inboxPending' = <<>> /\ inboxTaken' = NULL
        /\ ~inboxRunning'
    BY <2>3, <2>4 DEF InboxUp
  <2>6. Inbox!Open
    BY <2>1, <2>5, RunningBoolean, RunningBooleanNext DEF InboxDown, Inbox!Open
  <2>. QED
    BY <2>6 DEF Inbox!Next
<1>2. CASE WsInitFails \/ WsStart \/ StopEnter
  <2>1. UNCHANGED <<queue, stopFlag, worker, wpc, held>>
    <3>1. apc = "idle" /\ stopFlag \in BOOLEAN
      BY <1>2 DEF WsInitFails, WsStart, StopEnter, TypeOK
    <3>2. stopFlag = FALSE
      BY <3>1 DEF Sound, Stages
    <3>. QED
      BY <1>2, <3>2 DEF WsInitFails, WsStart, StopEnter
  <2>2. UNCHANGED <<inboxPhase, inboxPending, inboxTaken, inboxRunning>>
    BY <2>1 DEF inboxPhase, inboxPending, inboxTaken, inboxRunning, Checking, Busy
  <2>. QED
    BY <2>2 DEF Inbox!vars
<1>. QED
  BY <1>1, <1>2

LEMMA StopIsInbox ==
    ASSUME TypeOK, Sound, TypeOK', Sound', ~expired', Stop
    PROVE  Inbox!Next \/ UNCHANGED Inbox!vars
<1> USE NullAssumption
<1>0. (worker # NULL => InboxUp) /\ (worker = NULL => InboxDown)
  BY UpSeen, DownSeen
<1>1. CASE StopDestroyClient
  <2>1. UNCHANGED <<inboxPhase, inboxPending, inboxTaken, inboxRunning>>
    BY <1>1 DEF StopDestroyClient, inboxPhase, inboxPending, inboxTaken, inboxRunning,
       Checking, Busy
  <2>. QED
    BY <2>1 DEF Inbox!vars
<1>2. CASE StopSetFlag
  <2>1. worker # NULL /\ ~stopFlag /\ stopFlag' /\ UNCHANGED <<worker, wpc, held, queue>>
    BY <1>2 DEF StopSetFlag, Sound, Stages
  <2>2. InboxUp /\ InboxUp'
    BY <1>0, <2>1, SeenNext
  <2>3. /\ inboxPhase = "up" /\ inboxPhase' = "closing" /\ inboxPending' = <<>>
        /\ inboxTaken' = inboxTaken /\ (inboxRunning' <=> inboxRunning)
    BY <2>1, <2>2 DEF InboxUp
  <2>4. Inbox!BeginClose
    BY <2>3, RunningBoolean, RunningBooleanNext DEF Inbox!BeginClose
  <2>. QED
    BY <2>4 DEF Inbox!Next
<1>3. CASE StopSendSentinel
  <2>1. worker # NULL /\ stopFlag /\ UNCHANGED <<worker, stopFlag, wpc, held>>
    BY <1>3 DEF StopSendSentinel, Sound, Stages
  <2>2. inboxPhase = "closing" /\ inboxPhase' = "closing"
    BY <2>1 DEF inboxPhase
  <2>3. UNCHANGED <<inboxPhase, inboxPending, inboxTaken, inboxRunning>>
    BY <2>1, <2>2 DEF inboxPending, inboxTaken, inboxRunning, Busy
  <2>. QED
    BY <2>3 DEF Inbox!vars
<1>4. CASE StopTakeDone
  <2>1. worker # NULL /\ worker \in Workers /\ stopFlag /\ wpc[worker] = Dead /\ worker' = NULL
    BY <1>4 DEF StopTakeDone, Sound, Stages, WorkerLives, TypeOK
  <2>2. InboxUp /\ InboxDown'
    BY <1>0, <2>1, SeenNext
  <2>3. /\ inboxPhase = "closing" /\ inboxPending = <<>> /\ inboxTaken = NULL /\ ~inboxRunning
    BY <2>1, <2>2 DEF InboxUp, Dead
  <2>4. Inbox!Close
    BY <2>2, <2>3, RunningBoolean, RunningBooleanNext DEF Inbox!Close, InboxDown
  <2>. QED
    BY <2>4 DEF Inbox!Next
<1>5. CASE StopTakeExpires
  BY <1>5 DEF StopTakeExpires
<1>6. CASE StopDeleteSem \/ StopDeleteQueue \/ StopClearFlag
  <2>1. worker = NULL /\ worker' = NULL
    BY <1>6 DEF StopDeleteSem, StopDeleteQueue, StopClearFlag, Sound, Stages
  <2>2. InboxDown /\ InboxDown'
    BY <1>0, <2>1, SeenNext
  <2>3. UNCHANGED <<inboxPhase, inboxPending, inboxTaken, inboxRunning>>
    BY <2>2, RunningBoolean, RunningBooleanNext DEF InboxDown
  <2>. QED
    BY <2>3 DEF Inbox!vars
<1>. QED
  BY <1>1, <1>2, <1>3, <1>4, <1>5, <1>6 DEF Stop

\* One message before the others.
LEMMA PrefixTaken ==
    ASSUME NEW S, NEW h \in S, NEW q \in Seq(S)
    PROVE  <<h>> \o q # <<>> /\ Head(<<h>> \o q) = h /\ Tail(<<h>> \o q) = q
OBVIOUS

LEMMA PrefixIsHead ==
    ASSUME NEW S, NEW q \in Seq(S), q # <<>>
    PROVE  <<Head(q)>> \o Tail(q) = q
OBVIOUS

LEMMA PrefixAppended ==
    ASSUME NEW S, NEW h \in S, NEW q \in Seq(S), NEW b \in S
    PROVE  <<h>> \o Append(q, b) = Append(<<h>> \o q, b)
OBVIOUS

LEMMA EnqueueIsInbox ==
    ASSUME TypeOK, Sound, TypeOK', Sound', EnqueuePayload
    PROVE  Inbox!Next
<1> USE NullAssumption
<1>1. PICK b \in Bufs \ live : queue' = Append(queue, b)
  BY DEF EnqueuePayload
<1>2. /\ worker # NULL /\ ~stopFlag /\ Len(queue) < QueueDepth
      /\ UNCHANGED <<worker, stopFlag, wpc, held>>
  BY DEF EnqueuePayload, lifecycle, Sound, Stages
<1>3. InboxUp /\ InboxUp'
  BY <1>2, UpSeen, SeenNext
<1>4. inboxPhase = "up" /\ inboxPhase' = "up" /\ inboxTaken' = inboxTaken
      /\ (inboxRunning' <=> inboxRunning)
  BY <1>2, <1>3 DEF InboxUp
<1>5. /\ inboxPending \in Seq(Bufs \cup {NULL}) /\ Len(inboxPending) < QueueDepth + 1
      /\ b \notin Contents(inboxPending)
  <2>1. /\ inboxPending \in Seq(Bufs \cup {NULL}) /\ Len(inboxPending) <= Len(queue) + 1
        /\ Contents(inboxPending) \ {NULL} \subseteq live
    BY <1>2, <1>3, PendingShape
  <2>2. Len(inboxPending) \in Nat /\ Len(queue) \in Nat
    BY <2>1 DEF TypeOK
  <2>. QED
    BY <1>1, <1>2, <2>1, <2>2, DepthAssumption
<1>6. inboxPending' = Append(inboxPending, b)
  <2>1. CASE wpc[worker] = "got" /\ held[worker] # NULL
    <3> DEFINE h == held[worker]
    <3>1. inboxPending = <<h>> \o queue /\ inboxPending' = <<h>> \o Append(queue, b)
      BY <1>1, <1>2, <1>3, <2>1 DEF InboxUp
    <3>2. h \in Bufs \cup {NULL} /\ queue \in Seq(Bufs \cup {NULL}) /\ b \in Bufs \cup {NULL}
      BY <1>2 DEF TypeOK
    <3> HIDE DEF h
    <3>. QED
      BY <3>1, <3>2, PrefixAppended
  <2>2. CASE ~(wpc[worker] = "got" /\ held[worker] # NULL)
    BY <1>1, <1>2, <1>3, <2>2 DEF InboxUp
  <2>. QED
    BY <2>1, <2>2
<1>7. b # inboxTaken
  <2>1. inboxTaken = NULL \/ inboxTaken = held[worker]
    BY <1>3 DEF InboxUp
  <2>2. worker \in Workers
    BY <1>2 DEF TypeOK
  <2>3. held[worker] = NULL \/ held[worker] \in live
    BY <2>2 DEF Sound, OneOwner, HeldBufs
  <2>. QED
    BY <1>1, <2>1, <2>3
<1>8. Inbox!Accept
  <2>1. \A i \in DOMAIN inboxPending : inboxPending[i] # b
    BY <1>5 DEF Contents
  <2>. QED
    BY <1>1, <1>4, <1>5, <1>6, <1>7, <2>1, RunningBoolean, RunningBooleanNext
       DEF Inbox!Accept
<1>. QED
  BY <1>8 DEF Inbox!Next

LEMMA WorkerIsInbox ==
    ASSUME TypeOK, Sound, Ready, TypeOK', Sound', NEW w \in Workers, WorkerStep(w)
    PROVE  Inbox!Next \/ UNCHANGED Inbox!vars
<1> USE NullAssumption DEF lifecycle, heap, Dead
<1>1. wpc[w] # Dead /\ w = worker /\ worker # NULL /\ worker' = worker /\ stopFlag' = stopFlag
  BY DEF WorkerStep, WorkerTopStops, WorkerEntersReceive, WorkerReceives,
     WorkerGotStops, WorkerGotGoesOn, WorkerCalls, WorkerFrees, Sound, WorkerLives
<1>2. InboxUp /\ InboxUp'
  BY <1>1, UpSeen, SeenNext
<1>3. inboxPhase' = inboxPhase
  BY <1>1, <1>2 DEF InboxUp
<1>4. CASE WorkerTopStops(w) \/ WorkerEntersReceive(w)
  <2>1. /\ wpc[worker] = "top" /\ wpc'[worker'] \in {Dead, "recv"} /\ queue' = queue
    BY <1>1, <1>4 DEF WorkerTopStops, WorkerEntersReceive, GiveAndDie, TypeOK
  <2>2. /\ inboxPending' = inboxPending /\ inboxTaken' = inboxTaken
        /\ ~inboxRunning /\ ~inboxRunning'
    BY <1>1, <1>2, <2>1 DEF InboxUp
  <2>. QED
    BY <1>3, <2>2, RunningBoolean, RunningBooleanNext DEF Inbox!vars
<1>5. CASE WorkerReceives(w)
  <2>1. /\ wpc[worker] = "recv" /\ wpc'[worker'] = "got" /\ queue # <<>>
        /\ held'[worker'] = Head(queue) /\ queue' = Tail(queue)
    BY <1>1, <1>5 DEF WorkerReceives, TypeOK
  <2>2. inboxTaken' = inboxTaken /\ ~inboxRunning /\ ~inboxRunning'
    BY <1>2, <2>1 DEF InboxUp
  <2>3. inboxPending' = inboxPending
    <3>1. CASE stopFlag
      BY <1>1, <1>2, <3>1 DEF InboxUp
    <3>2. CASE ~stopFlag
      <4>1. queue \in Seq(Bufs \cup {NULL}) /\ Head(queue) \in Contents(queue)
        BY <2>1, ReceiveContents DEF TypeOK
      <4>2. Head(queue) # NULL
        BY <1>1, <3>2, <4>1 DEF Ready
      <4>3. inboxPending = queue /\ inboxPending' = <<Head(queue)>> \o Tail(queue)
        BY <1>1, <1>2, <2>1, <3>2, <4>2 DEF InboxUp
      <4>. QED
        BY <2>1, <4>1, <4>3, PrefixIsHead
    <3>. QED
      BY <3>1, <3>2
  <2>. QED
    BY <1>3, <2>2, <2>3, RunningBoolean, RunningBooleanNext DEF Inbox!vars
<1>6. CASE WorkerGotStops(w)
  <2>1. stopFlag /\ wpc[worker] = "got" /\ wpc'[worker'] = Dead
    BY <1>1, <1>6 DEF WorkerGotStops, GiveAndDie, TypeOK
  <2>2. /\ inboxPending' = inboxPending /\ inboxTaken' = inboxTaken
        /\ ~inboxRunning /\ ~inboxRunning'
    BY <1>1, <1>2, <2>1 DEF InboxUp
  <2>. QED
    BY <1>3, <2>2, RunningBoolean, RunningBooleanNext DEF Inbox!vars
<1>7. CASE WorkerGotGoesOn(w)
  <2>1. /\ ~stopFlag /\ wpc[worker] = "got" /\ UNCHANGED <<held, queue>>
        /\ wpc'[worker'] = IF held[worker] = NULL THEN "top" ELSE "dispatch"
    BY <1>1, <1>7 DEF WorkerGotGoesOn, TypeOK
  <2>2. ~inboxRunning /\ ~inboxRunning' /\ inboxPending' = queue /\ inboxTaken = NULL
    BY <1>1, <1>2, <2>1 DEF InboxUp
  <2>3. CASE held[worker] = NULL
    <3>1. inboxPending = queue /\ inboxTaken' = NULL
      BY <1>1, <1>2, <2>1, <2>3 DEF InboxUp
    <3>. QED
      BY <1>3, <2>2, <3>1, RunningBoolean, RunningBooleanNext DEF Inbox!vars
  <2>4. CASE held[worker] # NULL
    <3> DEFINE h == held[worker]
    <3>1. inboxPhase = "up" /\ inboxPending = <<h>> \o queue /\ inboxTaken' = h
      BY <1>1, <1>2, <2>1, <2>4 DEF InboxUp
    <3>2. h \in Bufs \cup {NULL} /\ queue \in Seq(Bufs \cup {NULL})
      BY <1>1 DEF TypeOK
    <3> HIDE DEF h
    <3>3. /\ <<h>> \o queue # <<>> /\ Head(<<h>> \o queue) = h
          /\ Tail(<<h>> \o queue) = queue
      BY <3>2, PrefixTaken
    <3>4. Inbox!Take
      BY <1>3, <2>2, <3>1, <3>3, RunningBoolean, RunningBooleanNext DEF Inbox!Take
    <3>. QED
      BY <3>4 DEF Inbox!Next
  <2>. QED
    BY <2>3, <2>4
<1>8. CASE WorkerCalls(w)
  <2>1. wpc[worker] = "dispatch" /\ wpc'[worker'] = "call" /\ UNCHANGED <<held, queue>>
    BY <1>1, <1>8 DEF WorkerCalls, TypeOK
  <2>2. held[worker] # NULL
    BY <1>1, <2>1 DEF Ready
  <2>3. /\ inboxPending' = inboxPending /\ inboxTaken' = inboxTaken /\ inboxTaken # NULL
        /\ ~inboxRunning /\ inboxRunning'
    BY <1>1, <1>2, <2>1, <2>2 DEF InboxUp
  <2>4. Inbox!Call
    BY <1>3, <2>3, RunningBooleanNext DEF Inbox!Call
  <2>. QED
    BY <2>4 DEF Inbox!Next
<1>9. CASE WorkerFrees(w)
  <2>1. wpc[worker] \in {"dispatch", "call"} /\ wpc'[worker'] = "top" /\ queue' = queue
    BY <1>1, <1>9 DEF WorkerFrees, TypeOK
  <2>2. held[worker] # NULL
    BY <1>1, <2>1 DEF Ready
  <2>3. /\ inboxPending' = inboxPending /\ inboxTaken # NULL /\ inboxTaken' = NULL
        /\ ~inboxRunning'
    BY <1>1, <1>2, <2>1, <2>2 DEF InboxUp
  <2>4. Inbox!Finish
    BY <1>3, <2>3, RunningBooleanNext DEF Inbox!Finish
  <2>. QED
    BY <2>4 DEF Inbox!Next
<1>. QED
  BY <1>4, <1>5, <1>6, <1>7, <1>8, <1>9 DEF WorkerStep

LEMMA ExpiryStays == [Next]_vars /\ ~expired' => ~expired
BY DEF vars, lifecycle, Next, WsInit, WsInitFails, WsStart, StopEnter, Stop,
   StopDestroyClient, StopSetFlag, StopSendSentinel, StopTakeDone, StopTakeExpires,
   StopDeleteSem, StopDeleteQueue, StopClearFlag, EnqueuePayload, QueueFull, Faulted,
   WorkerStep, WorkerTopStops, WorkerEntersReceive, WorkerReceives, WorkerGotStops,
   WorkerGotGoesOn, WorkerCalls, WorkerFrees

\* The reachable states, as the refinement needs them.
ReadyInv == IInv /\ (~expired => Ready)

LEMMA ReadyInvariance == Spec => []ReadyInv
<1>1. Init => (~expired => Ready)
  BY InitReady
<1>2. IInv /\ (~expired => Ready) /\ [Next]_vars => (~expired => Ready)'
  BY ReadyStep, ExpiryStays DEF IInv
<1>. QED
  BY <1>1, <1>2, Invariance, PTL DEF Spec, ReadyInv

LEMMA InboxStep ==
    ReadyInv /\ IInv' /\ [Next]_vars => [Inbox!Next \/ expired']_(Inbox!vars)
<1>1. SUFFICES ASSUME ReadyInv, IInv', [Next]_vars, ~expired'
               PROVE  Inbox!Next \/ UNCHANGED Inbox!vars
  OBVIOUS
<1>2. /\ TypeOK /\ Sound /\ Ready /\ ~expired
      /\ TypeOK' /\ Sound'
  BY <1>1, ExpiryStays DEF ReadyInv, IInv
<1>3. CASE UNCHANGED vars
  <2>1. UNCHANGED <<inboxPhase, inboxPending, inboxTaken, inboxRunning>>
    BY <1>3 DEF vars, inboxPhase, inboxPending, inboxTaken, inboxRunning, Checking, Busy
  <2>. QED
    BY <2>1 DEF Inbox!vars
<1>4. CASE WsInit \/ WsInitFails \/ WsStart \/ StopEnter
  BY <1>2, <1>4, LifecycleIsInbox
<1>5. CASE Stop
  BY <1>1, <1>2, <1>5, StopIsInbox
<1>6. CASE EnqueuePayload
  BY <1>2, <1>6, EnqueueIsInbox
<1>7. ASSUME NEW w \in Workers, WorkerStep(w)
      PROVE  Inbox!Next \/ UNCHANGED Inbox!vars
  BY <1>2, <1>7, WorkerIsInbox
<1>. QED
  BY <1>1, <1>3, <1>4, <1>5, <1>6, <1>7 DEF Next, QueueFull, Faulted

LEMMA InitIsInbox == Init => Inbox!Init
<1>1. SUFFICES ASSUME Init PROVE Inbox!Init
  OBVIOUS
<1>2. worker = NULL
  BY <1>1 DEF Init
<1>3. InboxDown
  BY <1>2, DownSeen
<1>. QED
  BY <1>3, RunningBoolean DEF InboxDown, Inbox!Init

\* newt_ws.c keeps the promise of WsInbox at every step until a take of
\* newt_ws_stop has given up: the payloads enqueued while the worker runs reach
\* on_msg in their order, one at a time and at most once, none after the stop
\* flag, and newt_ws_stop returns to a worker that has none in its hands
\* (newt_ws.c:88-153, 286-337).  Only the expiry of the 2000 ms take ends it.
THEOREM InboxUnlessExpired ==
    Spec => Inbox!Init /\ [][Inbox!Next \/ expired']_(Inbox!vars)
BY InitIsInbox, InboxStep, ReadyInvariance, Invariance, PTL DEF Spec

\* With no take that expires, the whole safety part of WsInbox holds of
\* newt_ws.c: on_msg's 2000 ms are the only thing it depends on.
THEOREM InboxRefined ==
    ASSUME TakeMayExpire = FALSE
    PROVE  Spec => Inbox!Init /\ [][Inbox!Next]_(Inbox!vars)
<1>1. Init => ~expired
  BY DEF Init
<1>2. ~expired /\ [Next]_vars => ~expired'
  BY DEF vars, lifecycle, Next, WsInit, WsInitFails, WsStart, StopEnter, Stop,
     StopDestroyClient, StopSetFlag, StopSendSentinel, StopTakeDone, StopTakeExpires,
     StopDeleteSem, StopDeleteQueue, StopClearFlag, EnqueuePayload, QueueFull, Faulted,
     WorkerStep, WorkerTopStops, WorkerEntersReceive, WorkerReceives, WorkerGotStops,
     WorkerGotGoesOn, WorkerCalls, WorkerFrees
<1>3. [Inbox!Next \/ expired']_(Inbox!vars) /\ ~expired' => [Inbox!Next]_(Inbox!vars)
  OBVIOUS
<1>. QED
  BY <1>1, <1>2, <1>3, InboxUnlessExpired, PTL DEF Spec
=============================================================================
