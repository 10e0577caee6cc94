-------------------------------- MODULE NewtWs --------------------------------
(***************************************************************************)
(* The WebSocket receive path of src/src/newt_ws.c: the client task that   *)
(* enqueues text payloads, the worker task that hands them to on_msg, and  *)
(* the init / start / stop calls that create and tear both down through a  *)
(* stop flag, a NULL sentinel and a "done" semaphore.                      *)
(*                                                                         *)
(* Abstractions: a payload is the heap block that holds it; parsing either *)
(* succeeds or drops the message; the lifecycle calls are made by one task *)
(* at a time.  A use of a deleted queue or semaphore, a second free of a   *)
(* block, and a NULL handle given to FreeRTOS all set `fault', after which *)
(* nothing more is said about the program.                                 *)
(***************************************************************************)
EXTENDS Integers, Sequences, FiniteSets

CONSTANTS
    Workers,        \* identities xTaskCreate may give to a worker task
    Bufs,           \* heap blocks enqueue_payload may get from malloc
    NULL,           \* the C NULL: no task, no block, the sentinel
    QueueDepth,     \* WS_QUEUE_DEPTH
    TakeMayExpire   \* may on_msg outlast the 2000 ms take in newt_ws_stop?

ASSUME NullAssumption == NULL \notin Workers \cup Bufs
ASSUME DepthAssumption == QueueDepth \in Nat \ {0}
ASSUME ExpireAssumption == TakeMayExpire \in BOOLEAN

VARIABLES
    client,     \* s_client: "null", "created", or "started" (its task runs)
    queueUp,    \* s_queue is a queue (FALSE: NULL)
    queue,      \* contents of s_queue
    doneSem,    \* s_worker_done: "null", "empty" or "given"
    stopFlag,   \* s_worker_stop_requested
    worker,     \* s_worker
    live,       \* heap blocks allocated and not yet freed
    wpc,        \* where each worker task is
    held,       \* msg.buf of each worker task
    apc,        \* where the task inside newt_ws_stop is ("idle": in no call)
    expired,    \* history: some take in newt_ws_stop gave up
    fault       \* undefined behaviour or a failed assertion was reached

vars == <<client, queueUp, queue, doneSem, stopFlag, worker, live, wpc, held,
          apc, expired, fault>>

lifecycle == <<client, worker, apc, expired>>
heap == <<live, held>>

Dead == "dead"
WorkerPCs == {Dead, "top", "recv", "got", "dispatch", "call"}
ApiPCs == {"idle", "destroy", "flag", "sentinel", "take", "semdel", "drain",
           "unflag"}

QueuedBufs == {queue[i] : i \in DOMAIN queue} \ {NULL}
HeldBufs == {held[w] : w \in Workers} \ {NULL}
Alive == {w \in Workers : wpc[w] # Dead}

TypeOK ==
    /\ client \in {"null", "created", "started"}
    /\ queueUp \in BOOLEAN
    /\ queue \in Seq(Bufs \cup {NULL})
    /\ Len(queue) <= QueueDepth
    /\ doneSem \in {"null", "empty", "given"}
    /\ stopFlag \in BOOLEAN
    /\ worker \in Workers \cup {NULL}
    /\ live \subseteq Bufs
    /\ wpc \in [Workers -> WorkerPCs]
    /\ held \in [Workers -> Bufs \cup {NULL}]
    /\ apc \in ApiPCs
    /\ expired \in BOOLEAN
    /\ fault \in BOOLEAN

Init ==
    /\ client = "null"
    /\ queueUp = FALSE
    /\ queue = <<>>
    /\ doneSem = "null"
    /\ stopFlag = FALSE
    /\ worker = NULL
    /\ live = {}
    /\ wpc = [w \in Workers |-> Dead]
    /\ held = [w \in Workers |-> NULL]
    /\ apc = "idle"
    /\ expired = FALSE
    /\ fault = FALSE

-----------------------------------------------------------------------------
(* The lifecycle calls.                                                    *)

\* newt_ws_init up to the creation of the worker.  When any allocation or
\* creation fails, the `fail' label undoes what was made, so the call leaves
\* the state as it found it: WsInitFails.
WsInit ==
    /\ apc = "idle"
    /\ client = "null"
    /\ client' = "created"
    /\ queueUp' = TRUE
    /\ queue' = <<>>
    /\ doneSem' = "empty"
    /\ stopFlag' = FALSE
    /\ \E w \in Workers \ Alive :
          /\ worker' = w
          /\ wpc' = [wpc EXCEPT ![w] = "top"]
    /\ UNCHANGED <<live, held, apc, expired, fault>>

WsInitFails ==
    /\ apc = "idle"
    /\ client = "null"
    /\ stopFlag' = FALSE
    /\ UNCHANGED <<client, queueUp, queue, doneSem, worker, live, wpc, held,
                   apc, expired, fault>>

\* newt_ws_start: from here the client task delivers events.
WsStart ==
    /\ apc = "idle"
    /\ client # "null"
    /\ client' = "started"
    /\ UNCHANGED <<queueUp, queue, doneSem, stopFlag, worker, live, wpc, held,
                   apc, expired, fault>>

\* newt_ws_stop, one action per step the worker can observe.
StopEnter ==
    /\ apc = "idle"
    /\ client # "null"
    /\ apc' = "destroy"
    /\ UNCHANGED <<client, queueUp, queue, doneSem, stopFlag, worker, live,
                   wpc, held, expired, fault>>

\* esp_websocket_client_destroy joins the client task: no event handler runs
\* once it has returned.
StopDestroyClient ==
    /\ apc = "destroy"
    /\ client' = "null"
    /\ apc' = IF worker # NULL THEN "flag" ELSE "semdel"
    /\ UNCHANGED <<queueUp, queue, doneSem, stopFlag, worker, live, wpc, held,
                   expired, fault>>

StopSetFlag ==
    /\ apc = "flag"
    /\ stopFlag' = TRUE
    /\ apc' = "sentinel"
    /\ UNCHANGED <<client, queueUp, queue, doneSem, worker, live, wpc, held,
                   expired, fault>>

\* Faulty variants: the sentinel is sent to a full queue, or forgotten.
StopSendsUnbounded ==
    /\ apc = "sentinel"
    /\ queue' = Append(queue, NULL)
    /\ apc' = "take"
    /\ UNCHANGED <<client, queueUp, doneSem, stopFlag, worker, live, wpc, held,
                   expired, fault>>

StopSendsNothing ==
    /\ apc = "sentinel"
    /\ apc' = "take"
    /\ UNCHANGED <<client, queueUp, queue, doneSem, stopFlag, worker, live,
                   wpc, held, expired, fault>>

\* xQueueSend(s_queue, &sentinel, 0), its result ignored: a full queue loses
\* the sentinel.
StopSendSentinel ==
    /\ apc = "sentinel"
    /\ queue' = IF Len(queue) < QueueDepth THEN Append(queue, NULL) ELSE queue
    /\ apc' = "take"
    /\ UNCHANGED <<client, queueUp, doneSem, stopFlag, worker, live, wpc, held,
                   expired, fault>>

\* Faulty variant: the semaphore is not waited for.
StopTakeNoWait ==
    /\ apc = "take"
    /\ worker' = NULL
    /\ apc' = "drain"
    /\ UNCHANGED <<client, queueUp, queue, doneSem, stopFlag, live, wpc, held,
                   expired, fault>>

StopTakeDone ==
    /\ apc = "take"
    /\ doneSem = "given"
    /\ doneSem' = "empty"
    /\ worker' = NULL
    /\ apc' = "semdel"
    /\ UNCHANGED <<client, queueUp, queue, stopFlag, live, wpc, held, expired,
                   fault>>

\* The take gives up after 2000 ms and newt_ws_stop goes on regardless.
StopTakeExpires ==
    /\ TakeMayExpire
    /\ apc = "take"
    /\ doneSem = "empty"
    /\ expired' = TRUE
    /\ worker' = NULL
    /\ apc' = "semdel"
    /\ UNCHANGED <<client, queueUp, queue, doneSem, stopFlag, live, wpc, held,
                   fault>>

StopDeleteSem ==
    /\ apc = "semdel"
    /\ doneSem' = "null"
    /\ apc' = "drain"
    /\ UNCHANGED <<client, queueUp, queue, stopFlag, worker, live, wpc, held,
                   expired, fault>>

\* Frees every block still queued, then deletes the queue; a task still
\* blocked in xQueueReceive on it is left on a freed list.
StopDeleteQueue ==
    /\ apc = "drain"
    /\ live' = live \ QueuedBufs
    /\ fault' = (\/ \E w \in Workers : wpc[w] = "recv"
                 \/ ~(QueuedBufs \subseteq live))
    /\ queue' = <<>>
    /\ queueUp' = FALSE
    /\ apc' = "unflag"
    /\ UNCHANGED <<client, doneSem, stopFlag, worker, wpc, held, expired>>

StopClearFlag ==
    /\ apc = "unflag"
    /\ stopFlag' = FALSE
    /\ apc' = "idle"
    /\ UNCHANGED <<client, queueUp, queue, doneSem, worker, live, wpc, held,
                   expired, fault>>

Stop ==
    \/ StopDestroyClient
    \/ StopSetFlag
    \/ StopSendSentinel
    \/ StopTakeDone
    \/ StopTakeExpires
    \/ StopDeleteSem
    \/ StopDeleteQueue
    \/ StopClearFlag

-----------------------------------------------------------------------------
(* The client task and the worker task.                                    *)

\* enqueue_payload: a copy of the payload is queued, or freed again when the
\* queue is full (QueueFull), or never made when malloc fails (no step).
EnqueuePayload ==
    /\ client = "started"
    /\ Len(queue) < QueueDepth
    /\ \E b \in Bufs \ live :
          /\ live' = live \cup {b}
          /\ queue' = Append(queue, b)
    /\ UNCHANGED <<lifecycle, queueUp, doneSem, stopFlag, wpc, held, fault>>

\* Faulty variant: the copy that did not fit is not freed.
QueueFullLeaks ==
    /\ client = "started"
    /\ Len(queue) = QueueDepth
    /\ \E b \in Bufs \ live : live' = live \cup {b}
    /\ UNCHANGED <<lifecycle, queueUp, queue, doneSem, stopFlag, wpc, held,
                   fault>>

QueueFull ==
    /\ client = "started"
    /\ Len(queue) = QueueDepth
    /\ UNCHANGED vars

\* Faulty variant: the worker goes on after its give.
GiveAndGoOn(w) ==
    /\ wpc' = [wpc EXCEPT ![w] = "top"]
    /\ doneSem' = IF doneSem = "null" THEN "null" ELSE "given"

\* xSemaphoreGive(s_worker_done); vTaskDelete(NULL)
GiveAndDie(w) ==
    /\ wpc' = [wpc EXCEPT ![w] = Dead]
    /\ doneSem' = IF doneSem = "null" THEN "null" ELSE "given"

WorkerTopStops(w) ==
    /\ wpc[w] = "top"
    /\ stopFlag
    /\ GiveAndDie(w)
    /\ fault' = (doneSem = "null")
    /\ UNCHANGED <<lifecycle, heap, queueUp, queue, stopFlag>>

WorkerEntersReceive(w) ==
    /\ wpc[w] = "top"
    /\ ~stopFlag
    /\ wpc' = [wpc EXCEPT ![w] = "recv"]
    /\ fault' = ~queueUp
    /\ UNCHANGED <<lifecycle, heap, queueUp, queue, doneSem, stopFlag>>

WorkerReceives(w) ==
    /\ wpc[w] = "recv"
    /\ queue # <<>>
    /\ held' = [held EXCEPT ![w] = Head(queue)]
    /\ queue' = Tail(queue)
    /\ wpc' = [wpc EXCEPT ![w] = "got"]
    /\ UNCHANGED <<lifecycle, queueUp, doneSem, stopFlag, live, fault>>

\* free(msg.buf); a sentinel holds no block.
FreeHeld(w) ==
    /\ live' = live \ {held[w]}
    /\ held' = [held EXCEPT ![w] = NULL]

FreeFaults(w) == held[w] # NULL /\ held[w] \notin live

WorkerGotStops(w) ==
    /\ wpc[w] = "got"
    /\ stopFlag
    /\ FreeHeld(w)
    /\ GiveAndDie(w)
    /\ fault' = (doneSem = "null" \/ FreeFaults(w))
    /\ UNCHANGED <<lifecycle, queueUp, queue, stopFlag>>

\* Faulty variant: the flag is not read again after the receive.
WorkerGotNoCheck(w) ==
    /\ wpc[w] = "got"
    /\ wpc' = [wpc EXCEPT ![w] = IF held[w] = NULL THEN "top" ELSE "dispatch"]
    /\ UNCHANGED <<lifecycle, heap, queueUp, queue, doneSem, stopFlag, fault>>

WorkerGotGoesOn(w) ==
    /\ wpc[w] = "got"
    /\ ~stopFlag
    /\ wpc' = [wpc EXCEPT ![w] = IF held[w] = NULL THEN "top" ELSE "dispatch"]
    /\ UNCHANGED <<lifecycle, heap, queueUp, queue, doneSem, stopFlag, fault>>

\* The payload parses and has a type: on_msg is called.
WorkerCalls(w) ==
    /\ wpc[w] = "dispatch"
    /\ wpc' = [wpc EXCEPT ![w] = "call"]
    /\ UNCHANGED <<lifecycle, heap, queueUp, queue, doneSem, stopFlag, fault>>

\* on_msg returns, or the payload did not parse: the block is freed.
WorkerFrees(w) ==
    /\ wpc[w] \in {"dispatch", "call"}
    /\ FreeHeld(w)
    /\ fault' = FreeFaults(w)
    /\ wpc' = [wpc EXCEPT ![w] = "top"]
    /\ UNCHANGED <<lifecycle, queueUp, queue, doneSem, stopFlag>>

WorkerStep(w) ==
    \/ WorkerTopStops(w)
    \/ WorkerEntersReceive(w)
    \/ WorkerReceives(w)
    \/ WorkerGotStops(w)
    \/ WorkerGotGoesOn(w)
    \/ WorkerCalls(w)
    \/ WorkerFrees(w)

Faulted == fault /\ UNCHANGED vars

Next ==
    \/ /\ ~fault
       /\ \/ WsInit
          \/ WsInitFails
          \/ WsStart
          \/ StopEnter
          \/ Stop
          \/ EnqueuePayload
          \/ QueueFull
          \/ \E w \in Workers : WorkerStep(w)
    \/ Faulted

\* FreeRTOS runs every ready task, so a call of newt_ws_stop and each worker
\* keep taking steps (on_msg returns).  Nothing forces the application to call
\* stop, or the server to send.
Fairness ==
    /\ WF_vars(~fault /\ Stop)
    /\ \A w \in Workers : WF_vars(~fault /\ WorkerStep(w))

Spec == Init /\ [][Next]_vars /\ Fairness

-----------------------------------------------------------------------------
(* Properties.                                                             *)

\* No task touches a deleted queue or semaphore, is deleted-under while
\* blocked, or frees a block twice, as long as every take in newt_ws_stop got
\* its token: the 2000 ms limit, whose result the code ignores
\* (newt_ws.c:318), is the only way into undefined behaviour.
FaultOnlyAfterExpiry == fault => expired

\* The sentinel of newt_ws_stop may be lost on a full queue (newt_ws.c:315):
\* that never strands the worker, since a worker blocked in xQueueReceive
\* while stop waits for its token always has something to receive.  (A worker
\* left over from an expired stop could steal that something.)
StopNeverStrandsWorker ==
    ~expired /\ apc = "take" =>
        \A w \in Workers : wpc[w] = "recv" => queue # <<>>

\* Every allocated payload is in the queue once or in the hands of one worker;
\* none is lost when a full queue, the shutdown of the worker or the drain of
\* the queue cuts its way short (newt_ws.c:101-105, 144-147, 328-330).
EveryBlockOwnedOnce ==
    ~expired =>
        /\ live = QueuedBufs \cup HeldBufs
        /\ \A i, j \in DOMAIN queue :
              queue[i] = queue[j] /\ queue[i] # NULL => i = j
        /\ QueuedBufs \cap HeldBufs = {}

\* When newt_ws_stop has returned, the worker it asked to stop is gone with
\* everything it held, so a later newt_ws_init starts from nothing and there
\* are never two workers on one queue.
StopJoinsWorker ==
    ~expired =>
        /\ Alive \subseteq {worker}
        /\ apc = "idle" /\ client = "null" =>
              Alive = {} /\ live = {} /\ ~queueUp /\ doneSem = "null"

\* newt_ws_stop returns: neither a lost sentinel nor a worker that was on its
\* way into the queue leaves it waiting for a token nobody gives.  (Checked
\* with TakeMayExpire = FALSE: no help from the timeout is needed.)
StopReturns == apc = "take" ~> apc = "idle"

\* newt_ws.c keeps the promise of WsInbox.  A message the worker has received
\* and not yet checked the stop flag for still counts as pending.
Busy == {w \in Workers : wpc[w] \in {"dispatch", "call"}}
Checking == {w \in Workers : wpc[w] = "got" /\ held[w] # NULL}
inboxPhase ==
    IF worker = NULL THEN "down" ELSE IF stopFlag THEN "closing" ELSE "up"
inboxPending ==
    IF inboxPhase # "up" THEN <<>>
    ELSE IF Checking = {} THEN queue
    ELSE <<held[worker]>> \o queue
inboxTaken ==
    IF worker # NULL /\ worker \in Busy THEN held[worker] ELSE NULL
inboxRunning == worker # NULL /\ worker \in Workers /\ wpc[worker] = "call"

Inbox == INSTANCE WsInbox WITH
    Msgs <- Bufs, Capacity <- QueueDepth + 1, phase <- inboxPhase,
    pending <- inboxPending, taken <- inboxTaken, running <- inboxRunning

ImplementsInbox == Inbox!Spec
=============================================================================
