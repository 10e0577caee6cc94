# A TLA+ model of newt-esp32

newt-esp32 is a client for the Pangolin tunnel server on the ESP32. It logs in
over HTTPS, keeps a WebSocket open for control messages, and sets up one
WireGuard tunnel from what the server sends. The code is six C files under
`src/` of the repository, plus a bundled WireGuard below
`examples/basic/components/esp_wireguard`. Everything interesting happens
between FreeRTOS tasks that share static variables, a queue, two binary
semaphores and an event group, without locks. This directory models those
tasks and the WireGuard below them, checks them with TLC, and proves with TLAPS
every invariant that is checked, for all values of the constants.

Paths below are relative to the repository (`src/newt.c` is the repository's
`src/newt.c`; in `PROJECT.json` it is `src/src/newt.c`).

## The system

| Component | Code | State | Operations |
|---|---|---|---|
| WebSocket worker and lifecycle | `newt_ws.c` | client, queue of 8 heap blocks, worker task, done semaphore, stop flag | init, start, stop; the client task enqueues; the worker dispatches |
| Frame reception, backoff | `newt_ws.c` | assembly buffer, attempt counter | one handler for the client's events |
| Tunnel control | `newt_wg.c` | `s_state`, poll task, its semaphore and flag | init, start, stop; the poll task |
| Glue to WireGuard | `esp_wireguard.c` | the context with netif and default route, the endpoint's address, the peer index | init, connect, disconnect, add an allowed address, set and restore the default; the resolver's callback |
| Supervisor and reconnection | `newt.c` | event group, supervisor and ping task handles, configuration | newt_init, newt_start, newt_stop; four callbacks; three kinds of tasks |
| Message protocol | `newt_proto.c` | two chain ids in flight, configVersion, exit node | two requests; one handler for every message |
| Authentication | `newt_auth.c` | a response buffer per request | get token, register |
| ICMP ping | `newt_ping.c` | one session handle | init, start, stop |
| WireGuard interface | `wireguardif.c` | device, pcb and timer; the peer, its time stamps and wishes, the link flag | init, shutdown, fini; add and remove a peer; send, receive, timer every 400 ms, connect, disconnect |
| WireGuard protocol | `wireguard.c` | keypairs in three slots, handshake, replay window | create and process handshakes, rotate keypairs, check replays |

What makes each right, beyond its types: the WebSocket worker uses no deleted
handle, leaks no block and is joined by stop; frames are delivered whole or not
at all; the tunnel is taken down exactly when it was up, and `NEWT_WG_UP` means
that there is one; it leads to the server configured last, with all its fields from
one message, and leaves no pcb, timer or route behind; the supervisor settles,
`BIT_STOP` ends every task and `newt_stop` leaves nothing but what a task it
does not wait for sets up behind it; a reply consumes only the request it answers; a response is parsed whole or not at all;
no nonce is used twice, no packet is delivered twice, and a device never goes
back to an older session.

How they meet: the application calls `newt_start` and `newt_stop`. The
supervisor authenticates, opens the WebSocket, sends a ping request and a
registration, waits for `BIT_WG_CONFIGURED` and configures the tunnel. The
WebSocket client task puts payloads on the queue; the worker takes them off and
calls `newt_proto_handle_message`, whose callbacks set event bits
(`newt/wg/connect`, `newt/wg/terminate`) or spawn a reconnect task
(`newt/wg/reconnect`). A reconnect task repeats the way from the ping request
on, on a tunnel it takes down first. A poll task per `newt_wg_start` watches for
the handshake and reports it through `s_state`. Calls into WireGuard run on the
lwIP thread while the caller waits.

What is hard here: newt_wg_stop and newt_ws_stop give up on their semaphores
after a fixed time and go on; reconnect tasks are neither counted nor joined;
stop flags are read before blocking; a queue can be full at the worst moment;
the chain ids and the configuration are written in place while other tasks read
them; DNS answers arrive whenever they like; `newt_init` may come again while
tasks wait on the event group it replaces; a call to the lwIP thread may fail for
memory.
In WireGuard, which runs on one thread, it is the network: datagrams of former
handshakes and sessions arrive late and more than once, while keypairs are copied
from slot to slot and time runs out on them.
`PROJECT.json` lists each hazard at its line under `hazards`, with the properties
that would catch it, or why none does yet.

## The modules

| Module | Models | Notes |
|---|---|---|
| `WsInbox` | what the receive path promises: a bounded inbox in arrival order | abstract specification |
| `NewtWs` | worker, client task, init/start/stop of `newt_ws.c` | implements `WsInbox` |
| `NewtWsProofs` | proofs of the invariants of `NewtWs`, and of the safety part of `WsInbox` | |
| `NewtWsRx` | frame reassembly and backoff of `newt_ws.c` | |
| `NewtWsRxProofs` | proofs of the properties of `NewtWsRx` | |
| `NewtWg` | the steps of `newt_wg.c` and of `esp_wireguard.c` below it, as operators over the calling task | used by the next two |
| `WgLegal` | one caller that keeps the discipline `newt_wg_*` take for granted | |
| `EspWireguard` | the same with the device, its peer, the resolver and the default route of `esp_wireguard.c` and `wireguardif.c` below | implements `WgLegal` |
| `EspWireguardProofs` | proofs of the properties of `WgLegal`, that refinement, and proofs of the properties of `EspWireguard` | |
| `Newt` | supervisor, reconnect tasks, ping task, callbacks and application of `newt.c`, over `NewtWg` | composes the system |
| `NewtProofs` | proofs of the invariants of `Newt` | |
| `NewtProto` | chain ids, versions and exit node of `newt_proto.c` | |
| `NewtConfig` | `cb_wg_connect` writing `s_wg_cfg`, and the tasks that wait for it and read it | composed over `NewtProto` |
| `NewtConfigProofs` | proofs of the invariants of `NewtProto` and `NewtConfig`, and that the second implements the first | |
| `NewtAuth` | one HTTP request of `newt_auth.c` | |
| `NewtAuthProofs` | proofs of the invariants of `NewtAuth` | |
| `WgReplay` | `wireguard_check_replay` as operators on a window | used by the next ones |
| `ReplayWindow` | the window of one keypair against the set of all packets it let through | |
| `ReplayWindowProofs` | proofs of the invariants of `ReplayWindow` | |
| `WgSession` | two devices running `wireguardif.c` and `wireguard.c`, each the other's peer, over an unreliable network | uses `WgReplay` |
| `WgSessionProofs` | proofs of the invariants of `WgSession`, and of its action property | |
| `MC...` | instances for TLC | |

`PROJECT.json` maps every definition to the lines it stands for. Definitions
marked "Faulty variant" are not used by any specification: each is a plausible
bug in the definition below it, and shows that a property can fail.

### NewtWs

One action per step that the worker or `newt_ws_stop` can observe. `apc` is the
place of the task inside `newt_ws_stop` (client destroyed, flag set, sentinel
sent, token taken or given up on, semaphore deleted, queue drained and deleted,
flag cleared), `wpc[w]` that of a worker (loop top, blocked in `xQueueReceive`,
message in hand, dispatching, inside `on_msg`). A payload is its heap block, so
leaks and double frees show as facts about `live`, `queue` and `held`. Using a
deleted queue or a NULL semaphore sets `fault`, after which nothing moves. The
two-second take may expire at any time when `TakeMayExpire` is TRUE, since
nothing bounds `on_msg`; `expired` remembers that it did. Lifecycle calls are
made by one task at a time.

### NewtWg, WgLegal, EspWireguard, Newt

`NewtWg` has no specification of its own: `newt_wg_stop` is called from
reconnect tasks and from `newt_stop` at once, so its steps take the calling task
and the labels to go on to. `added` is lwIP's own list, `ctxNetif` the context's
pointer to the same interface; they differ after `esp_wireguard_init` forgot the
pointer. `fault` names how the program left defined behaviour: `"netif"` for
`LWIP_ASSERT("netif != NULL")`, `"readd"` for lwIP's assertion on adding an
interface twice, `"sem"` for a semaphore that is NULL or deleted under a waiter.

`WgLegal` has one caller that starts only what it initialised and stops only
what it connected, which is what the functions assume and do not check. There
everything holds until a take expires or a disconnect could not be called for
want of memory (`CallMayFail`); both set `expired`, since `newt_wg_stop` goes on
in either case and looks at neither result. A call of `newt_wg_start` or
`newt_wg_init` that cannot be made is one of the failures they have anyway.

`EspWireguard` is `WgLegal` with what lies below, action for action: `DeviceInit`
is `wireguardif_init` with `pcbs`, `timer` and `device`, `InitExits` its early exits
with what each has taken and frees, `AddPeer` is
`wireguardif_add_peer` and `AddIp` its slots for source addresses, `Resolves` the
resolver's answers inside `esp_wireguard_connect`. `Answer` is the resolver's
callback, which runs at any time and writes into the configuration there is by
then; `asked` holds the names still to be answered, those of former
configurations included. `LinkChanges` is esp_netif's choice of the default
interface; `SetDefault` and `RestoreDefault` are there for the application,
newt_wg.c does not call them.

`Newt` has the callers of `newt.c`, which
keep less of that discipline; its properties say how much follows anyway. The
ghost `overlap` records that two tasks were inside a tunnel section at once, from
`newt_wg_stop` of a reconnect task to the end of its `newt_wg_start`, or in the
corresponding parts of the supervisor and of `newt_stop`.

A call marshalled to the lwIP thread is one step. The store of `s_state` after
it is a step of its own where another task can tell (`StopReportsDown`,
`PollerReportsUp`).

In `Newt`, `newt_ws_init` is a single step and `newt_ws_stop` two (`NewtWs` opens
them), with a drain between them in which `s_client` is NULL already and the
queue is not yet deleted. `newt_ping_stop` deletes its session in one step and
forgets it in the next, and `newt_ping_start` loads the handle in one step
(`toStart`) and starts what it names in the next; `ping` tells a session made after
`newt_stop` was called (`"late"`) from any other (`"live"`). `newt_init` may be called again: it replaces the event
group, and `onOld` says which tasks began their wait on the former one, whose
bits (`old`) they read when the wait returns. `wiped` is the zeroed private key.
The ghost `late` collects what tasks set up after `newt_stop` was called. HTTP
requests and sends end in any way the code tells apart, and a wait on
the event group either sees its bit or times out.

### NewtProto, NewtConfig

A chain id is two characters, its number twice, so that a reader can catch it
half written. The server answers any request it got, any number of times, late,
or never; it may leave the chainId out. The ghost `raced` records two accesses of
the same buffer at once, and the properties hold until then: they are about the
matching; the race itself is described under "Other observations".

`NewtConfig` puts the tasks of `newt.c` around it. The value of a field of
`s_wg_cfg` is the id of the `wg/connect` it came from, so that a configuration put
together from two of them shows. The worker writes key, host and addresses one
after the other and sets `BIT_WG_CONFIGURED` last; a task reads the key, copies
the addresses, and lets every attempt to connect follow the pointer to the host.
Three ghosts name the ways around the order this is meant to keep: `overwrites` (a
`wg/connect` on top of one in use), `unasked` (one taken with no request in
flight) and `early` (one applied before a task on its way has registered).

### NewtWsRx, NewtAuth

Buffers at their limits. In `NewtWsRx` a byte is its frame and its place, so that
a delivery that mixes frames is visible. `NewtAuth` keeps lengths only.

### WgReplay, ReplayWindow

A bitmap is the set of positions whose bit is set; position 0 is the newest
packet. Subtraction goes through a `uint32_t` in the code, so differences are
taken modulo `DiffMod`, and packet numbers wrap at `SeqMod`.

### WgSession

One step per handler, since all of this runs on the lwIP thread: `SendData` is
`wireguardif_output`, `Receive` is `wireguardif_network_rx` with its branches,
`Timer` is `wireguardif_tmr`, `Connect` and `Disconnect` are the calls of
`esp_wireguard.c`. `dev[d]` is the `struct wireguard_peer` of device `d`, `kp` its
three keypairs. Cryptography is ideal: an index is drawn together with the
ephemeral key of the same message and stands for both, and a session key is the
pair of the initiation and the response it comes from, so that a packet decrypts
under its own key and no other. The network is the set of everything ever sent:
a datagram may be received never, late or again. `Tick` is a unit of time and
waits until the timer has run on each device; ages stop counting where no test
tells them apart any more. `confirmed` stands for `initiator || last_rx != 0`.
After `keypair_update` the code goes on with a pointer to the slot it has just
cleared, and so does `ReceiveData`.

## Properties and runs

| Run | Shows | Bounds |
|---|---|---|
| `NewtWs` | until a take expired: no fault, a lost sentinel strands no worker, every block has one owner, stop leaves nothing | 2 task identities (a worker left behind can meet the next), 3 blocks, queue of 2 (fills; sentinel lost), symmetric |
| `NewtWsLive` | stop returns without its timeout; the receive path implements `WsInbox` | the same, no expiry, no symmetry |
| `NewtWsRx` | only whole frames are delivered, none vanishes without a reason | 3 frames of up to 5 units, pieces of up to 2, limit 4 |
| `WgLegal` | on `EspWireguard`: no fault, stop joins the poll task, no late UP, a tunnel leads to the present server, nothing outlives its device | 1 caller, 2 poll task identities, 2 hosts, 2 source addresses, up to 2 retries, failing calls; 2,632,850 states |
| `Newt` | semaphore and re-add faults need overlap or expiry; one tunnel at a time; one session per newt_init; newt_stop leaves nothing behind but what comes late; no supervisor overwrites the handle of a live ping session; no tunnel from a wiped key | supervisor, application, 2 reconnect tasks, 2 poll tasks, 2 calls of newt_init, 2 authentication attempts, wait loops of 1 turn, no retry, failing calls; 2,443,693 states |
| `NewtLive` | a start settles; BIT_STOP ends every task | 1 reconnect task, 1 poll task, 1 newt_init, expiry allowed; 405,258 states |
| `NewtProto` | on `NewtConfig`: late, repeated or nameless replies do not consume a request; requests are whole; a tunnel's fields are of one wg/connect; none older than the task's own registration | the supervisor and a reconnect task that may run again, 4 chain ids, 1 version, 1 node; 868,752 states |
| `NewtAuth` | the buffer holds the response and its NUL; holes are never parsed; success is complete | capacity 2 to 9 (a limit that doubling does not hit), chunks to 6, 12 bytes |
| `ReplayWindow` | no packet passes twice; a new one is refused only when it is behind the window | window of 4, packets 0 to 9 and the one that wraps, differences modulo 16 |
| `WgSession` | a current keypair is confirmed, a waiting one is not; no session sits in two slots; no number is used twice under a key; a responder sends only after the initiator; an established session delivers a packet once; no way back to an older session | both devices connect, one sends, one leaves and returns; 4 indices (two sessions), 2 messages a session, window of 2, keep-alive of 1 unit, REKEY_AFTER_TIME of 1, REJECT_AFTER_TIME of 2 |
| `WgSessionDup` | violated: a packet is delivered twice | as `WgSession`, one device connects, nobody leaves |
| `NewtNetif` | violated: `LWIP_ASSERT` in `wireguardif.c` is reached | |

Why the bounds are enough: the loops of the supervisor differ from one another
only in their counts, so one turn and then the limit show all ways out; two
reconnect tasks and two poll tasks are the least number that can collide, and
the properties are about pairs; a queue of two is the smallest that can hold a
payload before and after another. Two sessions are the least number that can be
mixed up, and every slot then has held something. Times are in units of
REKEY_TIMEOUT. REJECT_AFTER_TIME less the two intervals is then 0, so that a
packet makes its initiator ask for a new session at once; that is earlier than in
the code and reaches what a later time would. In `MCWgSession.cfg` a packet never
fails on its way out: one that `udp_sendto_if` loses differs from one the network
loses only in that it leaves `last_tx` alone. That an initiation gets no buffer is
a choice of `Timer` of its own. With keep-alives off and
`Outcomes = {"sent", "lost"}` the same properties hold (874,000 states). `MCNewt.cfg` does not explore beyond a state
where `overlap` or `expired` is TRUE: both stay TRUE, and the invariants of the
run say something of such a state only as `CollisionNeedsOverlap` does, which
names the two. `OneSessionPerInit` and `NoPingOverPing` are not limited in this way, so the run
shows them for undisturbed behaviours only. `MCNewtConfig.cfg` likewise stops where the chain ids are
garbled (`raced`) or where neither property of the configuration can fail any
more; with 6 chain ids and no version the same properties hold. `MCNewtLive.cfg`
identifies states that differ only in history variables or in `wiped`, which no
action reads, or in whether a ping session was made late, which only properties
tell, and the states after a fault.

Type invariants: those of `NewtWs`, `NewtAuth` and `NewtConfig` (with that of
`NewtProto`) are among the runs' properties. Those of the other modules are kept
as definitions. All are proved.

The two violations are disagreements between the code and what the repository
says of it, listed under `findings`.

1. `NewtNetif`: `newt_wg_stop` disconnects a tunnel that may never have been
   connected. The first lookup of the peer asserts that the netif is not NULL.
   `newt_stop` before the tunnel is up reaches it, and so does a
   `newt/wg/reconnect` before the first connect or after a reconnect that failed.
2. `WgSessionDup`: the packet that promotes a session from `next` to `curr` is
   marked in the window of the slot it came from, which has just been cleared.
   When its datagram arrives twice, both are handed to lwIP.
   `NoRepeatOnceEstablished` shows that this is the only packet of a session that
   can be repeated, and only once.

### Other observations

More showed while the models were written. No run is kept for these; each can be
read off the model.

- The supervisor judges the handshake by the state at its last look
  (`newt.c:240`). When a reconnect took a tunnel down in between, it reports a
  handshake timeout for a handshake that did complete; `README.md:111` explains
  the message with one that never did.
- Chain ids have more than one writer: reconnect tasks send too, and the worker
  that spawned them may still be handling a reply, although `newt_proto.c:20`
  claims a single writer and a happens-before. This is `raced` in `NewtProto`.
- Nothing removes an expired previous keypair: the timer removes the current one
  at REJECT_AFTER_TIME, so `should_reset_peer`, which waits for a current keypair
  three times as old, never holds. After a second session and silence the peer
  stays up for `wireguardif_peer_is_up`, and the link is not set down. newt's
  poll task takes that answer for a handshake.
- `newt_stop` during authentication finds no WebSocket client. The supervisor makes
  one afterwards, its wait on `BIT_STOP` ends it, and the client stays. A ping
  session made after `newt_ping_stop` stays in the same way (`late`).
- `newt_ws_init` tests only `s_client`. One that comes while `newt_ws_stop` drains
  has its new queue deleted (`fault = "queue"`).
- A supervisor that has loaded the handle of its ping session starts it whether or
  not `newt_stop` has deleted it since, even after `newt_stop` returned
  (`fault = "ping"`): it is past its last wait and nobody joins it.
- `newt_ping_init` overwrites the handle of a session that is still there. For the
  sessions made before `newt_stop` was called this never happens
  (`NoPingOverPing`), for no reason to be found in `newt_ping.c`; one made behind
  `newt_stop`'s back, and left running, may be overwritten.
- A task that waits on the event group a second `newt_init` replaced does not see
  the `BIT_STOP` of the next `newt_stop` in that wait; a supervisor that is online waits there
  for ever.
- That no tunnel is set up with a wiped key rests on the assertion of finding 1: a
  task past its last wait has no netif yet, and `newt_stop` does not get past it.
  A `newt_wg_stop` that left an unconnected tunnel alone would open that way.
- Chain ids keep a configuration from being older than the registration of the
  task that uses it only while a request is in flight, and only from the
  registration on: a `wg/connect` that arrives between the clearing of
  `BIT_WG_CONFIGURED` and the registration counts as the answer (`early`,
  `unasked` in `NewtConfig`).
- `esp_wireguard_disconnect` restores the default interface of the time of the
  connect, whatever esp_netif has chosen since. It is never the tunnel itself
  (`NothingOutlivesDevice`), but it may be one that is no longer there.

### Fairness

Weak fairness for each task. FreeRTOS is preemptive, the tasks have equal or
neighbouring priorities and every one of them blocks or delays in its loop, so a
task that is ready runs. The wait of a supervisor that is online has no timeout
and needs `BIT_STOP`; every other wait of `newt.c` has one. Nothing is assumed of
the server, of the peer, of the application or of the WebSocket client: they may
never act. `NewtWsLive` needs `on_msg` to return, and does not use the timeout of the take,
since the point is that it is not needed; `NewtLive` needs the timeout of
`newt_wg_stop`, since two tasks inside
`newt_wg_stop` can wait for the one token of a poll task.

## Proofs

TLAPS proves, for every value of the constants allowed by the assumptions in the
modules (limits are naturals, `QueueDepth`, capacities and chunk sizes positive,
the tasks and roles distinct, a window smaller than the values of `diff`), every
invariant of the passing runs and the action properties `NoLateUp`,
`NoFrameVanishes` and `NeverFallsBack`. None of these invariants is inductive; each proof names
the strengthening that is.

- `NewtWsProofs`, about `NewtWs`: `TypeCorrect`, `FaultFree`, `NeverStranded`,
  `BlocksOwned`, `WorkerJoined`. The inductive invariant is `TypeOK` together with
  `Sound` as long as no take has expired. `Sound` says what the properties alone
  do not: which handles exist at each stage of the lifecycle (`Stages`), that the
  worker lives exactly until it has given its token and was told to stop before
  (`WorkerLives`), that it holds a block only between receiving and freeing
  (`HoldsWhileBusy`), and that every live block is in the queue or in one hand
  (`OneOwner`). The lemmas `SendContents` and `ReceiveContents` say what a send and
  a receive do to the contents of the queue.
  `InboxUnlessExpired` is the refinement of `WsInbox`, action by action: each step
  is a step of the inbox or a stutter until a take expires; `InboxRefined` is its
  safety part when none does. They need one fact more (`Ready`): no sentinel
  is queued before the stop flag is set, and a worker that dispatches has a block
  in hand.
- `NewtWsRxProofs`, about `NewtWsRx`: `WholeFramesOnly`, `RxTypes` and the action
  property `LastPieceDelivers`, for frames and pieces of any length and any limit. The
  invariant is that the buffer holds the beginning of the frame under way, up to
  the offset the client reports next (`Underway`, `Assembled`); `BytesJoined` is the
  fact about sequences that makes a piece lengthen it.
- `NewtProofs`, about `Newt`, for any number of reconnect tasks, poll tasks and
  calls of `newt_init`, any limit of the loops, and whether or not takes expire or
  lwIP calls fail: `TypeCorrect`, `TasksCollideOnlyInside`, `OneTunnel`,
  `SessionsCounted`, `StopGivesBack`, `OnePingSession`, `WipedKeyUnused`. There is no
  lock to reason from, so `IInv` says where the tasks may be. What holds whatever
  they do to one another: `Labels` (with the counter of each loop, which the next
  loop reads against another limit), `Handles` (which bits and handles go with which
  stage of `newt_stop`), `SessionsLeft` (a session that is on its way, and the one
  that is still to be had, are counted against the calls of `newt_init`), `GivenBack`, `PingsInOrder` (beside a
  live ping session there is a WebSocket client, the supervisor that made it, or a
  `newt_stop` whose `BIT_STOP` meets the next supervisor), `Apart`. What holds until two tasks meet in a tunnel section, a stop goes on
  without its token or its disconnect, or a fault is met: `Orderly`, whose core is `FreshStart` (a
  supervisor that may come to `newt_wg_init` finds no tunnel, or `newt_stop` is about
  to take it down and `BIT_STOP` meets that supervisor first) and `Taken` (once
  `newt_stop` has taken the tunnel down nothing sets one up). `SessionsCounted` and
  `OnePingSession` are more than their run shows: they hold after collisions too.
- `NewtConfigProofs`, about `NewtProto` and `NewtConfig`: `ConfigRefinesProto` (the
  tasks do to the requests and replies only what `NewtProto` allows), so that what is
  proved of `NewtProto` holds there: `OnlyOwnConsumes`, `WholeRequests`;
  then `WholeTunnel`, `NothingOlder`, `ConfigTypes`. `ProtoInv`
  says until a race that senders of one kind follow one another (`Solo`), that the id
  in a buffer is the one its sender drew and nobody sent before (`Drawn`), and that
  the reply being applied is that of the request in flight (`Handled`). `ConfigInv` adds
  how far the callback has got (`Callback`), and that a task which may read finds
  nothing older than its own registration (`InOrder`).
- `NewtAuthProofs`, about `NewtAuth`: `TypeCorrect`, `BufferSafe`, `WholeResponse`,
  `CompleteSuccess`. The lemma `GrowthHolds` is the arithmetic of `resp_append`:
  a grown buffer holds what it was grown for and stays below the limit. The
  invariant adds that bytes gathered fall behind bytes sent only after a drop, and
  that every field copied so far fits.
- `ReplayWindowProofs`, about `ReplayWindow`: `TypeCorrect`, `NoDuplicate`,
  `NoFalseAlarm`, for every width of the window and of the words. The invariant is
  that the bitmap is the trace of the packets let through (`BitmapIsTrace`) and
  that none of them is newer than the counter (`NothingNewer`). It rests on
  `NonceAssumption`: a session sees fewer packets than a `uint32_t` counts, without
  which the truncated difference means nothing.
- `EspWireguardProofs`, about `WgLegal`: `UsesAreSafe`, `PollerJoined` and, as an
  action property, `UpFollowsHandshake`. It rests on `OneCaller`. The invariant: the
  context's netif is lwIP's (`InterfaceKnown`); and until a stop goes on without
  its token, the poll task alive is the one `s_poller` names, with a semaphore not
  yet given, a netif and a handshake under way (`PollerInOrder`), and the handle is
  set exactly while there is a token to come or to take (`HandleInOrder`). The
  last part is needed because a stop trusts `s_poller` alone to decide whether it
  has to wait.
  Then `ImplementsControl` (every behaviour of `EspWireguard` is one
  of `WgLegal`, each step a step or a stutter), from which `ControlIsSafe` carries the
  three theorems over; then `ReachesServer` and `NothingLeftBehind` for any set
  of hosts and any number of source addresses, and `EspTypeCorrect`. The invariant
  adds that the device is there exactly while the context has its netif
  (`DeviceBehind`), that a valid peer leads to the present host, because the host
  changes only while there is no device (`PeerInOrder`), and that the peer is
  ready from a connect that succeeded to the disconnect (`TunnelInOrder`).
  `SecondIpFits` is the counting of `peer_add_ip`, and `ExitsGiveBack` says that an
  early exit of `wireguardif_init` frees what it has taken.
- `WgSessionProofs`, about `WgSession`, for any two devices, any number of
  indices, any limits on time and messages and any window: `SessionTypes`,
  `CurrentConfirmed`, `SlotsDistinct`, `NoncesOnce`, `ResponderSecond`, `NeverBack`. The
  invariant (`Sound`) ties the slots, the handshakes and every packet in the network
  together by the order in which indices are drawn (`Indexed`): the sessions in the
  slots follow one another (`InSequence`), a handshake under way is newer than all of
  them (`Pending`) and nothing was sent under it (`Untouched`), one device alone
  is an end of a session in each role (`OneEnd`), and a responder's packets come after an
  initiator's (`OnceShown`). The steps of a handler are lemmas of their own
  (`AuthenticatedEffect`, `StartEffect`, `OutputEffect` and so on).
  `NoRepeat`: an established session delivers no packet twice. `ReplayInv` adds that
  the window a keypair carries from slot to slot blocks what was delivered from it,
  and that nothing was delivered from a session in `next`, whose window the promotion
  loses (finding 2). The comparison of counters in
  `wireguard_check_replay` is cut to 32 bits, so the theorem is about
  behaviours in which no session has carried 2^32 packets (`FewPackets`). A
  keypair lives for 180 seconds, in which an ESP32 does not send as many.

Only model-checked: liveness (`StopReturns`, `SupervisorSettles`, `StopEndsTasks`) and
the fairness half of the refinement of `WsInbox`, which are out of the prover's
reach; and the two violations.

## Not modelled

- What a failing `newt_init` leaves, and the events reported to the application.
- The contents of keys. A field of a configuration is the message it came from; the
  single field is not torn, although `configVersion` is read in two accesses on a
  32-bit processor.
- Senders that use the WebSocket client while it is destroyed, and an init that
  overlaps a stop.
- URL, JSON and base64 encoding; the fields of `wg/connect` are valid or not.
- In WireGuard: cookies (`wireguard_is_under_load` returns FALSE, so nobody asks
  for one), roaming endpoints, the filters on inner addresses, base64, the preshared
  key, which newt leaves NULL, and wrapping of the millisecond clock. Cryptography
  and the example's Wi-Fi code: numeric functions and hardware, where a state
  machine has nothing to say.

## Plan

Done: `NewtWs` with `WsInbox`, `NewtWg` with `WgLegal` and `EspWireguard`, `Newt`
with a second `newt_init` and the ping session, `NewtProto` with `NewtConfig`,
`NewtWsRx`, `NewtAuth`, `ReplayWindow`, `WgSession`, and the proofs above. Left,
in this order:

1. In `WgSession`, that a lost session comes back: an active device whose
   datagrams arrive again and again gets a usable session, with fairness of the
   network and indices that are used over. An abstract specification of the two
   ends (a sequence of sessions, each used for a time) that it implements.
2. Senders inside `newt_ws_send_envelope` and an init that overlaps a stop in
   `NewtWs`.
3. What is left of `Orderly` of `Newt` after a stop that went on without its token
   or its disconnect, where its theorems about the tunnel say nothing.
