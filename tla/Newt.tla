--------------------------------- MODULE Newt ---------------------------------
(***************************************************************************)
(* The tasks of src/src/newt.c over the tunnel control of NewtWg: the      *)
(* supervisor, the reconnect tasks the server's messages spawn, the        *)
(* periodic ping task, the WebSocket worker that runs the callbacks, and   *)
(* the application that calls newt_start and newt_stop.                    *)
(*                                                                         *)
(* Abstractions: an HTTP request, a send and a bounded wait end with any   *)
(* outcome the code tells apart; newt_ws_init and newt_ws_stop are one     *)
(* or two steps each (NewtWs models their inside); events reported to the  *)
(* application are left out, and so is what a failing newt_init leaves.  A *)
(* wait on the event group reads the bits of the group it began with when  *)
(* it returns.                                                             *)
(***************************************************************************)
EXTENDS NewtWg

CONSTANTS
    Sup, App,   \* the supervisor and the application task
    Reconns,    \* identities of reconnect tasks
    MaxAuth,    \* authentication attempts (10 in the code)
    MaxWait,    \* polls of a wait loop (60 or 120 in the code)
    MaxInits    \* bound on the calls of newt_init

ASSUME TasksAssumption == Tasks = {Sup, App} \cup Reconns
ASSUME DistinctAssumption == Sup # App /\ {Sup, App} \cap Reconns = {}
ASSUME BoundsAssumption ==
    MaxAuth \in Nat \ {0} /\ MaxWait \in Nat /\ MaxInits \in Nat \ {0}

VARIABLES
    bits,       \* s_evt, without the BIT_ prefix
    old,        \* the event group that the last newt_init replaced
    onOld,      \* tasks that began their wait on that one
    ws,         \* s_client: "null", "created" or "started"
    sup,        \* s_supervisor # NULL
    pingTask,   \* periodic_ping_task: "none", or the group it waits on
    ping,       \* s_ping: "null", a "live" session, one made "late", after
                \* newt_stop was called, or one "deleted" and not yet forgotten
    toStart,    \* the session newt_ping_start has loaded from s_ping, if any
    wiped,      \* s_kp.priv has been zeroed
    n,          \* loop counter of each task
    inits,      \* history: how often newt_init was called
    overlap,    \* history: two tasks were in a tunnel section at once
    sessions,   \* history: how often a supervisor reached newt_wg_init
    stopping,   \* history: newt_stop was called last: "no", "under way", "done"
    late        \* history: what tasks have set up since it was called

evt == <<bits, old>>
pings == <<ping, toStart>>
held == <<ws, pingTask, pings, wiped>>
app == <<held, sup>>
stops == <<stopping, late>>
history == <<inits, overlap, sessions, stops>>
vars == <<wgVars, evt, onOld, app, n, history>>

\* BIT_AUTHED, BIT_WS_CONN and BIT_WG_UP are set and cleared but never read.
Bits == {"WG_CONFIGURED", "STOP"}
StopPCs == {"stop", "take", "delsem", "clear", "disc", "down"}
StartPCs == {"connect", "spawn"}
PingSessions == {"null", "live", "late", "deleted"}
SupPCs == {"none", "auth", "authwait", "wsinit", "wsstart", "wswait", "ping",
           "register", "await", "wginit", "poll", "online", "pingstart",
           "pinging", "run"}
          \cup StartPCs
ReconnPCs == {"none", "clearbits", "ping", "register", "await", "wginit",
              "poll"} \cup StopPCs \cup StartPCs
AppPCs == {"none", "wsstop", "wsdrain", "pingstop", "forget", "wipe"}
          \cup StopPCs

TypeOK ==
    /\ WgTypeOK
    /\ pc[Sup] \in SupPCs /\ pc[App] \in AppPCs
    /\ \A r \in Reconns : pc[r] \in ReconnPCs
    /\ bits \subseteq Bits /\ old \subseteq Bits /\ onOld \subseteq Tasks
    /\ ws \in {"null", "created", "started"}
    /\ sup \in BOOLEAN
    /\ pingTask \in {"none", "current", "old"}
    /\ ping \in PingSessions /\ toStart \in PingSessions
    /\ wiped \in BOOLEAN
    /\ n \in [Tasks -> 0..(MaxAuth + MaxWait)]
    /\ inits \in 1..MaxInits /\ sessions \in Nat
    /\ stopping \in {"no", "under way", "done"}
    /\ late \subseteq {"ws", "wg", "ping"}
    /\ overlap \in BOOLEAN

\* After the first newt_init.
Init ==
    /\ WgInitState
    /\ pc = [t \in Tasks |-> "none"]
    /\ bits = {} /\ old = {} /\ onOld = {}
    /\ ws = "null"
    /\ sup = FALSE
    /\ pingTask = "none" /\ ping = "null" /\ toStart = "null" /\ wiped = FALSE
    /\ n = [t \in Tasks |-> 0]
    /\ inits = 1
    /\ overlap = FALSE
    /\ sessions = 0
    /\ stopping = "no" /\ late = {}

-----------------------------------------------------------------------------
(* Steps several tasks share.                                              *)

OffTunnel == UNCHANGED <<tunnel, pollerVars, ppc, tries, expired, fault>>

\* A tunnel section: newt_wg_init .. newt_wg_start of the supervisor, the
\* whole way from newt_wg_stop to newt_wg_start of a reconnect task, and
\* newt_wg_stop of the application.
InSection(t) ==
    \/ pc[t] \in StopPCs \cup StartPCs
    \/ t \in Reconns /\ pc[t] \in {"ping", "register", "await", "wginit"}

EntersSection(t) ==
    /\ overlap' = (overlap \/ \E u \in Tasks \ {t} : InSection(u))

Counts(t, k) == n' = [n EXCEPT ![t] = k]

\* In xEventGroupWaitBits.  A reconnect task polls with xEventGroupGetBits.
Waits(t) ==
    \/ pc[t] \in {"authwait", "wswait", "ping", "await", "run"}
    \/ t = Sup /\ pc[t] = "poll"

\* The bits a wait of the task returns.
Seen(t) == IF t \in onOld THEN old ELSE bits

\* The wait the task was in, if newt_init came during it, did not end it.
WaitedOn(t) == t \in onOld => "STOP" \notin old

\* Something is set up although newt_stop has been called.
SetsUp(what) == late' = IF stopping = "no" THEN late ELSE late \cup {what}

\* vTaskDelete(NULL); the supervisor clears its handle first.
Exit(t) == Goto(t, "none") /\ sup' = (sup /\ t # Sup)

\* Faulty variant: the turns are not counted.
PollForever(t, max) ==
    /\ OffTunnel
    /\ UNCHANGED <<evt, held, history>>
    /\ IF "STOP" \in Seen(t)
       THEN Exit(t) /\ Counts(t, 0)
       ELSE UNCHANGED <<n, pc, sup>>

\* xEventGroupWaitBits(s_evt, BIT_STOP, ...) inside a loop of at most `max'
\* turns, and what follows the loop.
PollOrGiveUp(t, max) ==
    /\ OffTunnel
    /\ UNCHANGED <<evt, held, history>>
    /\ IF "STOP" \in Seen(t) \/ n[t] = max
       THEN Exit(t) /\ Counts(t, 0)
       ELSE Counts(t, n[t] + 1) /\ UNCHANGED <<pc, sup>>

\* The wait of 5 s that only BIT_STOP cuts short.
WaitThen(t, next) ==
    /\ OffTunnel
    /\ UNCHANGED <<evt, held, n, history>>
    /\ IF "STOP" \in Seen(t) THEN Exit(t) ELSE Goto(t, next) /\ UNCHANGED sup

Send(t, next) ==
    /\ Goto(t, next)
    /\ OffTunnel
    /\ UNCHANGED <<evt, app, n, history>>

\* The wait of 60 s for a wg/connect.
AwaitConfigured(t) ==
    /\ pc[t] = "await"
    /\ OffTunnel
    /\ UNCHANGED <<evt, held, n, history>>
    /\ IF "WG_CONFIGURED" \in Seen(t) /\ "STOP" \notin Seen(t)
       THEN Goto(t, "wginit") /\ UNCHANGED sup
       ELSE Exit(t)

\* newt_wg_init and newt_wg_start of either task.
Configure(t) ==
    /\ pc[t] = "wginit"
    /\ \/ /\ WgInit(t, "connect")
          /\ SetsUp("wg")
          /\ UNCHANGED sup
       \/ /\ WgInitFails(t, "none")
          /\ sup' = (sup /\ t # Sup)
          /\ UNCHANGED late
    /\ IF t = Sup THEN EntersSection(t) /\ sessions' = sessions + 1
                  ELSE UNCHANGED <<overlap, sessions>>
    /\ UNCHANGED <<evt, held, n, inits, stopping>>

StartTunnel(t) ==
    /\ \/ /\ pc[t] = "connect"
          /\ \/ WgConnects(t, "spawn")
             \/ WgConnectRetries(t, "connect", "none")
             \/ WgConnectFails(t, "none")
       \/ /\ pc[t] = "spawn"
          /\ WgSpawnsPoller(t, "poll") \/ WgSpawnFails(t, "none")
    /\ SetsUp("wg")
    /\ sup' = (sup /\ ~(t = Sup /\ pc'[t] = "none"))
    /\ UNCHANGED <<evt, held, n, inits, overlap, sessions, stopping>>

\* newt_wg_stop; `next' is where its caller goes on.
StopTunnel(t, next) ==
    /\ \/ pc[t] = "stop" /\ StopSignals(t, "take", "delsem")
       \/ /\ pc[t] = "take"
          /\ StopTakes(t, "delsem") \/ StopTakeExpires(t, "delsem")
       \/ pc[t] = "delsem" /\ StopDeletesSem(t, "take", "clear")
       \/ pc[t] = "clear" /\ StopClearsFlag(t, "disc")
       \/ pc[t] = "disc" /\ (StopDisconnects(t, "down") \/ StopCallFails(t, "down"))
       \/ pc[t] = "down" /\ StopReportsDown(t, next)
    /\ UNCHANGED <<evt, app, n, history>>

-----------------------------------------------------------------------------
(* supervisor_task                                                         *)

SupAuthSucceeds ==
    /\ pc[Sup] = "auth"
    /\ Goto(Sup, "wsinit")
    /\ Counts(Sup, 0)
    /\ OffTunnel
    /\ UNCHANGED <<evt, app, history>>

SupAuthFails == pc[Sup] = "auth" /\ Send(Sup, "authwait")

SupAuthWaits ==
    /\ pc[Sup] = "authwait"
    /\ OffTunnel
    /\ UNCHANGED <<evt, held, history>>
    /\ IF "STOP" \in Seen(Sup) \/ n[Sup] + 1 = MaxAuth
       THEN Exit(Sup) /\ Counts(Sup, 0)
       ELSE Goto(Sup, "auth") /\ Counts(Sup, n[Sup] + 1) /\ UNCHANGED sup

\* Faulty variant: a client that is left over is not noticed.
SupWsInitAgain ==
    /\ pc[Sup] = "wsinit"
    /\ ws' = "created"
    /\ Goto(Sup, "wsstart")
    /\ SetsUp("ws")
    /\ OffTunnel
    /\ UNCHANGED <<evt, sup, pingTask, pings, wiped, n, inits, overlap, sessions,
                   stopping>>

\* newt_ws_init refuses when a client exists, and may fail otherwise.  It does
\* not notice a newt_ws_stop that has forgotten the client but not yet
\* deleted the queue.
SupWsInit ==
    /\ pc[Sup] = "wsinit"
    /\ \/ /\ ws = "null"
          /\ ws' = "created"
          /\ Goto(Sup, "wsstart")
          /\ SetsUp("ws")
          /\ UNCHANGED sup
       \/ Exit(Sup) /\ UNCHANGED <<ws, late>>
    /\ OffTunnel
    /\ UNCHANGED <<evt, pingTask, pings, wiped, n, inits, overlap, sessions,
                   stopping>>

SupWsStart ==
    /\ pc[Sup] = "wsstart"
    /\ \/ /\ ws # "null"
          /\ ws' = "started"
          /\ Goto(Sup, "wswait")
          /\ UNCHANGED sup
       \/ Exit(Sup) /\ UNCHANGED ws
    /\ OffTunnel
    /\ UNCHANGED <<evt, pingTask, pings, wiped, n, history>>

SupWsConnected ==
    /\ pc[Sup] = "wswait"
    /\ ws = "started"
    /\ WaitedOn(Sup)
    /\ Goto(Sup, "ping")
    /\ Counts(Sup, 0)
    /\ OffTunnel
    /\ UNCHANGED <<evt, app, history>>

SupWsNotConnected == pc[Sup] = "wswait" /\ PollOrGiveUp(Sup, MaxWait)

SupPingRequest == pc[Sup] = "ping" /\ WaitThen(Sup, "register")
SupRegister == pc[Sup] = "register" /\ Send(Sup, "await")

SupHandshaked ==
    /\ pc[Sup] = "poll"
    /\ state = "UP"
    /\ WaitedOn(Sup)
    /\ Goto(Sup, "online")
    /\ Counts(Sup, 0)
    /\ OffTunnel
    /\ UNCHANGED <<evt, app, history>>

\* BIT_STOP ends the wait whatever the state; the last turn gives up with "wg
\* handshake timeout".
SupNotHandshaked ==
    /\ pc[Sup] = "poll"
    /\ state # "UP" \/ "STOP" \in Seen(Sup)
    /\ PollOrGiveUp(Sup, MaxWait)

\* newt_ping_init overwrites s_ping, whatever it names, unless it fails.
SupMakesPing ==
    /\ pc[Sup] = "online"
    /\ \/ ping' = (IF stopping = "no" THEN "live" ELSE "late") /\ SetsUp("ping")
       \/ UNCHANGED <<ping, late>>
    /\ Goto(Sup, "pingstart")
    /\ OffTunnel
    /\ UNCHANGED <<evt, ws, pingTask, toStart, wiped, sup, n, inits, overlap,
                   sessions, stopping>>

\* newt_ping_start tests the handle and loads it for esp_ping_start.
SupLoadsPing ==
    /\ pc[Sup] = "pingstart"
    /\ toStart' = ping
    /\ Goto(Sup, "pinging")
    /\ OffTunnel
    /\ UNCHANGED <<evt, ws, pingTask, ping, wiped, sup, n, history>>

\* esp_ping_start on the session loaded, which may be gone by now, and the task
\* of the periodic pings.
SupOnline ==
    /\ pc[Sup] = "pinging"
    /\ toStart' = "null"
    /\ fault' = IF toStart = "deleted" THEN "ping" ELSE fault
    /\ pingTask' \in {"current", pingTask}       \* xTaskCreate may fail
    /\ Goto(Sup, "run")
    /\ UNCHANGED <<tunnel, pollerVars, ppc, tries, expired>>
    /\ UNCHANGED <<evt, ws, ping, wiped, sup, n, history>>

SupStops ==
    /\ pc[Sup] = "run"
    /\ "STOP" \in Seen(Sup)
    /\ Exit(Sup)
    /\ OffTunnel
    /\ UNCHANGED <<evt, held, n, history>>

SupStep ==
    \/ SupAuthSucceeds \/ SupAuthFails \/ SupAuthWaits
    \/ SupWsInit \/ SupWsStart \/ SupWsConnected \/ SupWsNotConnected
    \/ SupPingRequest \/ SupRegister \/ AwaitConfigured(Sup)
    \/ Configure(Sup) \/ StartTunnel(Sup)
    \/ SupHandshaked \/ SupNotHandshaked
    \/ SupMakesPing \/ SupLoadsPing \/ SupOnline \/ SupStops

-----------------------------------------------------------------------------
(* reconnect_task and periodic_ping_task                                   *)

\* Faulty variant: all bits are cleared.
ReconnClearsAllBits(r) ==
    /\ pc[r] = "clearbits"
    /\ bits' = {}
    /\ Goto(r, "stop")
    /\ EntersSection(r)
    /\ OffTunnel
    /\ UNCHANGED <<old, app, n, inits, sessions, stops>>

ReconnClearsBits(r) ==
    /\ pc[r] = "clearbits"
    /\ bits' = bits \ {"WG_CONFIGURED"}
    /\ Goto(r, "stop")
    /\ EntersSection(r)
    /\ OffTunnel
    /\ UNCHANGED <<old, app, n, inits, sessions, stops>>

ReconnPingRequest(r) == pc[r] = "ping" /\ WaitThen(r, "register")
ReconnRegister(r) == pc[r] = "register" /\ Send(r, "await")

ReconnHandshaked(r) ==
    /\ pc[r] = "poll"
    /\ state = "UP"
    /\ Exit(r)
    /\ Counts(r, 0)
    /\ OffTunnel
    /\ UNCHANGED <<evt, held, history>>

ReconnNotHandshaked(r) ==
    /\ pc[r] = "poll"
    /\ state # "UP"
    /\ PollOrGiveUp(r, MaxWait)

ReconnStep(r) ==
    \/ ReconnClearsBits(r) \/ StopTunnel(r, "ping")
    \/ ReconnPingRequest(r) \/ ReconnRegister(r) \/ AwaitConfigured(r)
    \/ Configure(r) \/ StartTunnel(r)
    \/ ReconnHandshaked(r) \/ ReconnNotHandshaked(r)

PingGroup == IF pingTask = "old" THEN old ELSE bits

PingTaskEnds ==
    /\ pingTask # "none"
    /\ "STOP" \in PingGroup
    /\ pingTask' = "none"
    /\ OffTunnel
    /\ UNCHANGED <<pc, evt, ws, pings, wiped, sup, n, history>>

\* A wait of 20 s timed out; the next one is on the group there is by then.
PingTaskTurns ==
    /\ pingTask = "old"
    /\ "STOP" \notin old
    /\ pingTask' = "current"
    /\ OffTunnel
    /\ UNCHANGED <<pc, evt, ws, pings, wiped, sup, n, history>>

-----------------------------------------------------------------------------
(* The callbacks, on the WebSocket worker while it exists.                 *)

OnMessage(newBits) ==
    /\ ws = "started"
    /\ bits' = newBits
    /\ OffTunnel
    /\ UNCHANGED <<old, app, n, history>>

CbWgConnect == OnMessage(bits \cup {"WG_CONFIGURED"}) /\ UNCHANGED pc
CbWgTerminate == OnMessage(bits \cup {"STOP"}) /\ UNCHANGED pc

\* One more unjoined task for every message (none when xTaskCreate fails).
CbWgReconnect ==
    /\ OnMessage(bits)
    /\ \E r \in Reconns : pc[r] = "none" /\ Goto(r, "clearbits")

-----------------------------------------------------------------------------
(* The application.                                                        *)

\* newt_init once more: a new event group and the key from NVS.  A task that
\* is in a wait stays on the group it waits for.
NewtInit ==
    /\ pc[App] = "none"
    /\ inits < MaxInits
    /\ inits' = inits + 1
    /\ bits' = {} /\ old' = bits
    /\ onOld' \in SUBSET {t \in Tasks : Waits(t)}
    /\ pingTask' \in {pingTask} \cup IF pingTask = "none" THEN {} ELSE {"old"}
    /\ wiped' = FALSE
    /\ stopping' = "no"
    /\ OffTunnel
    /\ UNCHANGED <<pc, ws, pings, sup, n, overlap, sessions, late>>

NewtStart ==
    /\ pc[App] = "none"
    /\ ~sup
    /\ sup' = TRUE
    /\ Goto(Sup, "auth")
    /\ stopping' = "no"
    /\ OffTunnel
    /\ UNCHANGED <<evt, held, n, inits, overlap, sessions, late>>

NewtStop ==
    /\ pc[App] = "none"
    /\ bits' = bits \cup {"STOP"}
    /\ Goto(App, "wsstop")
    /\ stopping' = "under way"
    /\ late' = {}
    /\ OffTunnel
    /\ UNCHANGED <<old, app, n, inits, overlap, sessions>>

\* newt_ws_stop as far as s_client = NULL; without a client it returns.
NewtStopWs ==
    /\ pc[App] = "wsstop"
    /\ ws' = "null"
    /\ Goto(App, IF ws = "null" THEN "stop" ELSE "wsdrain")
    /\ IF ws = "null" THEN EntersSection(App) ELSE UNCHANGED overlap
    /\ OffTunnel
    /\ UNCHANGED <<evt, sup, pingTask, pings, wiped, n, inits, sessions, stops>>

\* The rest of newt_ws_stop, up to two seconds later: it deletes the queue and
\* the semaphore there are by then, those of a newer client and its worker too.
NewtStopWsReturns ==
    /\ pc[App] = "wsdrain"
    /\ fault' = IF ws = "null" THEN fault ELSE "queue"
    /\ Goto(App, "stop")
    /\ EntersSection(App)
    /\ UNCHANGED <<tunnel, pollerVars, ppc, tries, expired>>
    /\ UNCHANGED <<evt, app, n, inits, sessions, stops>>

\* Faulty variant: the ping session is left alone.
NewtStopNoPing ==
    /\ pc[App] = "pingstop"
    /\ Goto(App, "wipe")
    /\ OffTunnel
    /\ UNCHANGED <<evt, app, n, history>>

\* newt_ping_stop deletes the session, and then forgets it.
NewtStopPing ==
    /\ pc[App] = "pingstop"
    /\ IF ping = "null"
       THEN Goto(App, "wipe") /\ UNCHANGED pings
       ELSE /\ Goto(App, "forget")
            /\ ping' = "deleted"
            /\ toStart' = IF toStart = "null" THEN "null" ELSE "deleted"
    /\ OffTunnel
    /\ UNCHANGED <<evt, ws, pingTask, wiped, sup, n, history>>

NewtStopForgetsPing ==
    /\ pc[App] = "forget"
    /\ ping' = "null"
    /\ Goto(App, "wipe")
    /\ OffTunnel
    /\ UNCHANGED <<evt, ws, pingTask, toStart, wiped, sup, n, history>>

NewtStopWipes ==
    /\ pc[App] = "wipe"
    /\ wiped' = TRUE
    /\ Goto(App, "none")
    /\ stopping' = "done"
    /\ OffTunnel
    /\ UNCHANGED <<evt, ws, pingTask, pings, sup, n, inits, overlap, sessions,
                   late>>

InNewtStop ==
    \/ NewtStopWs \/ NewtStopWsReturns \/ StopTunnel(App, "pingstop")
    \/ NewtStopPing \/ NewtStopForgetsPing \/ NewtStopWipes

-----------------------------------------------------------------------------
Poll(p) ==
    /\ PollerStep(p)
    /\ UNCHANGED <<evt, app, n, history>>

Faulted == fault # "none" /\ UNCHANGED vars

\* Whatever a task does next, it has left the wait it was in.
Runs(t) == onOld' = onOld \ {t}

OnWorker == CbWgConnect \/ CbWgTerminate \/ CbWgReconnect
InApp == NewtStart \/ NewtStop \/ InNewtStop

Next ==
    \/ /\ fault = "none"
       /\ \/ SupStep /\ Runs(Sup)
          \/ \E r \in Reconns : ReconnStep(r) /\ Runs(r)
          \/ \E p \in Pollers : Poll(p) /\ UNCHANGED onOld
          \/ (PingTaskEnds \/ PingTaskTurns \/ OnWorker \/ InApp) /\ UNCHANGED onOld
          \/ NewtInit
    \/ Faulted

\* FreeRTOS runs every ready task and every wait but the supervisor's last one
\* has a timeout; messages and application calls may never come.
Fairness ==
    /\ WF_vars(fault = "none" /\ SupStep /\ Runs(Sup))
    /\ \A r \in Reconns : WF_vars(fault = "none" /\ ReconnStep(r) /\ Runs(r))
    /\ \A p \in Pollers : WF_vars(fault = "none" /\ Poll(p) /\ UNCHANGED onOld)
    /\ WF_vars(/\ fault = "none"
               /\ PingTaskEnds \/ PingTaskTurns
               /\ UNCHANGED onOld)
    /\ WF_vars(fault = "none" /\ InNewtStop /\ UNCHANGED onOld)

Spec == Init /\ [][Next]_vars /\ Fairness

-----------------------------------------------------------------------------
(* Properties.                                                             *)

\* No two tasks have been in a tunnel section at once, and no newt_wg_stop has
\* gone on without its token or its disconnect.
Undisturbed == ~overlap /\ ~expired

\* Apart from the netif assertion, every way out of defined behaviour (a
\* deleted or NULL semaphore, an interface added twice) needs two tasks inside
\* a tunnel section at once, or a take that timed out: a supervisor and
\* reconnect tasks that follow one another never collide (newt.c:72-137).
CollisionNeedsOverlap ==
    fault \in {"sem", "readd"} => ~Undisturbed

\* Tasks that follow one another never leave two poll tasks behind, and outside
\* a newt_wg_stop that is about to say so the state never says UP for an
\* interface that is gone.
OneTunnelAtATime ==
    Undisturbed /\ fault = "none" =>
        /\ \A p, q \in AlivePollers : p = q
        /\ state = "UP" => ctxNetif \/ \E t \in Tasks : pc[t] = "down"

\* Between one newt_init and the next a supervisor sets a tunnel up at most
\* once, so that calling newt_start again never brings a device back that was
\* online: BIT_STOP is never cleared, and a supervisor that ends without
\* newt_stop leaves its WebSocket client behind, which the next newt_ws_init
\* refuses (newt.c:198, 266, 319).
OneSessionPerInit == sessions <= inits

\* When newt_stop has returned, the WebSocket client, the tunnel with its poll
\* task, and the ping session are gone, unless a task that newt_stop does not
\* wait for has set one up since it was called.  An ICMP session that is gone
\* is also forgotten (newt.c:319-322).
StopIsClean ==
    stopping = "done" /\ fault = "none" /\ Undisturbed =>
        /\ ws = "null" \/ "ws" \in late
        /\ (~added /\ AlivePollers = {} /\ state = "DOWN") \/ "wg" \in late
        /\ ping = "null" \/ "ping" \in late

\* A supervisor that is about to make an ICMP session finds none alive, unless
\* one was made after newt_stop was called.  newt_ping_init overwrites s_ping
\* without a look, and a session it overwrites would ping for ever, out of reach
\* of every newt_stop.  What saves it is never in newt_ping.c: a live session has
\* beside it the WebSocket client, with which the next newt_ws_init fails, or the
\* supervisor that made it, or a newt_stop whose BIT_STOP meets the next
\* supervisor in time (newt_ping.c:64, 85-87, newt.c:198, 266, 301, 319-322).
NoPingOverPing == pc[Sup] = "online" => ping # "live"

\* Once newt_stop has wiped the key, no task sets up a tunnel with it.  A task
\* on its way there meets BIT_STOP in a wait; one past its last wait has no
\* netif yet, and newt_stop meets the assertion on it before the wipe
\* (newt.c:85-96, 222-229, 321-325).
NoTunnelFromWipedKey ==
    wiped /\ Undisturbed => \A t \in Tasks : pc[t] \notin StartPCs

\* newt_start leads to a supervisor that is online or gone; no retry loop or
\* wait on the way is unbounded.
SupervisorSettles ==
    pc[Sup] = "auth" ~> (pc[Sup] \in {"run", "none"} \/ fault # "none")

\* BIT_STOP, from newt_stop or from the server, ends the supervisor together with
\* the periodic ping task, and each reconnect task (newt.c:160, 182-264, 319).
StopEndsTasks ==
    /\ "STOP" \in bits /\ (pc[Sup] # "none" \/ pingTask # "none")
          ~> ((pc[Sup] = "none" /\ pingTask = "none") \/ fault # "none")
    /\ \A r \in Reconns :
          "STOP" \in bits /\ pc[r] # "none" ~> (pc[r] = "none" \/ fault # "none")

\* LWIP_ASSERT("netif != NULL", (netif != NULL)) of wireguardif.c:661, reached
\* by esp_wireguard_disconnect and esp_wireguard_peer_is_up.
NetifNotNull == fault # "netif"
=============================================================================
