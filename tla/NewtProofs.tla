------------------------------ MODULE NewtProofs ------------------------------
(***************************************************************************)
(* Proofs about Newt, for any reconnect tasks and poll tasks, any bounds   *)
(* on attempts, waits and calls of newt_init, and whether or not a take    *)
(* may expire or a call on the lwIP thread may fail.                       *)
(*                                                                         *)
(* No task of newt.c holds a lock, so what keeps them apart is where the   *)
(* others are: the invariant says which tasks may be on their way to set   *)
(* up a tunnel while one exists, which ones BIT_STOP will meet, and what   *)
(* the handles name at each stage.  The tunnel's part holds while no two   *)
(* tasks have been in a tunnel section at once and no stop has gone on     *)
(* without its token or its disconnect.                                    *)
(***************************************************************************)
EXTENDS Newt, TLAPS

TurnPCs == {"auth", "authwait", "wswait", "poll"}

\* The labels, and what TypeOK leaves open: the counter of a loop is read against
\* another limit in the next loop.
Labels ==
    /\ pc \in [Tasks -> SupPCs \cup ReconnPCs \cup AppPCs]
    /\ pc[Sup] \in SupPCs /\ pc[App] \in AppPCs
    /\ \A r \in Reconns : pc[r] \in ReconnPCs
    /\ n \in [Tasks -> Nat]
    /\ \A t \in Tasks :
          /\ pc[t] \in {"auth", "authwait"} => n[t] < MaxAuth
          /\ pc[t] \in {"wswait", "poll"} => n[t] <= MaxWait
          /\ pc[t] \notin TurnPCs => n[t] = 0

-----------------------------------------------------------------------------
(* Facts that hold whatever the tasks do to one another.                   *)

\* The handles and bits follow the tasks.
Waiting == \A t \in onOld : Waits(t)
SupHandle == sup <=> pc[Sup] # "none"
StopUnderWay == stopping = "under way" <=> pc[App] # "none"
StopSet == pc[App] # "none" \/ wiped => "STOP" \in bits
NoClientNoBit == ws = "null" => "STOP" \in bits \/ "WG_CONFIGURED" \notin bits
DeletedIsForgotten == ping = "deleted" => pc[App] = "forget"

Handles ==
    Waiting /\ SupHandle /\ StopUnderWay /\ StopSet /\ NoClientNoBit /\ DeletedIsForgotten

\* The supervisor may still come to newt_wg_init.
Passing ==
    \/ pc[Sup] = "wginit"
    \/ /\ pc[Sup] \in {"wsstart", "wswait", "ping", "register", "await"}
       /\ "STOP" \notin Seen(Sup)
       /\ ws # "null" \/ "WG_CONFIGURED" \in Seen(Sup)

\* The next supervisor will find no client and no BIT_STOP.
Unused == ws = "null" /\ "STOP" \notin bits

One(b) == IF b THEN 1 ELSE 0

\* Sessions that were, that is on its way, and that is still to be had.
SessionsLeft == sessions + One(Passing) + One(Unused) <= inits

AppStopsWs == pc[App] = "wsstop"

\* What newt_stop gave back is gone or was set up again since.
GivenBack ==
    /\ (stopping = "under way" /\ ~AppStopsWs) \/ stopping = "done" =>
          ws = "null" \/ "ws" \in late
    /\ pc[App] = "wipe" \/ stopping = "done" => ping = "null" \/ "ping" \in late

Early == {"wsstart", "wswait", "ping"}
Nearly == {"register", "await", "wginit"}
Onward == Nearly \cup StartPCs \cup {"poll", "online"}
BeforePing == {"wsstop", "wsdrain", "pingstop"} \cup StopPCs

\* A live ICMP session without a WebSocket client, or with a supervisor that has
\* made its own client and no session yet, is one that newt_stop is about to
\* delete, and BIT_STOP meets that supervisor before; or the supervisor that
\* made it is there and has not been told to stop.
PingFresh ==
    ping = "live" /\ (ws = "null" \/ pc[Sup] \in Early \cup Onward) =>
        \/ /\ pc[App] \in BeforePing
           /\ "STOP" \in bits
           /\ pc[Sup] \notin Onward
           /\ pc[Sup] \in Early => Sup \notin onOld
        \/ /\ pc[Sup] \in {"pingstart", "pinging", "run"}
           /\ "STOP" \notin bits
           /\ Sup \in onOld => "STOP" \notin old

\* A supervisor that lost its client to a newt_stop which newt_init has made
\* forgotten finds BIT_STOP cleared.
ClearedBits ==
    stopping = "no" /\ ws = "null" /\ pc[Sup] \in Early \cup Onward => "STOP" \notin bits

PingsInOrder == PingFresh /\ ClearedBits

-----------------------------------------------------------------------------
(* Facts that hold as long as the tasks keep apart.                        *)

Apart ==
    ~overlap => \A t, u \in Tasks : InSection(t) /\ InSection(u) => t = u

TunnelDown ==
    ~added /\ ~ctxNetif /\ poller = NULL /\ AlivePollers = {}
        /\ pollerDone # "given"

\* The poll task alive is the one s_poller names, with a semaphore that has
\* not been given, a netif and a handshake to wait for.
PollerInOrder ==
    \A p \in AlivePollers :
        poller = p /\ ctxNetif /\ state = "HANDSHAKING" /\ pollerDone = "empty"

\* There is a handle exactly while there is a token to come or to take.
HandleInOrder ==
    /\ poller # NULL <=> pollerDone = "given" \/ AlivePollers # {}
    /\ poller # NULL => ctxNetif

\* Only the start of a newt_wg_stop finds a poll task, and a start has a netif
\* when it comes to the poll task.
SectionInOrder ==
    \A t \in Tasks : InSection(t) =>
        /\ pc[t] \notin {"stop", "take"} => poller = NULL
        /\ pc[t] = "spawn" => ctxNetif
        /\ pc[t] = "down" => TunnelDown
        /\ pc[t] \in {"ping", "register", "await", "wginit"} => TunnelDown

UpHasNetif == state = "UP" => ctxNetif \/ \E t \in Tasks : pc[t] = "down"

TunnelInOrder ==
    /\ added = ctxNetif
    /\ PollerInOrder /\ HandleInOrder /\ SectionInOrder /\ UpHasNetif

DrainPCs == {"wsdrain", "stop", "take", "delsem", "clear", "disc"}
PastDisc == {"down", "ping", "register", "await", "wginit"} \cup StartPCs

\* No tunnel, and no reconnect task that could set one up: its newt_wg_stop
\* meets the assertion first.
Clear == TunnelDown /\ \A r \in Reconns : pc[r] \notin PastDisc

\* BIT_STOP meets the supervisor before it comes to newt_wg_init.
SupBlocked ==
    /\ "STOP" \in bits
    /\ pc[Sup] \notin Nearly
    /\ pc[Sup] \in Early => Sup \notin onOld

\* A supervisor before its newt_wg_init, or one to come, finds no tunnel; else
\* newt_stop is about to take the tunnel down, and BIT_STOP there.
FreshStart ==
    pc[Sup] \in Early \cup Nearly \/ ws = "null" =>
        \/ Clear /\ pc[Sup] \notin StartPCs
        \/ /\ pc[App] \in DrainPCs
           /\ SupBlocked
           /\ pc[Sup] \in Early => ws # "null"

\* Without a client only a newt_stop that is not through lets a supervisor
\* be on its way.
NoClient ==
    ws = "null" /\ pc[Sup] \in Early \cup Nearly => pc[App] \in DrainPCs

\* Once newt_stop has taken the tunnel down nothing sets one up.
Taken ==
    pc[App] \in {"down", "pingstop", "forget", "wipe"} \/ wiped =>
        Clear /\ SupBlocked /\ pc[Sup] \notin StartPCs

\* The tunnel newt_stop took down stays down, or was set up since.
TunnelGivenBack ==
    pc[App] \in {"pingstop", "forget", "wipe"} \/ stopping = "done" =>
        (state = "DOWN" /\ ~added /\ AlivePollers = {}) \/ "wg" \in late

Calm == Undisturbed /\ fault = "none"

Orderly == TunnelInOrder /\ FreshStart /\ NoClient /\ Taken /\ TunnelGivenBack

CalmInv == Calm => Orderly

FaultInv ==
    /\ CollisionNeedsOverlap
    /\ Undisturbed => StopIsClean /\ NoTunnelFromWipedKey

IInv ==
    /\ TypeOK /\ Labels /\ Handles /\ SessionsLeft /\ GivenBack /\ PingsInOrder
    /\ Apart /\ CalmInv /\ FaultInv

-----------------------------------------------------------------------------
(* Types and loop counters.                                                *)

LEMMA TaskFacts ==
    /\ Sup \in Tasks /\ App \in Tasks /\ Reconns \subseteq Tasks
    /\ Sup # App /\ Sup \notin Reconns /\ App \notin Reconns
    /\ \A t \in Tasks : t = Sup \/ t = App \/ t \in Reconns
BY TasksAssumption, DistinctAssumption

LEMMA InitHolds == Init => IInv
<1> SUFFICES ASSUME Init PROVE IInv
  OBVIOUS
<1>1. 0 \in 0..MaxRetry /\ 0 \in 0..(MaxAuth + MaxWait) /\ 1 \in 1..MaxInits
      /\ 0 < MaxAuth /\ 0 <= MaxWait
  BY RetryAssumption, BoundsAssumption
<1>2. \A t \in Tasks : pc[t] = "none"
  BY DEF Init
<1>3. WgTypeOK
  BY <1>1, Zenon DEF Init, WgTypeOK, WgInitState, States, PollerPCs, Faults
<1>4. TypeOK
  BY <1>1, <1>2, <1>3, TaskFacts DEF Init, TypeOK, SupPCs, ReconnPCs, AppPCs, PingSessions
<1>5. Labels
  BY <1>1, <1>2, TaskFacts DEF Init, Labels, SupPCs, ReconnPCs, AppPCs, TurnPCs
<1>6. Handles
  BY <1>2, TaskFacts
     DEF Init, Handles, Waiting, SupHandle, StopUnderWay, StopSet, NoClientNoBit,
         DeletedIsForgotten
<1>7. SessionsLeft
  BY <1>2, TaskFacts DEF Init, SessionsLeft, Passing, Unused, One
<1>8. GivenBack /\ Apart
  BY <1>2, TaskFacts
     DEF Init, GivenBack, Apart, InSection, StopPCs, StartPCs, AppStopsWs
<1>9. TunnelDown /\ state = "DOWN"
  BY DEF Init, WgInitState, TunnelDown, AlivePollers
<1>10. CalmInv
  BY <1>2, <1>9, TaskFacts
     DEF Init, WgInitState, CalmInv, Orderly, TunnelInOrder, PollerInOrder, HandleInOrder,
         SectionInOrder, UpHasNetif, FreshStart, NoClient, Taken, TunnelGivenBack,
         TunnelDown, Clear, InSection, Early, Nearly, DrainPCs, PastDisc, StopPCs,
         StartPCs
<1>11. FaultInv
  BY <1>2 DEF Init, WgInitState, FaultInv, CollisionNeedsOverlap,
              StopIsClean, NoTunnelFromWipedKey
<1>12. PingsInOrder
  BY <1>2, TaskFacts
     DEF Init, PingsInOrder, PingFresh, ClearedBits, Early, Onward, Nearly, StartPCs
<1>. QED
  BY <1>4, <1>5, <1>6, <1>7, <1>8, <1>10, <1>11, <1>12 DEF IInv

\* What the steps of NewtWg do to its variables, whoever takes them.
LEMMA TunnelTyped ==
    ASSUME WgTypeOK, NEW t \in Tasks, NEW next
    PROVE  Configure(t) \/ StartTunnel(t) \/ StopTunnel(t, next) \/ OffTunnel
              => WgTypeOK'
<1> USE DEF WgTypeOK, States, PollerPCs, Faults, tunnel, pollerVars
<1>1. CASE Configure(t)
  <2>1. 0 \in 0..MaxRetry
    BY RetryAssumption
  <2>. QED
    BY <1>1, <2>1 DEF Configure, WgInit, WgInitFails
<1>2. CASE StartTunnel(t)
  <2>1. tries[t] < MaxRetry => tries[t] + 1 \in 0..MaxRetry
    BY RetryAssumption
  <2>. QED
    BY <1>2, <2>1
       DEF StartTunnel, WgConnects, WgConnectRetries, WgConnectFails,
           CreatesNetif, WgSpawnsPoller, WgSpawnFails, Handshaking
<1>3. CASE StopTunnel(t, next)
  BY <1>3
     DEF StopTunnel, StopSignals, StopTakes, StopTakeExpires, StopDeletesSem,
         StopClearsFlag, StopDisconnects, StopCallFails, StopReportsDown
<1>. QED
  BY <1>1, <1>2, <1>3 DEF OffTunnel, WgTypeOK

LEMMA SharedLabelled ==
    ASSUME Labels, NEW t \in Tasks, t # App,
           AwaitConfigured(t) \/ Configure(t) \/ StartTunnel(t)
    PROVE  Labels'
<1> USE TaskFacts, BoundsAssumption
    DEF Labels, SupPCs, ReconnPCs, AppPCs, StopPCs, StartPCs, TurnPCs, Goto, Exit
<1>1. CASE AwaitConfigured(t)
  <2>1. Goto(t, "wginit") \/ Goto(t, "none")
    BY <1>1 DEF AwaitConfigured
  <2>2. n' = n /\ pc[t] = "await"
    BY <1>1 DEF AwaitConfigured
  <2>. QED
    BY <2>1, <2>2
<1>2. CASE Configure(t)
  BY <1>2 DEF Configure, WgInit, WgInitFails
<1>3. CASE StartTunnel(t)
  BY <1>3
     DEF StartTunnel, WgConnects, WgConnectRetries, WgConnectFails,
         WgSpawnsPoller, WgSpawnFails
<1>. QED
  BY <1>1, <1>2, <1>3

LEMMA SupLabelled == ASSUME Labels, SupStep PROVE Labels'
<1> USE TaskFacts, BoundsAssumption
    DEF Labels, SupPCs, ReconnPCs, AppPCs, StopPCs, StartPCs, TurnPCs, Goto,
        Counts, Exit, Send, WaitThen, PollOrGiveUp
<1>1. CASE SupAuthSucceeds \/ SupAuthFails \/ SupAuthWaits
  BY <1>1 DEF SupAuthSucceeds, SupAuthFails, SupAuthWaits
<1>2. CASE SupWsInit \/ SupWsStart
  BY <1>2 DEF SupWsInit, SupWsStart
<1>3. CASE SupWsConnected \/ SupWsNotConnected
  BY <1>3 DEF SupWsConnected, SupWsNotConnected
<1>4. CASE SupPingRequest \/ SupRegister
  BY <1>4 DEF SupPingRequest, SupRegister
<1>5. CASE SupHandshaked \/ SupNotHandshaked
  BY <1>5 DEF SupHandshaked, SupNotHandshaked
<1>6. CASE SupMakesPing \/ SupLoadsPing \/ SupOnline \/ SupStops
  BY <1>6 DEF SupMakesPing, SupLoadsPing, SupOnline, SupStops
<1>. QED
  BY SharedLabelled, <1>1, <1>2, <1>3, <1>4, <1>5, <1>6 DEF SupStep

LEMMA StopLabelled ==
    ASSUME Labels, NEW t \in Tasks, NEW next, StopTunnel(t, next),
           (t \in Reconns /\ next = "ping") \/ (t = App /\ next = "pingstop")
    PROVE  Labels'
BY TaskFacts
   DEF Labels, SupPCs, ReconnPCs, AppPCs, StopPCs, StartPCs, TurnPCs, Goto,
       StopTunnel, StopSignals, StopTakes, StopTakeExpires, StopDeletesSem,
       StopClearsFlag, StopDisconnects, StopCallFails, StopReportsDown

LEMMA ReconnLabelled ==
    ASSUME Labels, NEW r \in Reconns, ReconnStep(r) PROVE Labels'
<1> USE TaskFacts, BoundsAssumption
    DEF Labels, SupPCs, ReconnPCs, AppPCs, StopPCs, StartPCs, TurnPCs, Goto,
        Counts, Exit, Send, WaitThen, PollOrGiveUp
<1>1. CASE ReconnClearsBits(r) \/ ReconnPingRequest(r) \/ ReconnRegister(r)
  BY <1>1 DEF ReconnClearsBits, ReconnPingRequest, ReconnRegister
<1>2. CASE ReconnHandshaked(r) \/ ReconnNotHandshaked(r)
  BY <1>2 DEF ReconnHandshaked, ReconnNotHandshaked
<1>. QED
  BY SharedLabelled, StopLabelled, <1>1, <1>2 DEF ReconnStep

LEMMA AppLabelled ==
    ASSUME Labels, sup <=> pc[Sup] # "none", OnWorker \/ InApp \/ NewtInit
    PROVE  Labels'
<1> USE TaskFacts, BoundsAssumption
    DEF Labels, SupPCs, ReconnPCs, AppPCs, StopPCs, StartPCs, TurnPCs, Goto
<1>1. CASE OnWorker
  BY <1>1 DEF OnWorker, CbWgConnect, CbWgTerminate, CbWgReconnect, OnMessage
<1>2. CASE NewtStart
  BY <1>2 DEF NewtStart
<1>5. CASE NewtStop \/ NewtInit
  BY <1>5 DEF NewtStop, NewtInit
<1>3. CASE NewtStopWs \/ NewtStopWsReturns
  BY <1>3 DEF NewtStopWs, NewtStopWsReturns
<1>4. CASE NewtStopPing \/ NewtStopForgetsPing \/ NewtStopWipes
  BY <1>4 DEF NewtStopPing, NewtStopForgetsPing, NewtStopWipes
<1>. QED
  BY StopLabelled, <1>1, <1>2, <1>3, <1>4, <1>5 DEF InApp, InNewtStop

-----------------------------------------------------------------------------
(* Who moves.                                                              *)

LEMMA SharedMoves ==
    ASSUME Labels, NEW t \in Tasks, NEW next,
           AwaitConfigured(t) \/ Configure(t) \/ StartTunnel(t) \/ StopTunnel(t, next)
    PROVE  \A u \in Tasks : u # t => pc'[u] = pc[u]
<1> USE DEF Labels, Goto, Exit
<1>1. CASE AwaitConfigured(t)
  <2>1. Goto(t, "wginit") \/ Goto(t, "none")
    BY <1>1 DEF AwaitConfigured
  <2>. QED
    BY <2>1
<1>2. CASE Configure(t) \/ StartTunnel(t)
  BY <1>2
     DEF Configure, WgInit, WgInitFails, StartTunnel, WgConnects, WgConnectRetries,
         WgConnectFails, WgSpawnsPoller, WgSpawnFails
<1>3. CASE StopTunnel(t, next)
  BY <1>3
     DEF StopTunnel, StopSignals, StopTakes, StopTakeExpires, StopDeletesSem,
         StopClearsFlag, StopDisconnects, StopCallFails, StopReportsDown
<1>. QED
  BY <1>1, <1>2, <1>3

LEMMA SupMoves ==
    ASSUME Labels, SupStep PROVE \A u \in Tasks : u # Sup => pc'[u] = pc[u]
<1> USE DEF Labels, Goto, Exit, Send, WaitThen, PollOrGiveUp
<1>1. CASE SupAuthSucceeds \/ SupAuthFails \/ SupAuthWaits
  BY <1>1 DEF SupAuthSucceeds, SupAuthFails, SupAuthWaits
<1>2. CASE SupWsInit \/ SupWsStart \/ SupWsConnected \/ SupWsNotConnected
  BY <1>2 DEF SupWsInit, SupWsStart, SupWsConnected, SupWsNotConnected
<1>3. CASE SupPingRequest \/ SupRegister \/ SupHandshaked \/ SupNotHandshaked
  BY <1>3 DEF SupPingRequest, SupRegister, SupHandshaked, SupNotHandshaked
<1>4. CASE SupMakesPing \/ SupLoadsPing \/ SupOnline \/ SupStops
  BY <1>4 DEF SupMakesPing, SupLoadsPing, SupOnline, SupStops
<1>. QED
  BY SharedMoves, TaskFacts, <1>1, <1>2, <1>3, <1>4 DEF SupStep

LEMMA ReconnMoves ==
    ASSUME Labels, NEW r \in Reconns, ReconnStep(r)
    PROVE  \A u \in Tasks : u # r => pc'[u] = pc[u]
<1> USE DEF Labels, Goto, Exit, Send, WaitThen, PollOrGiveUp
<1>1. CASE ReconnClearsBits(r) \/ ReconnPingRequest(r) \/ ReconnRegister(r)
  BY <1>1 DEF ReconnClearsBits, ReconnPingRequest, ReconnRegister
<1>2. CASE ReconnHandshaked(r) \/ ReconnNotHandshaked(r)
  BY <1>2 DEF ReconnHandshaked, ReconnNotHandshaked
<1>. QED
  BY SharedMoves, TaskFacts, <1>1, <1>2 DEF ReconnStep

LEMMA InStopMoves ==
    ASSUME Labels, InNewtStop PROVE \A u \in Tasks : u # App => pc'[u] = pc[u]
<1>1. CASE StopTunnel(App, "pingstop")
  BY <1>1, SharedMoves, TaskFacts
<1>2. CASE ~StopTunnel(App, "pingstop")
  BY <1>2
     DEF Labels, Goto, InNewtStop, NewtStopWs, NewtStopWsReturns, NewtStopPing,
         NewtStopForgetsPing, NewtStopWipes
<1>. QED
  BY <1>1, <1>2

-----------------------------------------------------------------------------
(* Type correctness.                                                       *)

\* The variables of Newt itself.
OwnTypes ==
    /\ bits \subseteq Bits /\ old \subseteq Bits /\ onOld \subseteq Tasks
    /\ ws \in {"null", "created", "started"}
    /\ sup \in BOOLEAN
    /\ pingTask \in {"none", "current", "old"}
    /\ ping \in PingSessions /\ toStart \in PingSessions
    /\ wiped \in BOOLEAN
    /\ inits \in 1..MaxInits /\ sessions \in Nat
    /\ stopping \in {"no", "under way", "done"}
    /\ late \subseteq {"ws", "wg", "ping"}
    /\ overlap \in BOOLEAN

LEMMA TypeParts == OwnTypes /\ WgTypeOK /\ Labels <=> TypeOK /\ Labels
<1>1. ASSUME Labels PROVE n \in [Tasks -> 0..(MaxAuth + MaxWait)]
  BY <1>1, BoundsAssumption DEF Labels, TurnPCs
<1>. QED
  BY <1>1 DEF TypeOK, OwnTypes, Labels

LEMMA SharedTyped ==
    ASSUME OwnTypes, NEW t \in Tasks, NEW next,
           \/ AwaitConfigured(t) \/ Configure(t) \/ StartTunnel(t)
           \/ StopTunnel(t, next),
           onOld' \subseteq Tasks
    PROVE  OwnTypes'
<1> USE DEF OwnTypes, SetsUp, EntersSection, Exit, evt, held, pings, app, stops, history
<1>1. CASE AwaitConfigured(t)
  BY <1>1 DEF AwaitConfigured
<1>2. CASE Configure(t)
  <2>0. sessions \in Nat
    OBVIOUS
  <2>1. UNCHANGED <<evt, held, inits, stopping>>
    BY <1>2 DEF Configure
  <2>2. sup' \in BOOLEAN
    BY <1>2 DEF Configure
  <2>3. late' \subseteq {"ws", "wg", "ping"}
    BY <1>2 DEF Configure
  <2>4. overlap' \in BOOLEAN
    BY <1>2, Zenon DEF Configure
  <2>5. sessions' = sessions + 1 \/ sessions' = sessions
    BY <1>2, Zenon DEF Configure
  <2>6. sessions' \in Nat
    <3> HIDE DEF OwnTypes
    <3>. QED
      BY <2>0, <2>5
  <2>. QED
    BY <2>1, <2>2, <2>3, <2>4, <2>6
<1>4. CASE StartTunnel(t)
  <2>1. UNCHANGED <<evt, held, inits, overlap, sessions, stopping>>
    BY <1>4 DEF StartTunnel
  <2>2. sup' \in BOOLEAN
    BY <1>4 DEF StartTunnel
  <2>3. late' \subseteq {"ws", "wg", "ping"}
    BY <1>4 DEF StartTunnel
  <2>. QED
    BY <2>1, <2>2, <2>3
<1>3. CASE StopTunnel(t, next)
  BY <1>3 DEF StopTunnel
<1>. QED
  BY <1>1, <1>2, <1>3, <1>4

LEMMA SupTyped == ASSUME OwnTypes, SupStep, Runs(Sup) PROVE OwnTypes'
<1>0. onOld' \subseteq Tasks
  BY DEF OwnTypes, Runs
<1> USE DEF OwnTypes, SetsUp, Exit, Send, WaitThen, PollOrGiveUp, evt, held, pings, app,
            stops, history
<1>1. CASE SupAuthSucceeds \/ SupAuthFails \/ SupAuthWaits
  BY <1>0, <1>1 DEF SupAuthSucceeds, SupAuthFails, SupAuthWaits
<1>2. CASE SupWsInit \/ SupWsStart
  BY <1>0, <1>2 DEF SupWsInit, SupWsStart
<1>3. CASE SupWsConnected \/ SupWsNotConnected
  BY <1>0, <1>3 DEF SupWsConnected, SupWsNotConnected
<1>4. CASE SupPingRequest \/ SupRegister \/ SupHandshaked \/ SupNotHandshaked
  BY <1>0, <1>4 DEF SupPingRequest, SupRegister, SupHandshaked, SupNotHandshaked
<1>5. CASE SupMakesPing
  BY <1>0, <1>5 DEF SupMakesPing, PingSessions
<1>6. CASE SupLoadsPing \/ SupStops
  BY <1>0, <1>6 DEF SupLoadsPing, SupStops
<1>7. CASE SupOnline
  BY <1>0, <1>7 DEF SupOnline, PingSessions
<1>. QED
  BY <1>0, SharedTyped, TaskFacts, <1>1, <1>2, <1>3, <1>4, <1>5, <1>6, <1>7 DEF SupStep

LEMMA ReconnTyped ==
    ASSUME OwnTypes, NEW r \in Reconns, ReconnStep(r), Runs(r) PROVE OwnTypes'
<1>0. onOld' \subseteq Tasks
  BY DEF OwnTypes, Runs
<1> USE DEF OwnTypes, Exit, Send, WaitThen, PollOrGiveUp, EntersSection, evt, held, pings,
            app, stops, history
<1>1. CASE ReconnClearsBits(r)
  BY <1>0, <1>1 DEF ReconnClearsBits
<1>2. CASE ReconnPingRequest(r) \/ ReconnRegister(r)
  BY <1>0, <1>2 DEF ReconnPingRequest, ReconnRegister
<1>3. CASE ReconnHandshaked(r) \/ ReconnNotHandshaked(r)
  BY <1>0, <1>3 DEF ReconnHandshaked, ReconnNotHandshaked
<1>. QED
  BY <1>0, SharedTyped, TaskFacts, <1>1, <1>2, <1>3 DEF ReconnStep

LEMMA AppTyped ==
    ASSUME OwnTypes, OnWorker \/ InApp, UNCHANGED onOld PROVE OwnTypes'
<1> USE DEF OwnTypes, EntersSection, Exit, evt, held, pings, app, stops, history
<1>1. CASE OnWorker
  BY <1>1 DEF OnWorker, CbWgConnect, CbWgTerminate, CbWgReconnect, OnMessage, Bits
<1>2. CASE NewtStart \/ NewtStop
  BY <1>2 DEF NewtStart, NewtStop, Bits
<1>3. CASE NewtStopWs \/ NewtStopWsReturns
  BY <1>3 DEF NewtStopWs, NewtStopWsReturns
<1>4. CASE NewtStopPing
  BY <1>4 DEF NewtStopPing, PingSessions
<1>5. CASE NewtStopForgetsPing \/ NewtStopWipes
  BY <1>5 DEF NewtStopForgetsPing, NewtStopWipes, PingSessions
<1>. QED
  BY SharedTyped, TaskFacts, <1>1, <1>2, <1>3, <1>4, <1>5 DEF InApp, InNewtStop

LEMMA NewtInitTyped == ASSUME OwnTypes, NewtInit PROVE OwnTypes'
<1>0. inits < MaxInits /\ inits' = inits + 1 /\ inits \in 1..MaxInits
  BY DEF OwnTypes, NewtInit
<1>1. inits' \in 1..MaxInits
  BY <1>0, BoundsAssumption
<1>2. onOld' \subseteq Tasks
  BY DEF NewtInit
<1>3. pingTask' \in {"none", "current", "old"}
  BY DEF OwnTypes, NewtInit
<1>4. bits' \subseteq Bits /\ old' \subseteq Bits
  BY DEF OwnTypes, NewtInit
<1>5. wiped' \in BOOLEAN /\ stopping' \in {"no", "under way", "done"}
  BY DEF NewtInit
<1>. QED
  BY <1>1, <1>2, <1>3, <1>4, <1>5 DEF OwnTypes, NewtInit, pings

-----------------------------------------------------------------------------
(* What the steps do outside the tunnel.                                   *)

LEMMA SharedEffect ==
    ASSUME Labels, SupHandle, NEW t \in Tasks, t # App,
           AwaitConfigured(t) \/ Configure(t) \/ StartTunnel(t)
    PROVE  /\ UNCHANGED <<evt, held, inits, stopping>>
           /\ sup' <=> pc'[Sup] # "none"
           /\ late \subseteq late'
           /\ t # Sup => sessions' = sessions /\ overlap' = overlap
<1>0. Sup \in Tasks
  BY TaskFacts
<1>1. CASE AwaitConfigured(t)
  <2>1. \/ Goto(t, "wginit") /\ sup' = sup
        \/ Goto(t, "none") /\ sup' = (sup /\ t # Sup)
    BY <1>1 DEF AwaitConfigured, Exit
  <2>2. sup' <=> pc'[Sup] # "none"
    BY <1>0, <1>1, <2>1 DEF AwaitConfigured, Goto, Labels, SupHandle
  <2>. QED
    BY <1>1, <2>2 DEF AwaitConfigured, history, stops
<1>2. CASE Configure(t)
  <2>1. sup' <=> pc'[Sup] # "none"
    BY <1>0, <1>2 DEF Configure, WgInit, WgInitFails, Goto, Labels, SupHandle
  <2>2. late \subseteq late'
    BY <1>2 DEF Configure, SetsUp
  <2>. QED
    BY <1>2, <2>1, <2>2 DEF Configure
<1>3. CASE StartTunnel(t)
  <2>1. sup' <=> pc'[Sup] # "none"
    BY <1>0, <1>3
       DEF StartTunnel, WgConnects, WgConnectRetries, WgConnectFails,
           WgSpawnsPoller, WgSpawnFails, Goto, Labels, SupHandle
  <2>2. late \subseteq late'
    BY <1>3 DEF StartTunnel, SetsUp
  <2>. QED
    BY <1>3, <2>1, <2>2 DEF StartTunnel
<1>. QED
  BY <1>1, <1>2, <1>3

\* The client is created once there is none, and what is set up after a
\* newt_stop is noted.
LEMMA SupEffect ==
    ASSUME Labels, SupHandle, SupStep
    PROVE  /\ UNCHANGED <<evt, wiped, inits, stopping>>
           /\ sup' <=> pc'[Sup] # "none"
           /\ late \subseteq late'
           /\ \/ ws' = "null" <=> ws = "null"
              \/ pc[Sup] = "wsinit" /\ pc'[Sup] = "wsstart" /\ ws = "null" /\ SetsUp("ws")
           /\ \/ ping' = ping
              \/ ping' \in {"live", "late"} /\ SetsUp("ping")
<1> USE DEF evt, held, pings, stops, history, app
<1>0. Sup \in Tasks /\ Sup # App
  BY TaskFacts
<1>1. CASE AwaitConfigured(Sup) \/ Configure(Sup) \/ StartTunnel(Sup)
  BY <1>0, <1>1, SharedEffect
<1>2. CASE SupAuthSucceeds \/ SupAuthFails \/ SupAuthWaits
  BY <1>0, <1>2
     DEF SupAuthSucceeds, SupAuthFails, SupAuthWaits, Send, Goto, Exit, Labels, SupHandle
<1>3. CASE SupWsInit
  BY <1>0, <1>3 DEF SupWsInit, SetsUp, Goto, Exit, Labels, SupHandle
<1>4. CASE SupWsStart
  BY <1>0, <1>4 DEF SupWsStart, Goto, Exit, Labels, SupHandle
<1>5. CASE SupWsConnected \/ SupWsNotConnected
  BY <1>0, <1>5
     DEF SupWsConnected, SupWsNotConnected, PollOrGiveUp, Goto, Exit, Labels, SupHandle
<1>6. CASE SupPingRequest \/ SupRegister
  BY <1>0, <1>6
     DEF SupPingRequest, SupRegister, WaitThen, Send, Goto, Exit, Labels, SupHandle
<1>7. CASE SupHandshaked \/ SupNotHandshaked
  BY <1>0, <1>7
     DEF SupHandshaked, SupNotHandshaked, PollOrGiveUp, Goto, Exit, Labels, SupHandle
<1>8. CASE SupMakesPing
  BY <1>0, <1>8 DEF SupMakesPing, SetsUp, Goto, Labels, SupHandle
<1>9. CASE SupLoadsPing \/ SupOnline \/ SupStops
  BY <1>0, <1>9 DEF SupLoadsPing, SupOnline, SupStops, Goto, Exit, Labels, SupHandle
<1>. QED
  BY <1>1, <1>2, <1>3, <1>4, <1>5, <1>6, <1>7, <1>8, <1>9 DEF SupStep

LEMMA StopTunnelEffect ==
    ASSUME NEW t \in Tasks, NEW next, StopTunnel(t, next)
    PROVE  UNCHANGED <<evt, app, n, history>> /\ pc[t] \in StopPCs
BY DEF StopTunnel, StopPCs

LEMMA ReconnEffect ==
    ASSUME Labels, SupHandle, NEW r \in Reconns, ReconnStep(r)
    PROVE  /\ UNCHANGED <<old, held, inits, sessions, stopping>>
           /\ sup' <=> pc'[Sup] # "none"
           /\ late \subseteq late'
           /\ bits' = bits \/ bits' = bits \ {"WG_CONFIGURED"}
<1> USE DEF evt, held, pings, stops, history, app
<1>0. r \in Tasks /\ r # App /\ Sup \in Tasks /\ Sup # r /\ pc'[Sup] = pc[Sup]
  BY TaskFacts, ReconnMoves
<1>1. CASE AwaitConfigured(r) \/ Configure(r) \/ StartTunnel(r)
  BY <1>0, <1>1, SharedEffect
<1>2. CASE StopTunnel(r, "ping")
  BY <1>0, <1>2, StopTunnelEffect DEF SupHandle
<1>3. CASE ReconnClearsBits(r)
  BY <1>0, <1>3 DEF ReconnClearsBits, SupHandle
<1>4. CASE ReconnPingRequest(r) \/ ReconnRegister(r)
  BY <1>0, <1>4
     DEF ReconnPingRequest, ReconnRegister, WaitThen, Send, Exit, SupHandle
<1>5. CASE ReconnHandshaked(r) \/ ReconnNotHandshaked(r)
  BY <1>0, <1>5
     DEF ReconnHandshaked, ReconnNotHandshaked, PollOrGiveUp, Exit, SupHandle
<1>. QED
  BY <1>1, <1>2, <1>3, <1>4, <1>5 DEF ReconnStep

\* A message arrives only while there is a client; it may bring a task to life.
LEMMA WorkerEffect ==
    ASSUME Labels, OnWorker
    PROVE  /\ UNCHANGED <<old, app, n, history>> /\ OffTunnel
           /\ bits \subseteq bits' /\ ws = "started"
           /\ \/ UNCHANGED pc
              \/ \E r \in Reconns : pc[r] = "none" /\ Goto(r, "clearbits")
BY DEF OnWorker, CbWgConnect, CbWgTerminate, CbWgReconnect, OnMessage

\* newt_stop after its first step.
LEMMA InStopEffect ==
    ASSUME Labels, InNewtStop
    PROVE  /\ UNCHANGED <<evt, sup, pingTask, inits, sessions, late>>
           /\ pc[App] # "none"
           /\ pc'[App] = "none" => pc[App] = "wipe" /\ stopping' = "done" /\ wiped'
           /\ pc'[App] # "none" => stopping' = stopping /\ wiped' = wiped
           /\ ws' # ws => ws' = "null" /\ pc[App] = "wsstop"
           /\ pc[App] = "wsstop" => ws' = "null"
           /\ pc'[App] # "wsstop"
           /\ ping' # ping => (ping' = "deleted" /\ pc'[App] = "forget") \/ ping' = "null"
           /\ pc'[App] = "wipe" => ping' = "null"
           /\ pc[App] = "forget" => ping' = "null"
           /\ pc[App] = "wipe" => pc'[App] = "none"
<1> USE DEF evt, held, pings, stops, history, app, Labels, Goto
<1>0. App \in Tasks
  BY TaskFacts
<1>1. CASE StopTunnel(App, "pingstop")
  <2>1. pc'[App] \in StopPCs \cup {"pingstop"} /\ pc[App] \in StopPCs
    BY <1>0, <1>1
       DEF StopTunnel, StopSignals, StopTakes, StopTakeExpires, StopDeletesSem,
           StopClearsFlag, StopDisconnects, StopCallFails, StopReportsDown, StopPCs
  <2>2. UNCHANGED <<evt, app, n, history>>
    BY <1>0, <1>1, StopTunnelEffect
  <2>. QED
    BY <2>1, <2>2 DEF StopPCs
<1>2. CASE NewtStopWs \/ NewtStopWsReturns
  BY <1>0, <1>2 DEF NewtStopWs, NewtStopWsReturns
<1>3. CASE NewtStopPing
  BY <1>0, <1>3 DEF NewtStopPing
<1>4. CASE NewtStopForgetsPing \/ NewtStopWipes
  BY <1>0, <1>4 DEF NewtStopForgetsPing, NewtStopWipes
<1>. QED
  BY <1>1, <1>2, <1>3, <1>4 DEF InNewtStop

LEMMA PollEffect ==
    ASSUME NEW p \in Pollers, Poll(p)
    PROVE  UNCHANGED <<pc, evt, app, n, history, tries, expired>>
BY DEF Poll, PollerStep, PollerStops, PollerGoesOn, PollerAsks, PollerReportsUp

LEMMA PingTaskEffect ==
    ASSUME PingTaskEnds \/ PingTaskTurns
    PROVE  UNCHANGED <<pc, evt, ws, ping, toStart, wiped, sup, n, history>> /\ OffTunnel
BY DEF PingTaskEnds, PingTaskTurns, pings

-----------------------------------------------------------------------------
(* Handles and bits.                                                       *)

\* A task that moves has left its wait; the others have not moved.
LEMMA WaitersStay ==
    ASSUME Waiting, OwnTypes, NEW t \in Tasks, Runs(t),
           \A u \in Tasks : u # t => pc'[u] = pc[u]
    PROVE  Waiting'
BY DEF OwnTypes, Runs, Waiting, Waits

LEMMA SupKeepsHandles ==
    ASSUME Handles, Labels, OwnTypes, SupStep, Runs(Sup) PROVE Handles'
<1>0. Sup \in Tasks /\ App \in Tasks /\ Sup # App /\ pc'[App] = pc[App]
  BY TaskFacts, SupMoves
<1>1. Waiting'
  BY <1>0, WaitersStay, SupMoves DEF Handles, Waiting
<1>2. SupHandle'
  BY SupEffect DEF Handles, SupHandle
<1>3. StopUnderWay' /\ StopSet' /\ NoClientNoBit'
  <2>1. /\ UNCHANGED <<bits, wiped, stopping>>
        /\ ws' = "null" => ws = "null"
    BY SupEffect DEF Handles, evt, SetsUp
  <2>. QED
    BY <1>0, <2>1 DEF Handles, StopUnderWay, StopSet, NoClientNoBit
<1>4. DeletedIsForgotten'
  BY <1>0, SupEffect DEF Handles, DeletedIsForgotten
<1>. QED
  BY <1>1, <1>2, <1>3, <1>4 DEF Handles

LEMMA ReconnKeepsHandles ==
    ASSUME Handles, Labels, OwnTypes, NEW r \in Reconns, ReconnStep(r), Runs(r)
    PROVE  Handles'
<1>0. /\ Sup \in Tasks /\ App \in Tasks /\ r \in Tasks
      /\ pc'[App] = pc[App] /\ pc'[Sup] = pc[Sup]
  BY TaskFacts, ReconnMoves
<1>1. Waiting'
  BY <1>0, WaitersStay, ReconnMoves DEF Handles, Waiting
<1>2. SupHandle'
  BY ReconnEffect DEF Handles, SupHandle
<1>3. StopUnderWay' /\ StopSet' /\ NoClientNoBit' /\ DeletedIsForgotten'
  BY <1>0, ReconnEffect
     DEF Handles, StopUnderWay, StopSet, NoClientNoBit, DeletedIsForgotten, held, pings
<1>. QED
  BY <1>1, <1>2, <1>3 DEF Handles

LEMMA AppKeepsHandles ==
    ASSUME Handles, Labels, OwnTypes, InApp, UNCHANGED onOld PROVE Handles'
<1>0. Sup \in Tasks /\ App \in Tasks /\ Sup # App /\ App \notin Reconns
  BY TaskFacts
<1>1. App \notin onOld
  BY DEF Handles, Waiting, Waits, Labels, AppPCs, StopPCs
<1>2. CASE NewtStart
  <2>1. Sup \notin onOld
    BY <1>2 DEF NewtStart, Handles, SupHandle, Waiting, Waits
  <2>2. Waiting'
    BY <1>0, <1>2, <2>1
       DEF NewtStart, Handles, Waiting, Waits, Goto, Labels, OwnTypes
  <2>3. SupHandle'
    BY <1>0, <1>2 DEF NewtStart, SupHandle, Goto, Labels
  <2>4. StopUnderWay' /\ StopSet' /\ NoClientNoBit' /\ DeletedIsForgotten'
    BY <1>0, <1>2
       DEF NewtStart, Handles, StopUnderWay, StopSet, NoClientNoBit,
           DeletedIsForgotten, Goto, Labels, evt, held, pings
  <2>. QED
    BY <2>2, <2>3, <2>4 DEF Handles
<1>3. CASE NewtStop
  <2>1. Waiting'
    BY <1>0, <1>1, <1>3 DEF NewtStop, Handles, Waiting, Waits, Goto, Labels, OwnTypes
  <2>2. SupHandle'
    BY <1>0, <1>3 DEF NewtStop, Handles, SupHandle, Goto, Labels, app
  <2>3. StopUnderWay' /\ StopSet' /\ NoClientNoBit' /\ DeletedIsForgotten'
    BY <1>0, <1>3
       DEF NewtStop, Handles, StopUnderWay, StopSet, NoClientNoBit,
           DeletedIsForgotten, Goto, Labels, app, held, pings
  <2>. QED
    BY <2>1, <2>2, <2>3 DEF Handles
<1>4. CASE InNewtStop
  <2>1. Waiting'
    BY <1>0, <1>1, <1>4, InStopMoves DEF Handles, Waiting, Waits, Labels, OwnTypes
  <2>2. SupHandle'
    BY <1>0, <1>4, InStopMoves, InStopEffect DEF Handles, SupHandle
  <2>3. StopUnderWay' /\ StopSet'
    BY <1>0, <1>4, InStopEffect DEF Handles, StopUnderWay, StopSet, evt
  <2>4. NoClientNoBit'
    BY <1>0, <1>4, InStopEffect DEF Handles, StopSet, NoClientNoBit, evt
  <2>5. DeletedIsForgotten'
    BY <1>0, <1>4, InStopEffect DEF Handles, DeletedIsForgotten
  <2>. QED
    BY <2>1, <2>2, <2>3, <2>4, <2>5 DEF Handles
<1>. QED
  BY <1>2, <1>3, <1>4 DEF InApp

LEMMA NewtInitKeepsHandles ==
    ASSUME Handles, Labels, OwnTypes, NewtInit PROVE Handles'
<1>1. Waiting'
  BY DEF NewtInit, Waiting, Waits
<1>2. SupHandle'
  BY DEF NewtInit, Handles, SupHandle
<1>3. StopUnderWay' /\ StopSet' /\ NoClientNoBit' /\ DeletedIsForgotten'
  BY DEF NewtInit, Handles, StopUnderWay, StopSet, NoClientNoBit, DeletedIsForgotten,
         pings
<1>. QED
  BY <1>1, <1>2, <1>3 DEF Handles

LEMMA OthersKeepHandles ==
    ASSUME Handles, Labels, OwnTypes, UNCHANGED onOld,
           OnWorker \/ PingTaskEnds \/ PingTaskTurns \/ \E p \in Pollers : Poll(p)
    PROVE  Handles'
<1>0. Sup \in Tasks /\ App \in Tasks /\ Sup \notin Reconns /\ App \notin Reconns
  BY TaskFacts
<1>1. CASE UNCHANGED pc
  <2>1. UNCHANGED <<old, ws, ping, wiped, sup, history>>
    BY <1>1, WorkerEffect, PingTaskEffect, PollEffect DEF app, held, pings, evt
  <2>2. bits' = bits \/ (bits \subseteq bits' /\ ws = "started")
    BY WorkerEffect, PingTaskEffect, PollEffect DEF evt
  <2>3. Waiting'
    BY <1>1 DEF Handles, Waiting, Waits
  <2>4. SupHandle'
    BY <1>1, <2>1 DEF Handles, SupHandle
  <2>. QED
    BY <1>1, <2>1, <2>2, <2>3, <2>4
       DEF Handles, StopUnderWay, StopSet, NoClientNoBit, DeletedIsForgotten,
           history, stops
<1>2. ASSUME NEW r \in Reconns, pc[r] = "none", Goto(r, "clearbits"), OnWorker
      PROVE  Handles'
  <2>1. UNCHANGED <<old, app, history>> /\ bits \subseteq bits' /\ ws = "started"
    BY <1>2, WorkerEffect
  <2>2. r \notin onOld
    BY <1>2 DEF Handles, Waiting, Waits
  <2>3. Waiting'
    BY <1>2, <2>2, TaskFacts DEF Handles, Waiting, Waits, Goto, Labels, OwnTypes
  <2>4. pc'[Sup] = pc[Sup] /\ pc'[App] = pc[App]
    BY <1>0, <1>2 DEF Goto, Labels
  <2>5. SupHandle'
    BY <2>1, <2>4 DEF Handles, SupHandle, app
  <2>. QED
    BY <2>1, <2>3, <2>4, <2>5
       DEF Handles, StopUnderWay, StopSet, NoClientNoBit, DeletedIsForgotten,
           history, stops, app, held, pings
<1>. QED
  BY <1>1, <1>2, WorkerEffect, PingTaskEffect, PollEffect

-----------------------------------------------------------------------------
(* Where a task comes from.                                                *)

\* The way from newt_wg_init to the poll task, for either task.
LEMMA SharedEdges ==
    ASSUME Labels, NEW t \in Tasks,
           AwaitConfigured(t) \/ Configure(t) \/ StartTunnel(t)
    PROVE  /\ pc'[t] \in {"wginit", "connect", "spawn", "poll", "none"}
           /\ pc'[t] = "wginit" => /\ AwaitConfigured(t) /\ pc[t] = "await"
                                   /\ "WG_CONFIGURED" \in Seen(t)
                                   /\ "STOP" \notin Seen(t)
           /\ pc'[t] = "connect" => pc[t] \in {"wginit", "connect"}
           /\ pc'[t] = "spawn" => pc[t] = "connect"
           /\ pc[t] = "wginit" <=> Configure(t)
           /\ pc[t] \in StartPCs <=> StartTunnel(t)
<1> USE DEF Labels, Goto, Exit, StartPCs
<1>1. CASE AwaitConfigured(t)
  <2>1. \/ Goto(t, "none")
        \/ /\ Goto(t, "wginit")
           /\ "WG_CONFIGURED" \in Seen(t) /\ "STOP" \notin Seen(t)
    BY <1>1 DEF AwaitConfigured
  <2>2. pc[t] = "await"
    BY <1>1 DEF AwaitConfigured
  <2>3. ~Configure(t) /\ ~StartTunnel(t)
    BY <2>2 DEF Configure, StartTunnel
  <2>. QED
    BY <1>1, <2>1, <2>2, <2>3
<1>2. CASE Configure(t)
  <2>1. Goto(t, "connect") \/ Goto(t, "none")
    BY <1>2 DEF Configure, WgInit, WgInitFails
  <2>2. pc[t] = "wginit"
    BY <1>2 DEF Configure
  <2>. QED
    BY <1>2, <2>1, <2>2 DEF StartTunnel
<1>3. CASE StartTunnel(t)
  <2>1. \/ pc[t] = "connect" /\ pc'[t] \in {"connect", "spawn", "none"}
        \/ pc[t] = "spawn" /\ pc'[t] \in {"poll", "none"}
    BY <1>3
       DEF StartTunnel, WgConnects, WgConnectRetries, WgConnectFails,
           WgSpawnsPoller, WgSpawnFails
  <2>. QED
    BY <1>3, <2>1 DEF Configure
<1>. QED
  BY <1>1, <1>2, <1>3

LEMMA SupEdges ==
    ASSUME Labels, SupStep
    PROVE  /\ pc'[Sup] = "wsstart" => /\ pc[Sup] = "wsinit" /\ ws = "null"
                                      /\ ws' = "created"
           /\ pc'[Sup] = "wswait" =>
                 \/ pc[Sup] = "wswait" /\ "STOP" \notin Seen(Sup)
                 \/ pc[Sup] = "wsstart" /\ ws # "null"
           /\ pc'[Sup] = "ping" => /\ pc[Sup] = "wswait" /\ ws = "started"
                                   /\ WaitedOn(Sup)
           /\ pc'[Sup] = "register" => pc[Sup] = "ping" /\ "STOP" \notin Seen(Sup)
           /\ pc'[Sup] = "await" => pc[Sup] = "register"
           /\ pc'[Sup] = "wginit" => /\ pc[Sup] = "await"
                                     /\ "WG_CONFIGURED" \in Seen(Sup)
                                     /\ "STOP" \notin Seen(Sup)
           /\ pc'[Sup] = "connect" => pc[Sup] \in {"wginit", "connect"}
           /\ pc'[Sup] = "spawn" => pc[Sup] = "connect"
           /\ pc[Sup] = "wginit" <=> Configure(Sup)
           /\ pc[Sup] \in StartPCs <=> StartTunnel(Sup)
           /\ pc[Sup] # "wginit" => sessions' = sessions /\ overlap' = overlap
           /\ pc[Sup] = "wginit" => sessions' = sessions + 1 /\ EntersSection(Sup)
<1> USE DEF Labels, Goto, Exit, Send, WaitThen, PollOrGiveUp, Counts, history
<1>0. Sup \in Tasks
  BY TaskFacts
<1>1. CASE AwaitConfigured(Sup) \/ Configure(Sup) \/ StartTunnel(Sup)
  <2>1. pc[Sup] # "wginit" => sessions' = sessions /\ overlap' = overlap
    BY <1>1 DEF AwaitConfigured, Configure, StartTunnel
  <2>2. pc[Sup] = "wginit" => Configure(Sup)
    BY <1>0, <1>1, SharedEdges
  <2>3. pc[Sup] = "wginit" => sessions' = sessions + 1 /\ EntersSection(Sup)
    BY <2>2, Zenon DEF Configure
  <2>. QED
    BY <1>0, <1>1, <2>1, <2>3, SharedEdges
<1>2. CASE ~(AwaitConfigured(Sup) \/ Configure(Sup) \/ StartTunnel(Sup))
  <2>1. CASE SupAuthSucceeds \/ SupAuthFails \/ SupAuthWaits
    BY <1>0, <1>2, <2>1
       DEF SupAuthSucceeds, SupAuthFails, SupAuthWaits, StartPCs
  <2>2. CASE SupWsInit \/ SupWsStart
    BY <1>0, <1>2, <2>2 DEF SupWsInit, SupWsStart, StartPCs
  <2>3. CASE SupWsConnected \/ SupWsNotConnected
    BY <1>0, <1>2, <2>3 DEF SupWsConnected, SupWsNotConnected, StartPCs
  <2>4. CASE SupPingRequest \/ SupRegister
    BY <1>0, <1>2, <2>4 DEF SupPingRequest, SupRegister, StartPCs
  <2>5. CASE SupHandshaked \/ SupNotHandshaked
    BY <1>0, <1>2, <2>5 DEF SupHandshaked, SupNotHandshaked, StartPCs
  <2>6. CASE SupMakesPing \/ SupLoadsPing \/ SupOnline \/ SupStops
    BY <1>0, <1>2, <2>6 DEF SupMakesPing, SupLoadsPing, SupOnline, SupStops, StartPCs
  <2>. QED
    BY <1>2, <2>1, <2>2, <2>3, <2>4, <2>5, <2>6 DEF SupStep
<1>. QED
  BY <1>1, <1>2

-----------------------------------------------------------------------------
(* The sessions a newt_init allows.                                        *)

LEMMA CountedSessions == OwnTypes => sessions \in Nat /\ inits \in Nat
<1>1. ASSUME inits \in 1..MaxInits PROVE inits \in Nat
  BY <1>1, BoundsAssumption
<1>. QED
  BY <1>1, Zenon DEF OwnTypes

LEMMA SessionsStay ==
    ASSUME OwnTypes, SessionsLeft, UNCHANGED <<sessions, inits>>,
           Passing' => Passing, Unused' => Unused
    PROVE  SessionsLeft'
<1>1. sessions \in Nat /\ inits \in Nat
  BY CountedSessions
<1>. QED
  BY <1>1 DEF SessionsLeft, One

LEMMA SupKeepsSessions ==
    ASSUME OwnTypes, Labels, Handles, SessionsLeft, SupStep, Runs(Sup)
    PROVE  SessionsLeft'
<1>0. /\ sessions \in Nat /\ inits \in Nat
      /\ Sup \in Tasks /\ pc[Sup] \in SupPCs /\ pc'[Sup] \in SupPCs
  BY CountedSessions, TaskFacts, SupLabelled DEF Labels
<1>1. Sup \notin onOld' /\ Seen(Sup)' = bits' /\ bits' = bits /\ inits' = inits
  BY SupEffect DEF Runs, Seen, Handles, evt
<1>2. pc[Sup] \notin {"authwait", "wswait", "ping", "await", "run", "poll"}
          => Seen(Sup) = bits
  BY <1>0 DEF Handles, Waiting, Waits, Seen, SupPCs, StartPCs
<1>3. ws' # "null" \/ "STOP" \in bits => ~Unused'
  BY <1>1 DEF Unused
<1>4. CASE pc'[Sup] = "wsstart"
  <2>1. ws = "null" /\ ws' # "null" /\ pc[Sup] = "wsinit"
    BY <1>4, SupEdges
  <2>2. ~Unused' /\ ~Passing
    BY <1>3, <2>1 DEF Passing
  <2>3. Passing' => Unused
    BY <1>1, <1>4, <2>1 DEF Passing, Unused
  <2>4. sessions' = sessions
    BY <2>1, SupEdges
  <2>. QED
    BY <1>0, <1>1, <2>2, <2>3, <2>4 DEF SessionsLeft, One
<1>5. CASE pc'[Sup] # "wsstart"
  <2>1. ws' = "null" <=> ws = "null"
    BY <1>5, SupEffect DEF Handles
  <2>2. Unused' <=> Unused
    BY <1>1, <2>1 DEF Unused
  <2>3. Passing' => Passing
    <3>1. SUFFICES ASSUME Passing' PROVE Passing
      OBVIOUS
    <3>2. CASE pc'[Sup] = "wginit"
      <4>1. /\ pc[Sup] = "await" /\ "STOP" \notin Seen(Sup)
            /\ "WG_CONFIGURED" \in Seen(Sup)
        BY <3>2, SupEdges
      <4>. QED
        BY <4>1 DEF Passing
    <3>3. CASE pc'[Sup] # "wginit"
      <4>1. /\ pc'[Sup] \in {"wswait", "ping", "register", "await"}
            /\ "STOP" \notin bits
            /\ ws' # "null" \/ "WG_CONFIGURED" \in bits
        BY <1>1, <1>5, <3>1, <3>3 DEF Passing
      <4>2. ws # "null"
        BY <2>1, <4>1 DEF Handles, NoClientNoBit
      <4>3. pc[Sup] \in {"wsstart", "wswait", "ping", "register"}
        BY <4>1, SupEdges
      <4>4. "STOP" \notin Seen(Sup)
        <5>1. CASE pc[Sup] \in {"wsstart", "register"}
          BY <1>2, <4>1, <5>1
        <5>2. CASE pc[Sup] = "ping"
          BY <4>1, <5>2, SupEdges
        <5>3. CASE pc[Sup] = "wswait"
          BY <4>1, <5>3, SupEdges DEF WaitedOn, Seen
        <5>. QED
          BY <4>3, <5>1, <5>2, <5>3
      <4>. QED
        BY <4>2, <4>3, <4>4 DEF Passing
    <3>. QED
      BY <3>2, <3>3
  <2>4. CASE pc[Sup] # "wginit"
    <3>1. sessions' = sessions
      BY <2>4, SupEdges
    <3>. QED
      BY <1>1, <2>2, <2>3, <3>1, SessionsStay
  <2>5. CASE pc[Sup] = "wginit"
    <3>1. sessions' = sessions + 1 /\ Passing
      BY <2>5, SupEdges DEF Passing
    <3>2. ~Passing'
      BY <1>0, <2>5, SupEdges, SharedEdges DEF Passing
    <3>. QED
      BY <1>0, <1>1, <2>2, <3>1, <3>2 DEF SessionsLeft, One
  <2>. QED
    BY <2>4, <2>5
<1>. QED
  BY <1>4, <1>5

LEMMA NewtInitKeepsSessions ==
    ASSUME OwnTypes, Labels, Handles, SessionsLeft, NewtInit
    PROVE  SessionsLeft'
<1>0. sessions \in Nat /\ inits \in Nat
  BY CountedSessions
<1>1. /\ sessions' = sessions /\ inits' = inits + 1
      /\ ws' = ws /\ pc' = pc /\ bits' = {} /\ old' = bits
  BY DEF NewtInit
<1>2. CASE ws = "null"
  <2>1. "STOP" \in bits \/ "WG_CONFIGURED" \notin bits
    BY <1>2 DEF Handles, NoClientNoBit
  <2>2. Passing' => pc[Sup] = "wginit"
    BY <1>1, <1>2, <2>1 DEF Passing, Seen
  <2>3. Passing' => Passing
    BY <2>2 DEF Passing
  <2>. QED
    BY <1>0, <1>1, <2>3 DEF SessionsLeft, One
<1>3. CASE ws # "null"
  <2>1. ~Unused'
    BY <1>1, <1>3 DEF Unused
  <2>. QED
    BY <1>0, <1>1, <2>1 DEF SessionsLeft, One
<1>. QED
  BY <1>2, <1>3

LEMMA AppKeepsSessions ==
    ASSUME OwnTypes, Labels, Handles, SessionsLeft, UNCHANGED onOld,
           OnWorker \/ InApp
    PROVE  SessionsLeft'
<1>0. /\ Sup \in Tasks /\ App \in Tasks /\ Sup # App /\ Sup \notin Reconns
  BY TaskFacts
<1>1. CASE NewtStart
  <2>1. /\ UNCHANGED <<evt, ws, sessions, inits>> /\ pc'[Sup] = "auth"
    BY <1>0, <1>1 DEF NewtStart, Goto, Labels, held, pings
  <2>2. ~Passing' /\ (Unused' => Unused)
    BY <2>1 DEF Passing, Unused, evt
  <2>. QED
    BY <2>1, <2>2, SessionsStay
<1>2. CASE NewtStop
  <2>1. /\ UNCHANGED <<ws, old, sessions, inits>> /\ bits \subseteq bits'
        /\ "STOP" \in bits' /\ pc'[Sup] = pc[Sup]
    BY <1>0, <1>2 DEF NewtStop, Goto, Labels, app, held, pings
  <2>2. ~Unused'
    BY <2>1 DEF Unused
  <2>3. Passing' => Passing
    BY <1>2, <2>1 DEF Passing, Seen, NewtStop
  <2>. QED
    BY <2>1, <2>2, <2>3, SessionsStay
<1>3. CASE InNewtStop
  <2>1. /\ UNCHANGED <<evt, sessions, inits>> /\ pc'[Sup] = pc[Sup]
        /\ (ws' = ws \/ ws' = "null") /\ "STOP" \in bits
    BY <1>0, <1>3, InStopEffect, InStopMoves DEF Handles, StopSet
  <2>2. (Unused' => Unused) /\ (Passing' => Passing)
    BY <2>1 DEF Unused, Passing, Seen, evt
  <2>. QED
    BY <2>1, <2>2, SessionsStay
<1>4. CASE OnWorker
  <2>1. /\ UNCHANGED <<old, ws, sessions, inits>> /\ bits \subseteq bits'
        /\ ws = "started"
    BY <1>4, WorkerEffect DEF app, held, pings, history
  <2>2. pc'[Sup] = pc[Sup]
    BY <1>0, <1>4, WorkerEffect DEF Goto, Labels
  <2>3. (Unused' => Unused) /\ (Passing' => Passing)
    BY <2>1, <2>2 DEF Unused, Passing, Seen
  <2>. QED
    BY <2>1, <2>3, SessionsStay
<1>. QED
  BY <1>1, <1>2, <1>3, <1>4 DEF InApp

LEMMA OthersKeepSessions ==
    ASSUME OwnTypes, Labels, Handles, SessionsLeft,
           \/ \E r \in Reconns : ReconnStep(r) /\ Runs(r)
           \/ UNCHANGED onOld /\ \E p \in Pollers : Poll(p)
           \/ UNCHANGED onOld /\ (PingTaskEnds \/ PingTaskTurns)
    PROVE  SessionsLeft'
<1>1. ASSUME NEW r \in Reconns, ReconnStep(r), Runs(r) PROVE SessionsLeft'
  <2>1. /\ Sup \in Tasks /\ Sup # r
        /\ UNCHANGED <<old, ws, sessions, inits>> /\ pc'[Sup] = pc[Sup]
        /\ bits' \subseteq bits /\ ("STOP" \in bits => "STOP" \in bits')
    BY <1>1, TaskFacts, ReconnEffect, ReconnMoves DEF Handles, held, pings
  <2>2. Sup \in onOld' <=> Sup \in onOld
    BY <1>1, <2>1 DEF Runs
  <2>3. (Unused' => Unused) /\ (Passing' => Passing)
    BY <2>1, <2>2 DEF Unused, Passing, Seen
  <2>. QED
    BY <2>1, <2>3, SessionsStay
<1>2. CASE /\ UNCHANGED onOld
           /\ PingTaskEnds \/ PingTaskTurns \/ \E p \in Pollers : Poll(p)
  <2>1. UNCHANGED <<pc, bits, old, ws, sessions, inits>>
    BY <1>2, PollEffect, PingTaskEffect DEF evt, app, held, pings, history
  <2>2. (Unused' => Unused) /\ (Passing' => Passing)
    BY <1>2, <2>1 DEF Unused, Passing, Seen
  <2>. QED
    BY <2>1, <2>2, SessionsStay
<1>. QED
  BY <1>1, <1>2

-----------------------------------------------------------------------------
(* The tunnel sections, and what newt_stop gives back.                     *)

LEMMA StopEdges ==
    ASSUME Labels, NEW t \in Tasks, NEW next, StopTunnel(t, next)
    PROVE  \/ pc[t] = "stop" /\ pc'[t] \in {"take", "delsem"}
           \/ pc[t] = "take" /\ pc'[t] = "delsem"
           \/ pc[t] = "delsem" /\ pc'[t] = "clear"
           \/ pc[t] = "clear" /\ pc'[t] = "disc"
           \/ pc[t] = "disc" /\ pc'[t] = "down"
           \/ pc[t] = "down" /\ pc'[t] = next
BY DEF StopTunnel, StopSignals, StopTakes, StopTakeExpires, StopDeletesSem,
       StopClearsFlag, StopDisconnects, StopCallFails, StopReportsDown, Goto, Labels

LEMMA ReconnEdges ==
    ASSUME Labels, NEW r \in Reconns, ReconnStep(r)
    PROVE  /\ pc[r] # "none" /\ pc'[r] # "clearbits"
           /\ pc[r] = "clearbits" => ReconnClearsBits(r) /\ EntersSection(r)
           /\ pc[r] # "clearbits" => overlap' = overlap
           /\ pc[r] \in StopPCs <=> StopTunnel(r, "ping")
           /\ pc[r] = "wginit" <=> Configure(r)
           /\ pc[r] \in StartPCs <=> StartTunnel(r)
           /\ pc[r] = "poll" => pc'[r] \in {"poll", "none"}
           /\ pc'[r] \in StopPCs => pc[r] \in StopPCs \cup {"clearbits"}
           /\ pc'[r] = "stop" => pc[r] = "clearbits"
           /\ pc'[r] = "down" => pc[r] = "disc"
           /\ pc'[r] = "ping" => pc[r] = "down"
           /\ pc'[r] = "register" => pc[r] = "ping" /\ "STOP" \notin Seen(r)
           /\ pc'[r] = "await" => pc[r] = "register"
           /\ pc'[r] = "wginit" => pc[r] = "await"
           /\ pc'[r] = "connect" => pc[r] \in {"wginit", "connect"}
           /\ pc'[r] = "spawn" => pc[r] = "connect"
<1> USE DEF Labels, Goto, Exit, Send, WaitThen, PollOrGiveUp, StopPCs, StartPCs,
            history
<1>0. r \in Tasks /\ r # Sup
  BY TaskFacts
<1>1. CASE AwaitConfigured(r) \/ Configure(r) \/ StartTunnel(r)
  <2>1. /\ overlap' = overlap
        /\ pc[r] \in {"await", "wginit", "connect", "spawn"}
    BY <1>0, <1>1 DEF AwaitConfigured, Configure, StartTunnel
  <2>2. ~StopTunnel(r, "ping")
    BY <2>1 DEF StopTunnel
  <2>. QED
    BY <1>0, <1>1, <2>1, <2>2, SharedEdges
<1>2. CASE StopTunnel(r, "ping")
  <2>1. overlap' = overlap
    BY <1>2 DEF StopTunnel
  <2>2. pc[r] \in StopPCs
    BY <1>0, <1>2, StopTunnelEffect
  <2>. QED
    BY <1>0, <1>2, <2>1, <2>2, StopEdges DEF Configure, StartTunnel
<1>3. CASE ReconnClearsBits(r)
  BY <1>0, <1>3 DEF ReconnClearsBits, StopTunnel, Configure, StartTunnel
<1>4. CASE ReconnPingRequest(r) \/ ReconnRegister(r)
  BY <1>0, <1>4
     DEF ReconnPingRequest, ReconnRegister, StopTunnel, Configure, StartTunnel
<1>5. CASE ReconnHandshaked(r) \/ ReconnNotHandshaked(r)
  BY <1>0, <1>5
     DEF ReconnHandshaked, ReconnNotHandshaked, StopTunnel, Configure, StartTunnel
<1>. QED
  BY <1>1, <1>2, <1>3, <1>4, <1>5 DEF ReconnStep

LEMMA ApartStays ==
    ASSUME Apart, NEW t \in Tasks, \A u \in Tasks : u # t => pc'[u] = pc[u],
           \/ EntersSection(t)
           \/ overlap' = overlap /\ (InSection(t)' => InSection(t))
    PROVE  Apart'
<1>1. \A u \in Tasks : u # t => (InSection(u)' <=> InSection(u))
  BY DEF InSection
<1>2. CASE EntersSection(t)
  <2>1. overlap' <=> overlap \/ \E u \in Tasks \ {t} : InSection(u)
    BY <1>2, Zenon DEF EntersSection
  <2>. QED
    BY <1>1, <2>1 DEF Apart
<1>3. CASE overlap' = overlap /\ (InSection(t)' => InSection(t))
  BY <1>1, <1>3 DEF Apart
<1>. QED
  BY <1>2, <1>3

LEMMA TasksKeepApart ==
    ASSUME Labels, Apart, SupStep \/ \E r \in Reconns : ReconnStep(r)
    PROVE  Apart'
<1>1. CASE SupStep
  <2>0. Sup \in Tasks /\ Sup \notin Reconns /\ pc'[Sup] \in SupPCs
    BY <1>1, TaskFacts, SupLabelled DEF Labels
  <2>1. CASE pc[Sup] = "wginit"
    BY <1>1, <2>0, <2>1, SupEdges, SupMoves, ApartStays
  <2>2. CASE pc[Sup] # "wginit"
    <3>1. overlap' = overlap
      BY <1>1, <2>2, SupEdges
    <3>2. InSection(Sup)' => InSection(Sup)
      BY <1>1, <2>0, <2>2, SupEdges DEF InSection, SupPCs, StopPCs, StartPCs
    <3>. QED
      BY <1>1, <2>0, <3>1, <3>2, SupMoves, ApartStays
  <2>. QED
    BY <2>1, <2>2
<1>2. ASSUME NEW r \in Reconns, ReconnStep(r) PROVE Apart'
  <2>0. r \in Tasks
    BY TaskFacts
  <2>1. CASE pc[r] = "clearbits"
    BY <1>2, <2>0, <2>1, ReconnEdges, ReconnMoves, ApartStays
  <2>2. CASE pc[r] # "clearbits"
    <3>1. overlap' = overlap
      BY <1>2, <2>2, ReconnEdges
    <3>2. InSection(r)' => InSection(r)
      <4>1. pc[r] \in {"none", "clearbits", "poll"} \/ InSection(r)
        BY DEF Labels, InSection, ReconnPCs
      <4>2. pc[r] = "poll" => ~InSection(r)'
        BY <1>2, ReconnEdges DEF InSection, StopPCs, StartPCs
      <4>. QED
        BY <1>2, <2>2, <4>1, <4>2, ReconnEdges
    <3>. QED
      BY <1>2, <2>0, <3>1, <3>2, ReconnMoves, ApartStays
  <2>. QED
    BY <2>1, <2>2
<1>. QED
  BY <1>1, <1>2

LEMMA OthersKeepApart ==
    ASSUME Labels, Apart, OwnTypes, SupHandle,
           \/ OnWorker \/ InApp \/ NewtInit
           \/ PingTaskEnds \/ PingTaskTurns \/ \E p \in Pollers : Poll(p)
    PROVE  Apart'
<1> USE DEF InSection, StopPCs, StartPCs
<1>0. /\ Sup \in Tasks /\ App \in Tasks /\ Reconns \subseteq Tasks
      /\ Sup # App /\ Sup \notin Reconns /\ App \notin Reconns
  BY TaskFacts
<1>1. CASE UNCHANGED <<pc, overlap>>
  BY <1>1 DEF Apart
<1>2. CASE OnWorker
  <2>1. overlap' = overlap
    BY <1>2, WorkerEffect DEF history
  <2>2. ASSUME NEW r \in Reconns, pc[r] = "none", Goto(r, "clearbits") PROVE Apart'
    <3>1. pc'[r] = "clearbits" /\ \A u \in Tasks : u # r => pc'[u] = pc[u]
      BY <1>0, <2>2 DEF Goto, Labels
    <3>. QED
      BY <1>0, <2>1, <3>1, ApartStays
  <2>. QED
    BY <1>1, <1>2, <2>1, <2>2, WorkerEffect
<1>3. CASE NewtStart
  <2>1. overlap' = overlap /\ pc'[Sup] = "auth" /\ \A u \in Tasks : u # Sup => pc'[u] = pc[u]
    BY <1>0, <1>3 DEF NewtStart, Goto, Labels
  <2>. QED
    BY <1>0, <2>1, ApartStays
<1>4. CASE NewtStop
  <2>1. overlap' = overlap /\ pc'[App] = "wsstop" /\ \A u \in Tasks : u # App => pc'[u] = pc[u]
    BY <1>0, <1>4 DEF NewtStop, Goto, Labels
  <2>. QED
    BY <1>0, <2>1, ApartStays
<1>5. CASE InNewtStop
  <2>1. \A u \in Tasks : u # App => pc'[u] = pc[u]
    BY <1>5, InStopMoves
  <2>2. \/ EntersSection(App)
        \/ overlap' = overlap /\ (InSection(App)' => InSection(App))
    <3>1. CASE StopTunnel(App, "pingstop")
      BY <1>0, <3>1, StopTunnelEffect DEF history
    <3>2. CASE NewtStopWs \/ NewtStopWsReturns
      BY <1>0, <3>2 DEF NewtStopWs, NewtStopWsReturns, Goto, Labels
    <3>3. CASE NewtStopPing \/ NewtStopForgetsPing \/ NewtStopWipes
      BY <1>0, <3>3
         DEF NewtStopPing, NewtStopForgetsPing, NewtStopWipes, Goto, Labels, history
    <3>. QED
      BY <1>5, <3>1, <3>2, <3>3 DEF InNewtStop
  <2>. QED
    BY <1>0, <2>1, <2>2, ApartStays
<1>6. CASE NewtInit \/ PingTaskEnds \/ PingTaskTurns \/ \E p \in Pollers : Poll(p)
  <2>1. UNCHANGED <<pc, overlap>>
    BY <1>6, PollEffect, PingTaskEffect DEF NewtInit, history
  <2>. QED
    BY <1>1, <2>1
<1>. QED
  BY <1>2, <1>3, <1>4, <1>5, <1>6 DEF InApp

LEMMA TasksKeepGivenBack ==
    ASSUME Labels, Handles, GivenBack, SupStep \/ \E r \in Reconns : ReconnStep(r)
    PROVE  GivenBack'
<1>0. /\ App \in Tasks /\ App # Sup /\ App \notin Reconns /\ Reconns \subseteq Tasks
      /\ SupHandle
  BY TaskFacts DEF Handles
<1>1. CASE SupStep
  <2>1. pc'[App] = pc[App] /\ stopping' = stopping /\ late \subseteq late'
    BY <1>0, <1>1, SupMoves, SupEffect
  <2>2. stopping # "no" /\ (ws = "null" \/ "ws" \in late)
            => ws' = "null" \/ "ws" \in late'
    <3>1. \/ ws' = "null" <=> ws = "null"
          \/ SetsUp("ws")
      BY <1>0, <1>1, SupEffect
    <3>. QED
      BY <2>1, <3>1 DEF SetsUp
  <2>3. stopping # "no" /\ (ping = "null" \/ "ping" \in late)
            => ping' = "null" \/ "ping" \in late'
    <3>1. \/ ping' = ping
          \/ SetsUp("ping")
      BY <1>0, <1>1, SupEffect
    <3>. QED
      BY <2>1, <3>1 DEF SetsUp
  <2>4. pc[App] = "wipe" => stopping # "no"
    BY DEF Handles, StopUnderWay
  <2>. QED
    BY <2>1, <2>2, <2>3, <2>4 DEF GivenBack, AppStopsWs
<1>2. ASSUME NEW r \in Reconns, ReconnStep(r) PROVE GivenBack'
  <2>1. /\ pc'[App] = pc[App] /\ stopping' = stopping /\ late \subseteq late'
        /\ ws' = ws /\ ping' = ping
    BY <1>0, <1>2, ReconnMoves, ReconnEffect DEF held, pings
  <2>. QED
    BY <2>1 DEF GivenBack, AppStopsWs
<1>. QED
  BY <1>1, <1>2

LEMMA OthersKeepGivenBack ==
    ASSUME Labels, Handles, GivenBack,
           \/ OnWorker \/ InApp \/ NewtInit
           \/ PingTaskEnds \/ PingTaskTurns \/ \E p \in Pollers : Poll(p)
    PROVE  GivenBack'
<1>0. /\ App \in Tasks /\ App # Sup /\ App \notin Reconns /\ Sup \in Tasks
  BY TaskFacts
<1>1. CASE OnWorker
  <2>1. UNCHANGED <<ws, ping, stopping, late>> /\ pc'[App] = pc[App]
    BY <1>0, <1>1, WorkerEffect DEF app, held, pings, history, stops, Goto, Labels
  <2>. QED
    BY <2>1 DEF GivenBack, AppStopsWs
<1>2. CASE NewtStart \/ NewtInit
  <2>1. stopping' = "no" /\ pc'[App] = "none"
    BY <1>0, <1>2 DEF NewtStart, NewtInit, Goto, Labels
  <2>. QED
    BY <2>1 DEF GivenBack
<1>3. CASE NewtStop
  <2>1. stopping' = "under way" /\ pc'[App] = "wsstop"
    BY <1>0, <1>3 DEF NewtStop, Goto, Labels
  <2>. QED
    BY <2>1 DEF GivenBack, AppStopsWs
<1>4. CASE InNewtStop
  <2>1. stopping = "under way"
    BY <1>4, InStopEffect DEF Handles, StopUnderWay
  <2>2. ws' = "null" \/ "ws" \in late'
    <3>1. CASE pc[App] = "wsstop"
      BY <1>4, <3>1, InStopEffect
    <3>2. CASE pc[App] # "wsstop"
      BY <1>4, <2>1, <3>2, InStopEffect DEF GivenBack, AppStopsWs
    <3>. QED
      BY <3>1, <3>2
  <2>3. pc'[App] = "wipe" => ping' = "null"
    BY <1>4, InStopEffect
  <2>4. stopping' = "done" => ping' = "null" \/ "ping" \in late'
    <3>1. stopping' = "done" => pc[App] = "wipe" /\ pc'[App] = "none"
      BY <1>4, <2>1, InStopEffect
    <3>2. pc'[App] = "none" /\ pc[App] = "wipe" => ping' = ping \/ ping' = "null"
      BY <1>4, InStopEffect
    <3>3. late' = late
      BY <1>4, InStopEffect
    <3>. QED
      BY <3>1, <3>2, <3>3 DEF GivenBack
  <2>. QED
    BY <2>2, <2>3, <2>4 DEF GivenBack
<1>5. CASE PingTaskEnds \/ PingTaskTurns \/ \E p \in Pollers : Poll(p)
  <2>1. UNCHANGED <<ws, ping, stopping, late, pc>>
    BY <1>5, PollEffect, PingTaskEffect DEF history, stops, app, held, pings
  <2>. QED
    BY <2>1 DEF GivenBack, AppStopsWs
<1>. QED
  BY <1>1, <1>2, <1>3, <1>4, <1>5 DEF InApp

-----------------------------------------------------------------------------
(* ICMP sessions.                                                          *)

\* The supervisor's way to its session and on.
LEMMA SupPingEdges ==
    ASSUME Labels, SupStep
    PROVE  /\ pc'[Sup] \in Early \cup Onward =>
                 \/ pc[Sup] \in Early \cup Onward
                 \/ pc[Sup] = "wsinit" /\ ws = "null" /\ ws' = "created"
           /\ pc'[Sup] \in Onward =>
                 \/ pc[Sup] \in Onward
                 \/ pc[Sup] = "ping" /\ "STOP" \notin Seen(Sup)
           /\ pc[Sup] \in {"pingstart", "pinging"} => pc'[Sup] \in {"pinging", "run"}
           /\ pc[Sup] = "run" => "STOP" \in Seen(Sup)
           /\ ping' # ping =>
                 /\ pc[Sup] = "online" /\ pc'[Sup] = "pingstart" /\ ws' = ws
                 /\ stopping # "no" => ping' = "late"
<1> USE DEF Labels, Goto, Exit, Early, Nearly, Onward, StartPCs
<1>0. Sup \in Tasks /\ Sup # App
  BY TaskFacts
<1>1. CASE AwaitConfigured(Sup) \/ Configure(Sup) \/ StartTunnel(Sup)
  <2>1. pc[Sup] \in {"await", "wginit", "connect", "spawn"}
    BY <1>1 DEF AwaitConfigured, Configure, StartTunnel
  <2>2. ping' = ping
    BY <1>1 DEF AwaitConfigured, Configure, StartTunnel, held, pings
  <2>. QED
    BY <2>1, <2>2
<1>2. CASE SupAuthSucceeds \/ SupAuthFails \/ SupAuthWaits
  BY <1>0, <1>2 DEF SupAuthSucceeds, SupAuthFails, SupAuthWaits, Send, app, held, pings
<1>3. CASE SupWsInit \/ SupWsStart
  BY <1>0, <1>3 DEF SupWsInit, SupWsStart, pings
<1>4. CASE SupWsConnected \/ SupWsNotConnected
  BY <1>0, <1>4 DEF SupWsConnected, SupWsNotConnected, PollOrGiveUp, app, held, pings
<1>5. CASE SupPingRequest \/ SupRegister
  BY <1>0, <1>5 DEF SupPingRequest, SupRegister, WaitThen, Send, app, held, pings
<1>6. CASE SupHandshaked \/ SupNotHandshaked
  BY <1>0, <1>6 DEF SupHandshaked, SupNotHandshaked, PollOrGiveUp, app, held, pings
<1>7. CASE SupMakesPing
  BY <1>0, <1>7 DEF SupMakesPing
<1>8. CASE SupLoadsPing \/ SupOnline \/ SupStops
  BY <1>0, <1>8 DEF SupLoadsPing, SupOnline, SupStops, held, pings
<1>. QED
  BY <1>1, <1>2, <1>3, <1>4, <1>5, <1>6, <1>7, <1>8 DEF SupStep

LEMMA SupKeepsPings ==
    ASSUME Labels, Handles, PingsInOrder, SupStep, Runs(Sup)
    PROVE  PingsInOrder'
<1>0. /\ pc'[App] = pc[App] /\ bits' = bits /\ old' = old /\ stopping' = stopping
      /\ Sup \notin onOld' /\ SupHandle
  BY TaskFacts, SupMoves, SupEffect DEF Handles, Runs, evt
<1>1. ws' = "null" => ws = "null"
  BY <1>0, SupEffect DEF SetsUp
<1>2. ClearedBits'
  BY <1>0, <1>1, SupPingEdges DEF PingsInOrder, ClearedBits
<1>3. CASE ping' = ping
  <2>0. SUFFICES ASSUME ping' = "live", ws' = "null" \/ pc'[Sup] \in Early \cup Onward
                 PROVE  PingFresh'
    BY <1>2, Zenon DEF PingsInOrder, PingFresh
  <2>1. ping = "live"
    BY <1>3, <2>0
  <2>2. ws = "null" \/ pc[Sup] \in Early \cup Onward
    BY <1>1, <2>0, SupPingEdges
  <2>3. CASE pc[App] \in BeforePing /\ "STOP" \in bits
    <3>1. pc[Sup] \notin Onward /\ (pc[Sup] \in Early => Sup \notin onOld)
      BY <2>1, <2>2, <2>3 DEF PingsInOrder, PingFresh
    <3>2. pc'[Sup] \notin Onward
      BY <2>3, <3>1, SupPingEdges DEF Early, Seen
    <3>. QED
      BY <1>0, <2>3, <3>2 DEF PingFresh
  <2>4. CASE ~(pc[App] \in BeforePing /\ "STOP" \in bits)
    <3>1. /\ pc[Sup] \in {"pingstart", "pinging", "run"} /\ "STOP" \notin bits
          /\ Sup \in onOld => "STOP" \notin old
      BY <2>1, <2>2, <2>4 DEF PingsInOrder, PingFresh
    <3>2. pc'[Sup] \in {"pinging", "run"}
      BY <3>1, SupPingEdges DEF Seen
    <3>. QED
      BY <1>0, <3>1, <3>2 DEF PingFresh
  <2>. QED
    BY <2>3, <2>4
<1>4. CASE ping' # ping
  <2>1. /\ pc[Sup] = "online" /\ pc'[Sup] = "pingstart" /\ ws' = ws
        /\ stopping # "no" => ping' = "late"
    BY <1>4, SupPingEdges
  <2>2. stopping = "no" /\ ws = "null" => "STOP" \notin bits
    BY <2>1 DEF PingsInOrder, ClearedBits, Onward
  <2>3. pc'[Sup] \notin Early \cup Onward
    BY <2>1 DEF Early, Onward, Nearly, StartPCs
  <2>. QED
    BY <1>0, <1>2, <2>1, <2>2, <2>3 DEF PingsInOrder, PingFresh
<1>. QED
  BY <1>2, <1>3, <1>4 DEF PingsInOrder

LEMMA ReconnKeepsPings ==
    ASSUME Labels, Handles, PingsInOrder, NEW r \in Reconns, ReconnStep(r), Runs(r)
    PROVE  PingsInOrder'
<1>0. SupHandle /\ Sup # r /\ App # r /\ Sup \in Tasks /\ App \in Tasks
  BY TaskFacts DEF Handles
<1>1. pc'[App] = pc[App] /\ pc'[Sup] = pc[Sup]
  BY <1>0, ReconnMoves
<1>2. UNCHANGED <<old, ws, ping, stopping>> /\ ("STOP" \in bits' <=> "STOP" \in bits)
  BY <1>0, ReconnEffect DEF held, pings
<1>3. Sup \in onOld' <=> Sup \in onOld
  BY <1>0 DEF Runs
<1>. QED
  BY <1>1, <1>2, <1>3 DEF PingsInOrder, PingFresh, ClearedBits

LEMMA OthersKeepPings ==
    ASSUME Labels, PingsInOrder, UNCHANGED onOld,
           OnWorker \/ PingTaskEnds \/ PingTaskTurns \/ \E p \in Pollers : Poll(p)
    PROVE  PingsInOrder'
<1>1. CASE OnWorker
  <2>1. /\ UNCHANGED <<old, ws, ping, stopping>> /\ bits \subseteq bits' /\ ws = "started"
        /\ pc'[App] = pc[App] /\ pc'[Sup] = pc[Sup]
    BY <1>1, WorkerEffect, TaskFacts DEF app, held, pings, history, stops, Goto, Labels
  <2>2. pc[Sup] \in {"pingstart", "pinging", "run"} => pc[Sup] \notin Early \cup Onward
    BY DEF Early, Onward, Nearly, StartPCs
  <2>. QED
    BY <2>1, <2>2 DEF PingsInOrder, PingFresh, ClearedBits
<1>2. CASE ~OnWorker
  <2>1. UNCHANGED <<pc, bits, old, ws, ping, stopping>>
    BY <1>2, PollEffect, PingTaskEffect DEF evt, app, held, pings, history, stops
  <2>. QED
    BY <2>1 DEF PingsInOrder, PingFresh, ClearedBits
<1>. QED
  BY <1>1, <1>2

\* newt_stop on its way: it deletes the session behind the client.
LEMMA InStopPings ==
    ASSUME Labels, InNewtStop
    PROVE  /\ pc[App] \in BeforePing /\ pc'[App] \notin BeforePing => ping' # "live"
           /\ pc[App] = "wsstop" => pc'[App] \in BeforePing
           /\ pc[App] = "forget" => ping' # "live"
<1> USE DEF Labels, Goto, BeforePing, StopPCs
<1>0. App \in Tasks
  BY TaskFacts
<1>1. CASE StopTunnel(App, "pingstop")
  BY <1>0, <1>1
     DEF StopTunnel, StopSignals, StopTakes, StopTakeExpires, StopDeletesSem,
         StopClearsFlag, StopDisconnects, StopCallFails, StopReportsDown
<1>2. CASE NewtStopWs \/ NewtStopWsReturns
  BY <1>0, <1>2 DEF NewtStopWs, NewtStopWsReturns
<1>3. CASE NewtStopPing
  BY <1>0, <1>3 DEF NewtStopPing, pings
<1>4. CASE NewtStopForgetsPing \/ NewtStopWipes
  BY <1>0, <1>4 DEF NewtStopForgetsPing, NewtStopWipes
<1>. QED
  BY <1>1, <1>2, <1>3, <1>4 DEF InNewtStop

LEMMA InStopKeepsPings ==
    ASSUME Labels, Handles, PingsInOrder, InNewtStop, UNCHANGED onOld
    PROVE  PingsInOrder'
<1>0. /\ pc'[Sup] = pc[Sup] /\ UNCHANGED <<bits, old>>
      /\ pc[App] # "none" /\ pc[App] \in AppPCs /\ "STOP" \in bits /\ stopping = "under way"
  BY TaskFacts, InStopMoves, InStopEffect
     DEF evt, Handles, StopSet, StopUnderWay, Labels
<1>1. ClearedBits'
  BY <1>0, InStopEffect DEF ClearedBits
<1>2. SUFFICES ASSUME ping' = "live", ws' = "null" \/ pc[Sup] \in Early \cup Onward
               PROVE  PingFresh'
  BY <1>0, <1>1 DEF PingsInOrder, PingFresh
<1>3. ping = "live"
  BY <1>2, InStopEffect
<1>4. CASE ws = "null" \/ pc[Sup] \in Early \cup Onward
  <2>1. /\ pc[App] \in BeforePing /\ pc[Sup] \notin Onward
        /\ pc[Sup] \in Early => Sup \notin onOld
    BY <1>0, <1>3, <1>4 DEF PingsInOrder, PingFresh
  <2>2. pc'[App] \in BeforePing
    BY <1>2, <2>1, InStopPings
  <2>. QED
    BY <1>0, <2>1, <2>2 DEF PingFresh
<1>5. CASE ~(ws = "null" \/ pc[Sup] \in Early \cup Onward)
  <2>1. pc[App] = "wsstop" /\ pc'[App] \in BeforePing
    BY <1>2, <1>5, InStopEffect, InStopPings
  <2>. QED
    BY <1>0, <1>5, <2>1 DEF PingFresh
<1>. QED
  BY <1>4, <1>5

LEMMA AppKeepsPings ==
    ASSUME Labels, Handles, PingsInOrder,
           (InApp /\ UNCHANGED onOld) \/ NewtInit
    PROVE  PingsInOrder'
<1>0. Sup \in Tasks /\ App \in Tasks /\ Sup # App
  BY TaskFacts
<1>1. pc[App] = "none" => pc[App] \notin BeforePing
  BY DEF BeforePing, StopPCs
<1>2. CASE NewtStart
  <2>1. /\ pc[App] = "none" /\ pc[Sup] = "none" /\ pc'[Sup] = "auth"
        /\ UNCHANGED <<bits, ws, ping>>
    BY <1>0, <1>2 DEF NewtStart, Goto, Labels, Handles, SupHandle, evt, held, pings
  <2>2. "auth" \notin Early \cup Onward
    BY DEF Early, Onward, Nearly, StartPCs
  <2>. QED
    BY <1>1, <2>1, <2>2 DEF PingsInOrder, PingFresh, ClearedBits
<1>3. CASE NewtStop /\ UNCHANGED onOld
  <2>1. /\ pc[App] = "none" /\ pc'[App] = "wsstop" /\ pc'[Sup] = pc[Sup]
        /\ "STOP" \in bits' /\ UNCHANGED <<old, ws, ping>> /\ stopping' = "under way"
    BY <1>0, <1>3 DEF NewtStop, Goto, Labels, app, held, pings
  <2>2. "wsstop" \in BeforePing
    BY DEF BeforePing
  <2>3. pc[Sup] \in {"pingstart", "pinging", "run"} => pc[Sup] \notin Early \cup Onward
    BY DEF Early, Onward, Nearly, StartPCs
  <2>. QED
    BY <1>1, <1>3, <2>1, <2>2, <2>3 DEF PingsInOrder, PingFresh, ClearedBits
<1>4. CASE NewtInit
  <2>1. /\ pc[App] = "none" /\ UNCHANGED <<pc, ws, ping>> /\ bits' = {} /\ old' = bits
    BY <1>4 DEF NewtInit, pings
  <2>. QED
    BY <1>1, <2>1 DEF PingsInOrder, PingFresh, ClearedBits
<1>. QED
  BY <1>2, <1>3, <1>4, InStopKeepsPings DEF InApp

-----------------------------------------------------------------------------
(* What the steps do to the tunnel.                                        *)

LEMMA SupQuiet ==
    ASSUME Labels, SupStep, pc[Sup] \notin {"wginit", "connect", "spawn"}
    PROVE  /\ UNCHANGED <<tunnel, pollerVars, ppc, tries, expired>>
           /\ fault' \in {fault, "ping"}
<1>1. ~Configure(Sup) /\ ~StartTunnel(Sup)
  BY DEF Configure, StartTunnel
<1>2. CASE SupOnline
  BY <1>2 DEF SupOnline
<1>3. CASE ~SupOnline
  <2>1. OffTunnel
    BY <1>1, <1>3
       DEF SupStep, SupAuthSucceeds, SupAuthFails, SupAuthWaits, Send, SupWsInit,
           SupWsStart, SupWsConnected, SupWsNotConnected, PollOrGiveUp,
           SupPingRequest, WaitThen, SupRegister, AwaitConfigured, SupHandshaked,
           SupNotHandshaked, SupMakesPing, SupLoadsPing, SupStops
  <2>. QED
    BY <2>1 DEF OffTunnel
<1>. QED
  BY <1>2, <1>3

LEMMA ReconnQuiet ==
    ASSUME Labels, NEW r \in Reconns, ReconnStep(r),
           pc[r] \notin StopPCs \cup {"wginit", "connect", "spawn"}
    PROVE  OffTunnel
<1>1. ~Configure(r) /\ ~StartTunnel(r) /\ ~StopTunnel(r, "ping")
  BY DEF Configure, StartTunnel, StopTunnel, StopPCs
<1>. QED
  BY <1>1
     DEF ReconnStep, ReconnClearsBits, ReconnPingRequest, WaitThen, ReconnRegister,
         Send, AwaitConfigured, ReconnHandshaked, ReconnNotHandshaked, PollOrGiveUp

LEMMA InStopQuiet ==
    ASSUME Labels, InNewtStop, pc[App] \notin StopPCs
    PROVE  /\ UNCHANGED <<tunnel, pollerVars, ppc, tries, expired>>
           /\ \/ fault' = fault
              \/ fault' = "queue" /\ pc[App] = "wsdrain" /\ ws # "null"
<1>1. ~StopTunnel(App, "pingstop")
  BY TaskFacts, StopTunnelEffect
<1>. QED
  BY <1>1 DEF InNewtStop, NewtStopWs, NewtStopWsReturns, NewtStopPing,
              NewtStopForgetsPing, NewtStopWipes, OffTunnel

LEMMA InStopEdges ==
    ASSUME Labels, InNewtStop
    PROVE  /\ pc[App] \in StopPCs <=> StopTunnel(App, "pingstop")
           /\ pc'[App] = "stop" => pc[App] \in {"wsstop", "wsdrain"} /\ EntersSection(App)
           /\ pc[App] = "wsstop" => \/ ws = "null" /\ pc'[App] = "stop"
                                    \/ ws # "null" /\ pc'[App] = "wsdrain"
           /\ pc[App] = "wsdrain" => pc'[App] = "stop"
           /\ pc'[App] # "stop" => overlap' = overlap
           /\ pc[App] = "pingstop" => pc'[App] \in {"forget", "wipe"}
           /\ pc[App] = "forget" => pc'[App] = "wipe"
           /\ pc[App] = "wipe" => pc'[App] = "none"
<1> USE DEF Labels, Goto, StopPCs, history
<1>0. App \in Tasks
  BY TaskFacts
<1>1. CASE StopTunnel(App, "pingstop")
  <2>1. pc[App] \in StopPCs /\ overlap' = overlap
    BY <1>0, <1>1, StopTunnelEffect
  <2>. QED
    BY <1>0, <1>1, <2>1, StopEdges
<1>2. CASE NewtStopWs \/ NewtStopWsReturns
  BY <1>0, <1>2 DEF NewtStopWs, NewtStopWsReturns, StopTunnel
<1>3. CASE NewtStopPing \/ NewtStopForgetsPing \/ NewtStopWipes
  BY <1>0, <1>3 DEF NewtStopPing, NewtStopForgetsPing, NewtStopWipes, StopTunnel
<1>. QED
  BY <1>1, <1>2, <1>3 DEF InNewtStop

LEMMA ConfigureEffect ==
    ASSUME Labels, NEW t \in Tasks, Configure(t)
    PROVE  /\ UNCHANGED <<added, pollerVars, ppc, expired, fault>>
           /\ \/ /\ state' = "RESOLVING" /\ ctxNetif' = FALSE
                 /\ pc'[t] = "connect" /\ SetsUp("wg")
              \/ UNCHANGED <<state, ctxNetif>> /\ pc'[t] = "none" /\ late' = late
BY DEF Configure, WgInit, WgInitFails, Goto, Labels, tunnel

\* A newt_wg_stop that finds the tunnel down leaves it so, and does not get past
\* the disconnect.
LEMMA StopKeepsDown ==
    ASSUME Labels, TunnelDown, NEW t \in Tasks, NEW next, StopTunnel(t, next),
           ~expired', fault' = "none"
    PROVE  TunnelDown' /\ pc[t] # "disc"
BY DEF StopTunnel, StopSignals, StopTakes, StopTakeExpires, StopDeletesSem,
       StopClearsFlag, StopDisconnects, StopCallFails, StopReportsDown, TunnelDown,
       AlivePollers, tunnel, pollerVars

LEMMA Monotone ==
    ASSUME Labels, OwnTypes, expired \in BOOLEAN,
           \/ SupStep \/ \E r \in Reconns : ReconnStep(r)
           \/ \E p \in Pollers : Poll(p)
           \/ PingTaskEnds \/ PingTaskTurns \/ OnWorker \/ InApp \/ NewtInit
    PROVE  (overlap => overlap') /\ (expired => expired')
<1>0. App \in Tasks /\ Sup \in Tasks /\ Reconns \subseteq Tasks
  BY TaskFacts
<1>1. ASSUME NEW t \in Tasks, NEW next,
             Configure(t) \/ StartTunnel(t) \/ StopTunnel(t, next)
      PROVE  expired => expired'
  BY <1>1
     DEF Configure, WgInit, WgInitFails, StartTunnel, WgConnects, WgConnectRetries,
         WgConnectFails, WgSpawnsPoller, WgSpawnFails, Handshaking, StopTunnel,
         StopSignals, StopTakes, StopTakeExpires, StopDeletesSem, StopClearsFlag,
         StopDisconnects, StopCallFails, StopReportsDown
<1>2. ASSUME NEW t \in Tasks, EntersSection(t) PROVE overlap => overlap'
  BY <1>2, Zenon DEF EntersSection
<1>3. CASE SupStep
  <2>1. overlap => overlap'
    BY <1>0, <1>2, <1>3, SupEdges
  <2>2. expired => expired'
    <3>1. CASE pc[Sup] \in {"wginit", "connect", "spawn"}
      BY <1>0, <1>1, <1>3, <3>1, SupEdges DEF StartPCs
    <3>2. CASE pc[Sup] \notin {"wginit", "connect", "spawn"}
      BY <1>3, <3>2, SupQuiet
    <3>. QED
      BY <3>1, <3>2
  <2>. QED
    BY <2>1, <2>2
<1>4. ASSUME NEW r \in Reconns, ReconnStep(r)
      PROVE  (overlap => overlap') /\ (expired => expired')
  <2>1. overlap => overlap'
    BY <1>0, <1>2, <1>4, ReconnEdges
  <2>2. expired => expired'
    <3>1. CASE pc[r] \in StopPCs \cup {"wginit", "connect", "spawn"}
      BY <1>0, <1>1, <1>4, <3>1, ReconnEdges DEF StartPCs
    <3>2. CASE pc[r] \notin StopPCs \cup {"wginit", "connect", "spawn"}
      BY <1>4, <3>2, ReconnQuiet DEF OffTunnel
    <3>. QED
      BY <3>1, <3>2
  <2>. QED
    BY <2>1, <2>2
<1>5. CASE InNewtStop
  <2>1. overlap => overlap'
    BY <1>0, <1>2, <1>5, InStopEdges
  <2>2. expired => expired'
    BY <1>0, <1>1, <1>5, InStopEdges, InStopQuiet
  <2>. QED
    BY <2>1, <2>2
<1>6. CASE NewtStart \/ NewtStop \/ NewtInit
  <2>1. UNCHANGED <<overlap, expired>>
    BY <1>6 DEF NewtStart, NewtStop, NewtInit, OffTunnel
  <2>. QED
    BY <2>1
<1>7. CASE OnWorker \/ PingTaskEnds \/ PingTaskTurns \/ \E p \in Pollers : Poll(p)
  BY <1>7, WorkerEffect, PingTaskEffect, PollEffect DEF history, OffTunnel
<1>. QED
  BY <1>3, <1>4, <1>5, <1>6, <1>7 DEF InApp

-----------------------------------------------------------------------------
(* The tunnel in order.                                                    *)

\* A task by itself in a tunnel section.
Alone(t) == \A u \in Tasks : u # t => ~InSection(u) /\ pc'[u] = pc[u]

LEMMA AloneInOrder ==
    ASSUME NEW t \in Tasks, Alone(t),
           InSection(t)' =>
              /\ pc'[t] \notin {"stop", "take"} => poller' = NULL
              /\ pc'[t] = "spawn" => ctxNetif'
              /\ pc'[t] = "down" => TunnelDown'
              /\ pc'[t] \in {"ping", "register", "await", "wginit"} => TunnelDown'
    PROVE  SectionInOrder'
BY DEF Alone, SectionInOrder, InSection

\* The tunnel is left alone, and the task enters at the first step of
\* newt_wg_stop or goes on between two waits.
LEMMA QuietInOrder ==
    ASSUME TunnelInOrder, NEW t \in Tasks, \A u \in Tasks : u # t => pc'[u] = pc[u],
           UNCHANGED <<tunnel, pollerVars, ppc>>, pc[t] # "down",
           InSection(t)' =>
              \/ pc'[t] = "stop"
              \/ /\ InSection(t)
                 /\ pc[t] \in {"ping", "register", "await", "wginit"}
                 /\ pc'[t] \in {"ping", "register", "await", "wginit"}
    PROVE  TunnelInOrder'
<1> USE DEF tunnel, pollerVars
<1>1. TunnelDown' <=> TunnelDown
  BY DEF TunnelDown, AlivePollers
<1>2. SectionInOrder'
  BY <1>1 DEF TunnelInOrder, SectionInOrder, InSection
<1>3. UpHasNetif'
  BY DEF TunnelInOrder, UpHasNetif
<1>. QED
  BY <1>2, <1>3
     DEF TunnelInOrder, PollerInOrder, HandleInOrder, AlivePollers

LEMMA ConfigureInOrder ==
    ASSUME TunnelInOrder, TunnelDown, WgTypeOK, Labels, NEW t \in Tasks, Alone(t),
           Configure(t)
    PROVE  TunnelInOrder' /\ TunnelDown'
<1> USE DEF TunnelDown, AlivePollers, pollerVars, tunnel
<1>1. TunnelDown'
  BY ConfigureEffect
<1>2. SectionInOrder'
  BY <1>1, AloneInOrder, ConfigureEffect
<1>3. UpHasNetif'
  <2>1. pc[t] = "wginit"
    BY DEF Configure
  <2>. QED
    BY <2>1, ConfigureEffect DEF Alone, TunnelInOrder, UpHasNetif
<1>4. added' = ctxNetif'
  BY ConfigureEffect DEF TunnelInOrder, WgTypeOK
<1>. QED
  BY <1>1, <1>2, <1>3, <1>4 DEF TunnelInOrder, PollerInOrder, HandleInOrder

LEMMA ConnectInOrder ==
    ASSUME TunnelInOrder, Labels, NEW t \in Tasks, Alone(t), StartTunnel(t),
           pc[t] = "connect"
    PROVE  TunnelInOrder' /\ fault' = fault
<1> USE DEF AlivePollers, pollerVars, tunnel, Labels, Goto
<1>1. poller = NULL /\ added = ctxNetif
  BY DEF TunnelInOrder, SectionInOrder, InSection, StartPCs
<1>2. /\ UNCHANGED <<pollerVars, ppc>> /\ pc'[t] \in {"connect", "spawn", "none"}
      /\ \/ ctxNetif' = TRUE /\ added' = TRUE /\ state' = state
         \/ UNCHANGED tunnel /\ pc'[t] = "none"
      /\ fault' = fault
  BY <1>1 DEF StartTunnel, WgConnects, WgConnectRetries, WgConnectFails, CreatesNetif
<1>3. SectionInOrder'
  <2>1. InSection(t)' => pc'[t] \in {"connect", "spawn"}
    BY <1>2 DEF InSection, StopPCs, StartPCs
  <2>. QED
    BY <1>1, <1>2, <2>1, AloneInOrder
<1>4. UpHasNetif'
  BY <1>2 DEF Alone, TunnelInOrder, UpHasNetif
<1>. QED
  BY <1>1, <1>2, <1>3, <1>4 DEF TunnelInOrder, PollerInOrder, HandleInOrder

LEMMA SpawnInOrder ==
    ASSUME TunnelInOrder, WgTypeOK, Labels, NEW t \in Tasks, Alone(t), StartTunnel(t),
           pc[t] = "spawn"
    PROVE  TunnelInOrder' /\ fault' = fault
<1> USE DEF AlivePollers, pollerVars
<1>1. poller = NULL /\ added = ctxNetif /\ ctxNetif /\ ctxNetif \in BOOLEAN
  BY DEF TunnelInOrder, SectionInOrder, InSection, StartPCs, WgTypeOK
<1>2. AlivePollers = {} /\ pollerDone # "given"
  BY <1>1 DEF TunnelInOrder, HandleInOrder
<1>3. WgSpawnsPoller(t, "poll") \/ WgSpawnFails(t, "none")
  BY DEF StartTunnel
<1>4. /\ UNCHANGED <<ctxNetif, added, fault>> /\ state' = "HANDSHAKING"
      /\ pc'[t] \in {"poll", "none"}
  BY <1>3 DEF WgSpawnsPoller, WgSpawnFails, Handshaking, Labels, Goto
<1>5. SectionInOrder'
  <2>1. ~InSection(t)'
    BY <1>4 DEF InSection, StopPCs, StartPCs
  <2>. QED
    BY <2>1, AloneInOrder
<1>6. UpHasNetif'
  BY <1>4 DEF UpHasNetif
<1>7. PollerInOrder' /\ HandleInOrder'
  <2>1. CASE WgSpawnsPoller(t, "poll")
    <3>1. PICK p \in Pollers : poller' = p /\ ppc' = [ppc EXCEPT ![p] = "top"]
      BY <2>1 DEF WgSpawnsPoller
    <3>2. AlivePollers' = {p}
      BY <1>2, <3>1 DEF WgTypeOK
    <3>3. pollerDone' = "empty" /\ p # NULL
      BY <1>2, <2>1, <3>1, NullAssumption DEF WgSpawnsPoller, WgTypeOK
    <3>. QED
      BY <1>1, <1>4, <3>1, <3>2, <3>3 DEF PollerInOrder, HandleInOrder
  <2>2. CASE WgSpawnFails(t, "none")
    <3>1. AlivePollers' = {} /\ poller' = NULL /\ pollerDone' # "given"
      BY <1>1, <1>2, <2>2 DEF WgSpawnFails
    <3>. QED
      BY <3>1 DEF PollerInOrder, HandleInOrder
  <2>. QED
    BY <1>3, <2>1, <2>2
<1>. QED
  BY <1>1, <1>4, <1>5, <1>6, <1>7 DEF TunnelInOrder

LEMMA StopInOrder ==
    ASSUME TunnelInOrder, Labels, WgTypeOK, NEW t \in Tasks, Alone(t), NEW next,
           StopTunnel(t, next), ~expired', fault' = "none",
           next \in {"ping", "pingstop"}
    PROVE  TunnelInOrder' /\ (pc'[t] = "down" => TunnelDown')
<1> USE DEF AlivePollers, pollerVars, tunnel, Labels, Goto
<1>0. InSection(t) /\ InSection(t) /\ added = ctxNetif
  BY StopTunnelEffect DEF InSection, TunnelInOrder
<1>1. CASE pc[t] = "stop"
  <2>1. StopSignals(t, "take", "delsem")
    BY <1>1 DEF StopTunnel
  <2>0. pollerDone = "null" => poller = NULL
    <3>1. pollerDone # "empty" => AlivePollers = {}
      BY DEF TunnelInOrder, PollerInOrder
    <3>. QED
      BY <3>1 DEF TunnelInOrder, HandleInOrder
  <2>2. /\ UNCHANGED <<tunnel, poller, pollerDone, ppc>>
        /\ pc'[t] = "take" \/ (pc'[t] = "delsem" /\ poller' = NULL)
    BY <2>0, <2>1 DEF StopSignals
  <2>3. SectionInOrder'
    BY <2>2, AloneInOrder
  <2>4. UpHasNetif'
    BY <1>1, <2>2 DEF Alone, TunnelInOrder, UpHasNetif
  <2>. QED
    BY <2>2, <2>3, <2>4 DEF TunnelInOrder, PollerInOrder, HandleInOrder
<1>2. CASE pc[t] = "take"
  <2>1. StopTakes(t, "delsem")
    BY <1>2 DEF StopTunnel, StopTakeExpires
  <2>2. /\ UNCHANGED <<tunnel, ppc>> /\ poller' = NULL /\ pollerDone' = "empty"
        /\ pc'[t] = "delsem" /\ pollerDone = "given"
    BY <2>1 DEF StopTakes
  <2>3. AlivePollers = {}
    BY <2>2 DEF TunnelInOrder, PollerInOrder
  <2>4. SectionInOrder'
    BY <2>2, AloneInOrder
  <2>5. UpHasNetif'
    BY <1>2, <2>2 DEF Alone, TunnelInOrder, UpHasNetif
  <2>. QED
    BY <2>2, <2>3, <2>4, <2>5 DEF TunnelInOrder, PollerInOrder, HandleInOrder
<1>3. CASE pc[t] \in {"delsem", "clear"}
  <2>1. poller = NULL
    BY <1>0, <1>3 DEF TunnelInOrder, SectionInOrder
  <2>2. AlivePollers = {} /\ pollerDone # "given"
    BY <2>1 DEF TunnelInOrder, HandleInOrder
  <2>3. /\ UNCHANGED <<tunnel, poller, ppc>> /\ pollerDone' \in {pollerDone, "null"}
        /\ pc'[t] \in {"clear", "disc"}
    BY <1>3 DEF StopTunnel, StopDeletesSem, StopClearsFlag
  <2>4. SectionInOrder'
    BY <2>1, <2>3, AloneInOrder
  <2>5. UpHasNetif'
    BY <1>3, <2>3 DEF Alone, TunnelInOrder, UpHasNetif
  <2>. QED
    BY <2>1, <2>2, <2>3, <2>4, <2>5 DEF TunnelInOrder, PollerInOrder, HandleInOrder
<1>4. CASE pc[t] = "disc"
  <2>1. poller = NULL
    BY <1>0, <1>4 DEF TunnelInOrder, SectionInOrder
  <2>2. AlivePollers = {} /\ pollerDone # "given"
    BY <2>1 DEF TunnelInOrder, HandleInOrder
  <2>3. StopDisconnects(t, "down")
    BY <1>4 DEF StopTunnel, StopCallFails
  <2>4. /\ UNCHANGED <<state, poller, pollerDone, ppc>> /\ pc'[t] = "down"
        /\ ~ctxNetif' /\ ~added'
    BY <1>0, <2>3 DEF StopDisconnects
  <2>5. TunnelDown'
    BY <2>1, <2>2, <2>4 DEF TunnelDown
  <2>6. SectionInOrder'
    BY <2>1, <2>4, <2>5, AloneInOrder
  <2>7. ctxNetif' = FALSE /\ added' = FALSE
    BY <1>0, <2>3 DEF StopDisconnects, WgTypeOK
  <2>. QED
    BY <2>1, <2>2, <2>4, <2>5, <2>6, <2>7
       DEF TunnelInOrder, PollerInOrder, HandleInOrder, UpHasNetif
<1>5. CASE pc[t] = "down"
  <2>1. TunnelDown /\ poller = NULL
    BY <1>0, <1>5 DEF TunnelInOrder, SectionInOrder
  <2>2. StopReportsDown(t, next)
    BY <1>5 DEF StopTunnel
  <2>3. /\ UNCHANGED <<ctxNetif, added, pollerVars, ppc>> /\ state' = "DOWN"
        /\ pc'[t] = next
    BY <2>2 DEF StopReportsDown
  <2>4. TunnelDown'
    BY <2>1, <2>3 DEF TunnelDown
  <2>5. SectionInOrder'
    BY <2>1, <2>3, <2>4, AloneInOrder
  <2>. QED
    BY <2>1, <2>3, <2>4, <2>5
       DEF TunnelInOrder, PollerInOrder, HandleInOrder, UpHasNetif, TunnelDown
<1>. QED
  BY <1>1, <1>2, <1>3, <1>4, <1>5, StopTunnelEffect DEF StopPCs

LEMMA PollInOrder ==
    ASSUME TunnelInOrder, WgTypeOK, Labels, NEW p \in Pollers, Poll(p), fault = "none"
    PROVE  /\ TunnelInOrder' /\ fault' = "none"
           /\ ~TunnelDown
           /\ added' = added
<1> USE DEF AlivePollers, pollerVars, tunnel
<1>0. pc' = pc /\ ppc \in [Pollers -> PollerPCs] /\ PollerStep(p)
  BY PollEffect DEF WgTypeOK, Poll
<1>1. p \in AlivePollers
  BY <1>0 DEF PollerStep, PollerStops, PollerGoesOn, PollerAsks, PollerReportsUp
<1>2. /\ poller = p /\ ctxNetif /\ state = "HANDSHAKING" /\ pollerDone = "empty"
      /\ \A q \in AlivePollers : q = p
      /\ p # NULL
  BY <1>1, NullAssumption DEF TunnelInOrder, PollerInOrder
<1>3. /\ UNCHANGED <<ctxNetif, added, poller>>
      /\ \/ /\ AlivePollers' = {} /\ pollerDone' = "given"
            /\ state' \in {"HANDSHAKING", "UP"}
         \/ AlivePollers' = {p} /\ UNCHANGED <<state, pollerDone>>
      /\ fault' = "none"
  <2>1. CASE PollerStops(p) \/ PollerReportsUp(p)
    BY <1>0, <1>1, <1>2, <2>1 DEF PollerStops, PollerReportsUp, PollerGives
  <2>2. CASE PollerGoesOn(p) \/ PollerAsks(p)
    BY <1>0, <1>1, <1>2, <2>2 DEF PollerGoesOn, PollerAsks
  <2>. QED
    BY <1>0, <2>1, <2>2 DEF PollerStep
<1>4. ~TunnelDown
  BY <1>1 DEF TunnelDown
<1>5. SectionInOrder'
  BY <1>0, <1>2, <1>3, <1>4 DEF TunnelInOrder, SectionInOrder, InSection
<1>6. UpHasNetif'
  BY <1>2, <1>3 DEF UpHasNetif
<1>7. PollerInOrder' /\ HandleInOrder'
  BY <1>2, <1>3 DEF PollerInOrder, HandleInOrder
<1>. QED
  BY <1>3, <1>4, <1>5, <1>6, <1>7 DEF TunnelInOrder

-----------------------------------------------------------------------------
(* The supervisor keeps to the order.                                      *)

LEMMA SupAlone ==
    ASSUME Labels, Apart, ~overlap, ~overlap', SupStep,
           pc[Sup] \in {"wginit", "connect", "spawn"}
    PROVE  Alone(Sup)
<1>0. Sup \in Tasks
  BY TaskFacts
<1>1. CASE pc[Sup] = "wginit"
  <2>1. overlap' <=> overlap \/ \E u \in Tasks \ {Sup} : InSection(u)
    BY <1>1, SupEdges, Zenon DEF EntersSection
  <2>. QED
    BY <2>1, SupMoves DEF Alone
<1>2. CASE pc[Sup] # "wginit"
  <2>1. InSection(Sup)
    BY <1>2 DEF InSection, StartPCs
  <2>. QED
    BY <1>0, <2>1, SupMoves DEF Alone, Apart
<1>. QED
  BY <1>1, <1>2

LEMMA SupTunnel ==
    ASSUME WgTypeOK, Labels, Handles, Apart, Orderly, ~overlap, ~overlap', SupStep
    PROVE  /\ TunnelInOrder'
           /\ pc[Sup] \notin StartPCs /\ TunnelDown => TunnelDown'
           /\ pc[Sup] = "wginit" => Clear
           /\ fault' \in {fault, "ping"}
<1>0. Sup \in Tasks /\ Sup \notin Reconns /\ pc[Sup] \in SupPCs /\ pc'[Sup] \in SupPCs
  BY TaskFacts, SupLabelled DEF Labels
<1>1. CASE pc[Sup] = "wginit"
  <2>1. Clear
    BY <1>1 DEF Orderly, FreshStart, Nearly, SupBlocked
  <2>2. Configure(Sup)
    BY <1>1, SupEdges
  <2>3. TunnelInOrder' /\ TunnelDown'
    BY <1>0, <1>1, <2>1, <2>2, SupAlone, ConfigureInOrder DEF Orderly, Clear
  <2>. QED
    BY <1>0, <2>1, <2>2, <2>3, ConfigureEffect
<1>2. CASE pc[Sup] \in StartPCs
  <2>1. StartTunnel(Sup) /\ Alone(Sup)
    BY <1>2, SupEdges, SupAlone DEF StartPCs
  <2>2. TunnelInOrder' /\ fault' = fault
    BY <1>0, <1>2, <2>1, ConnectInOrder, SpawnInOrder DEF Orderly, StartPCs
  <2>. QED
    BY <1>2, <2>2 DEF StartPCs
<1>3. CASE pc[Sup] \notin {"wginit", "connect", "spawn"}
  <2>1. /\ UNCHANGED <<tunnel, pollerVars, ppc>>
        /\ fault' \in {fault, "ping"}
    BY <1>3, SupQuiet
  <2>2. ~InSection(Sup)'
    BY <1>0, <1>3, SupEdges DEF InSection, SupPCs, StopPCs, StartPCs
  <2>3. pc[Sup] # "down"
    BY <1>0 DEF SupPCs, StartPCs
  <2>4. TunnelInOrder'
    BY <1>0, <2>1, <2>2, <2>3, SupMoves, QuietInOrder DEF Orderly
  <2>5. TunnelDown => TunnelDown'
    BY <2>1 DEF TunnelDown, AlivePollers, tunnel, pollerVars
  <2>. QED
    BY <1>3, <2>1, <2>4, <2>5
<1>. QED
  BY <1>1, <1>2, <1>3 DEF StartPCs

\* What BIT_STOP blocks stays blocked.
LEMMA SupStaysBlocked ==
    ASSUME OwnTypes, Labels, Handles, SupStep, Runs(Sup), SupBlocked
    PROVE  /\ SupBlocked'
           /\ pc'[Sup] \in Early => pc[Sup] \in Early \/ pc[Sup] = "wsinit"
           /\ pc'[Sup] \in StartPCs => pc[Sup] \in StartPCs
<1>1. "STOP" \in bits' /\ Sup \notin onOld'
  BY SupEffect DEF SupBlocked, Handles, evt, Runs
<1>2. pc'[Sup] \notin Nearly
  <2>1. pc'[Sup] # "register"
    BY SupEdges DEF SupBlocked, Seen, Early
  <2>. QED
    BY <2>1, SupEdges DEF SupBlocked, Nearly
<1>3. pc'[Sup] \in Early => pc[Sup] \in Early \/ pc[Sup] = "wsinit"
  BY SupEdges DEF Early
<1>4. pc'[Sup] \in StartPCs => pc[Sup] \in StartPCs
  BY SupEdges DEF SupBlocked, Nearly, StartPCs
<1>. QED
  BY <1>1, <1>2, <1>3, <1>4 DEF SupBlocked

LEMMA SupKeepsOrder ==
    ASSUME OwnTypes, WgTypeOK, Labels, Handles, Apart, Orderly,
           ~overlap, ~overlap', SupStep, Runs(Sup)
    PROVE  Orderly'
<1>0. /\ Sup \in Tasks /\ App \in Tasks /\ pc'[App] = pc[App]
      /\ \A r \in Reconns : pc'[r] = pc[r]
      /\ bits' = bits /\ wiped' = wiped /\ stopping' = stopping /\ late \subseteq late'
      /\ pc'[Sup] # "wsstart" => (ws' = "null" <=> ws = "null")
  BY TaskFacts, SupMoves, SupEffect DEF Handles, evt
<1>1. Clear /\ pc[Sup] \notin StartPCs => Clear'
  BY <1>0, SupTunnel DEF Clear
<1>2. pc'[Sup] \in Early \cup Nearly =>
          /\ pc[Sup] \in Early \cup Nearly \/ ws = "null"
          /\ pc'[Sup] \notin StartPCs
          /\ pc'[Sup] # "wsstart" => pc[Sup] \in Early \cup Nearly
  BY SupEdges DEF Early, Nearly, StartPCs
<1>3. pc'[Sup] = "wsstart" => ws' # "null" /\ ws = "null" /\ pc[Sup] = "wsinit"
  BY SupEdges
<1>4. pc[App] \in DrainPCs => "STOP" \in bits
  BY DEF Handles, StopSet, DrainPCs
<1>5. FreshStart'
  <2>1. SUFFICES ASSUME pc'[Sup] \in Early \cup Nearly \/ ws' = "null"
                 PROVE  \/ Clear' /\ pc'[Sup] \notin StartPCs
                        \/ /\ pc'[App] \in DrainPCs
                           /\ SupBlocked'
                           /\ pc'[Sup] \in Early => ws' # "null"
    BY DEF FreshStart
  <2>2. pc[Sup] \in Early \cup Nearly \/ ws = "null"
    BY <1>0, <1>2, <1>3, <2>1
  <2>3. CASE Clear /\ pc[Sup] \notin StartPCs
    <3>1. CASE pc'[Sup] \notin StartPCs
      BY <1>1, <2>3, <3>1
    <3>2. CASE pc'[Sup] \in StartPCs
      <4>1. pc[Sup] = "wginit" /\ pc'[Sup] \notin Early \cup Nearly
        BY <2>3, <3>2, SupEdges DEF StartPCs, Early, Nearly
      <4>2. ws = "null"
        BY <1>0, <1>3, <2>1, <4>1
      <4>3. pc[App] \in DrainPCs
        BY <4>1, <4>2 DEF Orderly, NoClient, Nearly
      <4>. QED
        BY <1>0, <1>4, <4>1, <4>3 DEF SupBlocked
    <3>. QED
      BY <3>1, <3>2
  <2>4. CASE /\ pc[App] \in DrainPCs
             /\ SupBlocked
             /\ pc[Sup] \in Early => ws # "null"
    <3>1. pc'[Sup] \in Early => ws' # "null"
      BY <1>0, <1>3, <2>4, SupStaysBlocked, SupEdges DEF Early
    <3>. QED
      BY <1>0, <2>4, <3>1, SupStaysBlocked
  <2>. QED
    BY <2>2, <2>3, <2>4 DEF Orderly, FreshStart
<1>6. NoClient'
  BY <1>0, <1>2, <1>3 DEF Orderly, NoClient
<1>7. Taken'
  BY <1>0, <1>1, SupStaysBlocked DEF Orderly, Taken
<1>8. TunnelGivenBack'
  <2>1. SUFFICES ASSUME pc[App] \in {"pingstop", "forget", "wipe"} \/ stopping = "done"
                 PROVE  \/ state' = "DOWN" /\ ~added' /\ AlivePollers' = {}
                        \/ "wg" \in late'
    BY <1>0 DEF TunnelGivenBack
  <2>2. stopping # "no"
    BY <2>1 DEF Handles, StopUnderWay
  <2>3. CASE "wg" \in late'
    BY <2>3
  <2>4. CASE pc[Sup] = "wginit"
    <3>1. SetsUp("wg") \/ UNCHANGED <<state, added, ppc>>
      BY <1>0, <2>4, SupEdges, ConfigureEffect
    <3>. QED
      BY <1>0, <2>1, <2>2, <3>1 DEF SetsUp, Orderly, TunnelGivenBack, AlivePollers
  <2>5. CASE pc[Sup] \in StartPCs
    <3>1. SetsUp("wg")
      BY <2>5, SupEdges DEF StartTunnel
    <3>. QED
      BY <2>2, <3>1 DEF SetsUp
  <2>6. CASE pc[Sup] \notin {"wginit", "connect", "spawn"}
    <3>1. UNCHANGED <<state, added, ppc>>
      BY <2>6, SupQuiet DEF tunnel
    <3>. QED
      BY <1>0, <2>1, <3>1 DEF Orderly, TunnelGivenBack, AlivePollers
  <2>. QED
    BY <2>4, <2>5, <2>6 DEF StartPCs
<1>. QED
  BY <1>5, <1>6, <1>7, <1>8, SupTunnel DEF Orderly

-----------------------------------------------------------------------------
(* The reconnect tasks keep to the order.                                  *)

LEMMA ReconnTunnel ==
    ASSUME WgTypeOK, Labels, Apart, TunnelInOrder, ~overlap, ~expired',
           fault = "none", NEW r \in Reconns, ReconnStep(r), fault' = "none"
    PROVE  /\ TunnelInOrder'
           /\ Clear => Clear'
<1>0. /\ r \in Tasks /\ r # App /\ r # Sup /\ pc[r] \in ReconnPCs /\ pc'[r] \in ReconnPCs
      /\ \A u \in Tasks : u # r => pc'[u] = pc[u]
      /\ Reconns \subseteq Tasks
  BY TaskFacts, ReconnMoves, ReconnLabelled DEF Labels
<1>1. InSection(r) => Alone(r)
  BY <1>0 DEF Alone, Apart
<1>2. Clear /\ TunnelDown' /\ pc'[r] \notin PastDisc => Clear'
  BY <1>0 DEF Clear
<1>3. CASE pc[r] = "wginit"
  <2>1. Configure(r) /\ InSection(r)
    BY <1>3, ReconnEdges DEF InSection
  <2>2. TunnelDown
    BY <1>0, <1>3, <2>1 DEF TunnelInOrder, SectionInOrder
  <2>. QED
    BY <1>0, <1>1, <1>3, <2>1, <2>2, ConfigureInOrder DEF Clear, PastDisc
<1>4. CASE pc[r] \in StartPCs
  <2>1. StartTunnel(r) /\ InSection(r)
    BY <1>4, ReconnEdges DEF InSection
  <2>. QED
    BY <1>0, <1>1, <1>4, <2>1, ConnectInOrder, SpawnInOrder DEF StartPCs, Clear, PastDisc
<1>5. CASE pc[r] \in StopPCs
  <2>1. StopTunnel(r, "ping") /\ InSection(r)
    BY <1>5, ReconnEdges DEF InSection
  <2>2. TunnelInOrder'
    BY <1>0, <1>1, <2>1, StopInOrder
  <2>3. ASSUME Clear PROVE TunnelDown' /\ pc'[r] \notin PastDisc
    <3>1. TunnelDown' /\ pc[r] # "disc"
      BY <1>0, <2>1, <2>3, StopKeepsDown DEF Clear
    <3>2. pc[r] # "down"
      BY <2>3 DEF Clear, PastDisc
    <3>. QED
      BY <1>0, <2>1, <3>1, <3>2, StopEdges DEF PastDisc, StartPCs
  <2>. QED
    BY <1>2, <2>2, <2>3
<1>6. CASE pc[r] \notin StopPCs \cup {"wginit", "connect", "spawn"}
  <2>1. UNCHANGED <<tunnel, pollerVars, ppc>>
    BY <1>6, ReconnQuiet DEF OffTunnel
  <2>2. InSection(r)' =>
              \/ pc'[r] = "stop"
              \/ /\ InSection(r)
                 /\ pc[r] \in {"ping", "register", "await", "wginit"}
                 /\ pc'[r] \in {"ping", "register", "await", "wginit"}
    <3>1. pc[r] \in {"clearbits", "poll", "ping", "register", "await"}
      BY <1>0, <1>6, ReconnEdges DEF ReconnPCs, StartPCs
    <3>2. CASE pc[r] = "clearbits"
      <4>1. ReconnClearsBits(r)
        BY <3>2, ReconnEdges
      <4>. QED
        BY <1>0, <4>1 DEF Labels, Goto, ReconnClearsBits
    <3>3. CASE pc[r] = "poll"
      BY <3>3, ReconnEdges DEF InSection, StopPCs, StartPCs
    <3>4. CASE pc[r] \in {"ping", "register", "await"}
      <4>1. InSection(r)
        BY <3>4 DEF InSection
      <4>2. InSection(r)' => pc'[r] \in {"ping", "register", "await", "wginit"}
        BY <1>0, <3>4, ReconnEdges DEF InSection, StopPCs, StartPCs
      <4>. QED
        BY <3>4, <4>1, <4>2
    <3>. QED
      BY <3>1, <3>2, <3>3, <3>4
  <2>3. TunnelInOrder'
    BY <1>0, <1>6, <2>1, <2>2, QuietInOrder DEF StopPCs
  <2>4. ASSUME Clear PROVE TunnelDown' /\ pc'[r] \notin PastDisc
    <3>1. TunnelDown'
      BY <2>1, <2>4 DEF Clear, TunnelDown, AlivePollers, tunnel, pollerVars
    <3>2. pc[r] \notin PastDisc
      BY <2>4 DEF Clear
    <3>. QED
      BY <1>6, <3>1, <3>2, ReconnEdges DEF PastDisc, StartPCs, StopPCs
  <2>. QED
    BY <1>2, <2>3, <2>4
<1>. QED
  BY <1>3, <1>4, <1>5, <1>6 DEF StartPCs

\* A step that leaves the supervisor, the client, newt_stop and BIT_STOP where
\* they are keeps what depends on them.
LEMMA ElsewhereKeepsOrder ==
    ASSUME Orderly, TunnelInOrder', Clear => Clear', TunnelGivenBack',
           pc'[Sup] = pc[Sup], pc'[App] = pc[App], ws' = ws, wiped' = wiped,
           "STOP" \in bits => "STOP" \in bits', Sup \in onOld' => Sup \in onOld
    PROVE  Orderly'
<1>1. SupBlocked => SupBlocked'
  BY DEF SupBlocked
<1>. QED
  BY <1>1 DEF Orderly, FreshStart, NoClient, Taken

LEMMA ReconnKeepsOrder ==
    ASSUME WgTypeOK, Labels, Handles, Apart, Orderly, ~overlap, ~expired',
           fault = "none", NEW r \in Reconns, ReconnStep(r), Runs(r), fault' = "none"
    PROVE  Orderly'
<1>0. /\ r \in Tasks /\ r # App /\ r # Sup /\ SupHandle
      /\ Sup \in Tasks /\ App \in Tasks
  BY TaskFacts DEF Handles
<1>1. TunnelInOrder' /\ (Clear => Clear')
  BY ReconnTunnel DEF Orderly
<1>2. /\ pc'[Sup] = pc[Sup] /\ pc'[App] = pc[App] /\ ws' = ws /\ wiped' = wiped
      /\ stopping' = stopping /\ late \subseteq late'
      /\ "STOP" \in bits => "STOP" \in bits'
  BY <1>0, ReconnMoves, ReconnEffect DEF held, pings
<1>3. TunnelGivenBack'
  <2>1. SUFFICES ASSUME pc[App] \in {"pingstop", "forget", "wipe"} \/ stopping = "done"
                 PROVE  \/ state' = "DOWN" /\ ~added' /\ AlivePollers' = {}
                        \/ "wg" \in late'
    BY <1>2 DEF TunnelGivenBack
  <2>2. stopping # "no"
    BY <2>1 DEF Handles, StopUnderWay
  <2>3. CASE UNCHANGED <<ppc>> /\ state' \in {state, "DOWN"} /\ (added' => added)
    BY <1>2, <2>1, <2>3 DEF Orderly, TunnelGivenBack, AlivePollers
  <2>4. CASE pc[r] = "wginit"
    <3>1. SetsUp("wg") \/ UNCHANGED <<state, added, ppc>>
      BY <1>0, <2>4, ReconnEdges, ConfigureEffect
    <3>. QED
      BY <2>2, <2>3, <3>1 DEF SetsUp
  <2>5. CASE pc[r] \in StartPCs
    <3>1. SetsUp("wg")
      BY <2>5, ReconnEdges DEF StartTunnel
    <3>. QED
      BY <2>2, <3>1 DEF SetsUp
  <2>6. CASE pc[r] \in StopPCs
    <3>1. StopTunnel(r, "ping")
      BY <2>6, ReconnEdges
    <3>2. UNCHANGED <<ppc>> /\ state' \in {state, "DOWN"}
      BY <3>1
         DEF StopTunnel, StopSignals, StopTakes, StopTakeExpires, StopDeletesSem,
             StopClearsFlag, StopDisconnects, StopCallFails, StopReportsDown, tunnel
    <3>3. added' => added
      BY <3>1, Zenon
         DEF StopTunnel, StopSignals, StopTakes, StopTakeExpires, StopDeletesSem,
             StopClearsFlag, StopDisconnects, StopCallFails, StopReportsDown, tunnel
    <3>. QED
      BY <2>3, <3>2, <3>3
  <2>7. CASE pc[r] \notin StopPCs \cup {"wginit", "connect", "spawn"}
    BY <2>3, <2>7, ReconnQuiet DEF OffTunnel, tunnel
  <2>. QED
    BY <2>4, <2>5, <2>6, <2>7 DEF StartPCs
<1>4. Sup \in onOld' => Sup \in onOld
  BY DEF Runs
<1>. QED
  BY <1>1, <1>2, <1>3, <1>4, ElsewhereKeepsOrder

-----------------------------------------------------------------------------
(* The callbacks, the poll tasks and the ping task keep to the order.      *)

LEMMA OthersKeepOrder ==
    ASSUME WgTypeOK, Labels, Orderly, UNCHANGED onOld, fault = "none",
           OnWorker \/ PingTaskEnds \/ PingTaskTurns \/ \E p \in Pollers : Poll(p)
    PROVE  Orderly' /\ fault' = "none"
<1>0. /\ Sup \in Tasks /\ App \in Tasks /\ Reconns \subseteq Tasks
      /\ Sup \notin Reconns /\ App \notin Reconns
  BY TaskFacts
<1>1. ASSUME NEW p \in Pollers, Poll(p) PROVE Orderly' /\ fault' = "none"
  <2>1. TunnelInOrder' /\ fault' = "none" /\ ~TunnelDown
    BY <1>1, PollInOrder DEF Orderly
  <2>2. UNCHANGED <<pc, bits, ws, wiped, stopping, late>>
    BY <1>1, PollEffect DEF evt, app, held, pings, history, stops
  <2>3. ~Clear
    BY <2>1 DEF Clear
  <2>4. AlivePollers # {}
    BY <1>1 DEF Poll, PollerStep, PollerStops, PollerGoesOn, PollerAsks, PollerReportsUp,
                AlivePollers
  <2>5. TunnelGivenBack'
    BY <2>2, <2>4 DEF Orderly, TunnelGivenBack
  <2>. QED
    BY <2>1, <2>2, <2>3, <2>5, ElsewhereKeepsOrder
<1>2. CASE OnWorker \/ PingTaskEnds \/ PingTaskTurns
  <2>1. /\ UNCHANGED <<tunnel, pollerVars, ppc, fault, ws, wiped, stopping, late>>
        /\ bits \subseteq bits'
    BY <1>2, WorkerEffect, PingTaskEffect DEF OffTunnel, evt, app, held, pings, history, stops
  <2>2. TunnelDown' <=> TunnelDown
    BY <2>1 DEF TunnelDown, AlivePollers, tunnel, pollerVars
  <2>3. CASE UNCHANGED pc
    <3>1. TunnelInOrder'
      BY <2>1, <2>3
         DEF Orderly, TunnelInOrder, PollerInOrder, HandleInOrder, SectionInOrder,
             InSection, UpHasNetif, TunnelDown, AlivePollers, tunnel, pollerVars
    <3>2. TunnelGivenBack'
      BY <2>1, <2>3 DEF Orderly, TunnelGivenBack, AlivePollers, tunnel
    <3>3. Clear => Clear'
      BY <2>2, <2>3 DEF Clear
    <3>. QED
      BY <2>1, <2>3, <3>1, <3>2, <3>3, ElsewhereKeepsOrder
  <2>4. ASSUME NEW r \in Reconns, pc[r] = "none", Goto(r, "clearbits")
        PROVE  Orderly'
    <3>1. /\ pc'[r] = "clearbits" /\ \A u \in Tasks : u # r => pc'[u] = pc[u]
          /\ ~InSection(r)' /\ r \in Tasks
      BY <1>0, <2>4 DEF Goto, Labels, InSection, StopPCs, StartPCs
    <3>2. TunnelInOrder'
      BY <2>1, <2>4, <3>1, QuietInOrder DEF Orderly
    <3>3. Clear => Clear'
      BY <1>0, <2>2, <3>1 DEF Clear, PastDisc, StartPCs
    <3>4. pc'[Sup] = pc[Sup] /\ pc'[App] = pc[App]
      BY <1>0, <2>4, <3>1
    <3>5. TunnelGivenBack'
      BY <2>1, <3>4 DEF Orderly, TunnelGivenBack, AlivePollers, tunnel
    <3>. QED
      BY <2>1, <3>2, <3>3, <3>4, <3>5, ElsewhereKeepsOrder
  <2>. QED
    BY <1>2, <2>1, <2>3, <2>4, WorkerEffect, PingTaskEffect
<1>. QED
  BY <1>1, <1>2

-----------------------------------------------------------------------------
(* The application keeps to the order.                                     *)

LEMMA InStopTunnel ==
    ASSUME WgTypeOK, Labels, Apart, TunnelInOrder, ~overlap, ~expired',
           fault = "none", InNewtStop, fault' = "none"
    PROVE  /\ TunnelInOrder'
           /\ Clear => Clear'
           /\ pc[App] = "disc" => ~Clear /\ Clear' /\ pc[Sup] \notin StartPCs
           /\ pc[App] = "down" => TunnelDown /\ state' = "DOWN" /\ UNCHANGED <<added, ppc>>
           /\ pc[App] \notin StopPCs => UNCHANGED <<tunnel, pollerVars, ppc>>
<1>0. /\ App \in Tasks /\ App \notin Reconns /\ pc[App] \in AppPCs
      /\ \A u \in Tasks : u # App => pc'[u] = pc[u]
      /\ Reconns \subseteq Tasks /\ Sup \in Tasks /\ Sup # App
  BY TaskFacts, InStopMoves DEF Labels
<1>1. InSection(App) => Alone(App)
  BY <1>0 DEF Alone, Apart
<1>2. CASE pc[App] \in StopPCs
  <2>1. StopTunnel(App, "pingstop") /\ InSection(App)
    BY <1>2, InStopEdges DEF InSection
  <2>2. TunnelInOrder' /\ (pc'[App] = "down" => TunnelDown')
    BY <1>0, <1>1, <2>1, StopInOrder
  <2>3. Clear => Clear' /\ pc[App] # "disc"
    BY <1>0, <2>1, StopKeepsDown DEF Clear
  <2>4. ASSUME pc[App] = "disc" PROVE ~Clear /\ Clear' /\ pc[Sup] \notin StartPCs
    <3>1. pc'[App] = "down"
      BY <1>0, <2>1, <2>4, StopEdges
    <3>2. \A u \in Tasks : u # App => ~InSection(u)
      BY <1>1, <2>1 DEF Alone
    <3>3. \A r \in Reconns : pc[r] \notin PastDisc
      BY <1>0, <3>2 DEF InSection, PastDisc, StopPCs
    <3>4. pc[Sup] \notin StartPCs
      BY <1>0, <3>2 DEF InSection
    <3>. QED
      BY <1>0, <2>2, <2>3, <2>4, <3>1, <3>3, <3>4 DEF Clear
  <2>5. ASSUME pc[App] = "down"
        PROVE  TunnelDown /\ state' = "DOWN" /\ UNCHANGED <<added, ppc>>
    <3>1. TunnelDown
      BY <1>0, <2>1, <2>5 DEF TunnelInOrder, SectionInOrder
    <3>. QED
      BY <2>1, <2>5, <3>1 DEF StopTunnel, StopReportsDown
  <2>. QED
    BY <1>2, <2>2, <2>3, <2>4, <2>5
<1>3. CASE pc[App] \notin StopPCs
  <2>1. UNCHANGED <<tunnel, pollerVars, ppc>>
    BY <1>3, InStopQuiet
  <2>2. InSection(App)' => pc'[App] = "stop"
    BY <1>0, <1>3, InStopEdges, InStopEffect DEF InSection, AppPCs, StopPCs, StartPCs
  <2>3. TunnelInOrder'
    BY <1>0, <1>3, <2>1, <2>2, QuietInOrder DEF StopPCs
  <2>4. Clear => Clear'
    BY <1>0, <2>1 DEF Clear, TunnelDown, AlivePollers, tunnel, pollerVars
  <2>. QED
    BY <1>3, <2>1, <2>3, <2>4 DEF StopPCs
<1>. QED
  BY <1>2, <1>3

LEMMA InStopKeepsOrder ==
    ASSUME OwnTypes, WgTypeOK, Labels, Handles, Apart, Orderly, ~overlap, ~expired',
           fault = "none", InNewtStop, UNCHANGED onOld, fault' = "none"
    PROVE  Orderly'
<1>0. /\ App \in Tasks /\ Sup \in Tasks /\ Sup # App /\ pc'[Sup] = pc[Sup]
      /\ pc[App] \in AppPCs /\ pc[App] # "none" /\ stopping = "under way"
      /\ "STOP" \in bits /\ bits' = bits /\ onOld' = onOld /\ late' = late
      /\ pc[App] # "wsstop" => ws' = ws
      /\ pc'[App] # "wsstop"
  BY TaskFacts, InStopMoves, InStopEffect
     DEF Labels, Handles, StopUnderWay, StopSet, evt
<1>1. /\ TunnelInOrder' /\ (Clear => Clear')
      /\ pc[App] = "disc" => ~Clear /\ Clear' /\ pc[Sup] \notin StartPCs
      /\ pc[App] = "down" => TunnelDown /\ state' = "DOWN" /\ UNCHANGED <<added, ppc>>
      /\ pc[App] \notin StopPCs => UNCHANGED <<tunnel, pollerVars, ppc>>
  BY InStopTunnel DEF Orderly
<1>2. \/ pc[App] = "wsstop" /\ ws = "null" /\ pc'[App] = "stop" /\ ws' = "null"
      \/ pc[App] = "wsstop" /\ ws # "null" /\ pc'[App] = "wsdrain" /\ ws' = "null"
      \/ pc[App] \in DrainPCs /\ pc'[App] \in DrainPCs
      \/ pc[App] = "disc" /\ pc'[App] = "down"
      \/ pc[App] = "down" /\ pc'[App] = "pingstop"
      \/ /\ pc[App] \in {"pingstop", "forget", "wipe"}
         /\ pc'[App] \in {"forget", "wipe", "none"}
  <2>1. CASE pc[App] \in StopPCs
    BY <1>0, <2>1, InStopEdges, StopEdges DEF StopPCs, DrainPCs
  <2>2. CASE pc[App] \notin StopPCs
    <3>1. pc[App] \in {"wsstop", "wsdrain", "pingstop", "forget", "wipe"}
      BY <1>0, <2>2 DEF AppPCs
    <3>. QED
      BY <3>1, InStopEdges, InStopEffect DEF DrainPCs
  <2>. QED
    BY <2>1, <2>2
<1>3. SupBlocked' <=> SupBlocked
  BY <1>0 DEF SupBlocked
<1>4. FreshStart'
  <2>1. SUFFICES ASSUME pc[Sup] \in Early \cup Nearly \/ ws' = "null"
                 PROVE  \/ Clear' /\ pc[Sup] \notin StartPCs
                        \/ /\ pc'[App] \in DrainPCs
                           /\ SupBlocked
                           /\ pc[Sup] \in Early => ws' # "null"
    BY <1>0, <1>3 DEF FreshStart
  <2>2. CASE Clear /\ pc[Sup] \notin StartPCs
    BY <1>1, <2>2
  <2>3. CASE pc[App] = "wsstop"
    <3>1. CASE pc[Sup] \in Early \cup Nearly \/ ws = "null"
      <4>1. Clear /\ pc[Sup] \notin StartPCs
        BY <2>3, <3>1 DEF Orderly, FreshStart, DrainPCs
      <4>. QED
        BY <2>2, <4>1
    <3>2. CASE pc[Sup] \notin Early \cup Nearly /\ ws # "null"
      <4>1. pc'[App] = "wsdrain"
        BY <2>3, <3>2, InStopEdges
      <4>. QED
        BY <1>0, <3>2, <4>1 DEF DrainPCs, SupBlocked
    <3>. QED
      BY <3>1, <3>2
  <2>4. CASE pc[App] # "wsstop"
    <3>1. /\ ws' = ws
          /\ \/ Clear /\ pc[Sup] \notin StartPCs
             \/ /\ pc[App] \in DrainPCs
                /\ SupBlocked
                /\ pc[Sup] \in Early => ws # "null"
      BY <1>0, <2>1, <2>4 DEF Orderly, FreshStart
    <3>2. CASE pc[App] = "disc"
      BY <1>1, <3>2
    <3>3. CASE pc[App] # "disc" /\ pc[App] \in DrainPCs
      <4>1. pc'[App] \in DrainPCs
        BY <1>2, <2>4, <3>3 DEF DrainPCs
      <4>. QED
        BY <2>2, <3>1, <4>1
    <3>. QED
      BY <2>2, <3>1, <3>2, <3>3
  <2>. QED
    BY <2>3, <2>4
<1>5. NoClient'
  <2>1. SUFFICES ASSUME ws' = "null", pc[Sup] \in Early \cup Nearly
                 PROVE  pc'[App] \in DrainPCs
    BY <1>0 DEF NoClient
  <2>2. CASE pc[App] = "wsstop"
    BY <1>2, <2>2 DEF DrainPCs
  <2>3. CASE pc[App] # "wsstop"
    <3>1. ws = "null" /\ pc[App] \in DrainPCs
      BY <1>0, <2>1, <2>3 DEF Orderly, NoClient
    <3>2. Clear
      <4>1. SupBlocked => pc[Sup] \in Early
        BY <2>1 DEF SupBlocked
      <4>. QED
        BY <2>1, <3>1, <4>1 DEF Orderly, FreshStart
    <3>3. pc[App] # "disc"
      BY <1>1, <3>2
    <3>. QED
      BY <1>2, <3>1, <3>3 DEF DrainPCs
  <2>. QED
    BY <2>2, <2>3
<1>6. Taken'
  <2>1. SUFFICES ASSUME pc'[App] \in {"down", "pingstop", "forget", "wipe"} \/ wiped'
                 PROVE  Clear' /\ SupBlocked /\ pc[Sup] \notin StartPCs
    BY <1>0, <1>3 DEF Taken
  <2>2. CASE pc[App] \in {"down", "pingstop", "forget", "wipe"} \/ wiped
    BY <1>1, <2>2 DEF Orderly, Taken
  <2>3. CASE pc[App] \notin {"down", "pingstop", "forget", "wipe"} /\ ~wiped
    <3>1. pc[App] = "disc" /\ pc'[App] = "down"
      <4>1. ~wiped'
        BY <1>2, <2>3, InStopEffect DEF DrainPCs
      <4>. QED
        BY <1>2, <2>1, <2>3, <4>1 DEF DrainPCs
    <3>2. ~Clear /\ Clear' /\ pc[Sup] \notin StartPCs
      BY <1>1, <3>1
    <3>3. SupBlocked
      <4>1. CASE pc[Sup] \in Early \cup Nearly
        BY <3>2, <4>1 DEF Orderly, FreshStart
      <4>2. CASE pc[Sup] \notin Early \cup Nearly
        BY <1>0, <4>2 DEF SupBlocked
      <4>. QED
        BY <4>1, <4>2
    <3>. QED
      BY <3>2, <3>3
  <2>. QED
    BY <2>2, <2>3
<1>7. TunnelGivenBack'
  <2>1. CASE pc[App] = "down"
    BY <1>1, <2>1 DEF TunnelGivenBack, TunnelDown, AlivePollers
  <2>2. CASE pc[App] \in {"pingstop", "forget", "wipe"}
    BY <1>0, <1>1, <2>2 DEF Orderly, TunnelGivenBack, AlivePollers, StopPCs, tunnel
  <2>3. CASE pc[App] \notin {"down", "pingstop", "forget", "wipe"}
    <3>1. pc'[App] \notin {"pingstop", "forget", "wipe", "none"}
      BY <1>2, <2>3 DEF DrainPCs
    <3>2. stopping' = stopping
      BY <3>1, InStopEffect
    <3>. QED
      BY <1>0, <3>1, <3>2 DEF TunnelGivenBack
  <2>. QED
    BY <2>1, <2>2, <2>3
<1>. QED
  BY <1>1, <1>4, <1>5, <1>6, <1>7 DEF Orderly

LEMMA AppKeepsOrder ==
    ASSUME OwnTypes, WgTypeOK, Labels, Handles, Orderly,
           \/ NewtStart /\ UNCHANGED onOld
           \/ NewtStop /\ UNCHANGED onOld
           \/ NewtInit
    PROVE  Orderly' /\ fault' = fault
<1>0. /\ Sup \in Tasks /\ App \in Tasks /\ Sup # App /\ Reconns \subseteq Tasks
      /\ Sup \notin Reconns /\ App \notin Reconns
  BY TaskFacts
<1>1. UNCHANGED <<tunnel, pollerVars, ppc, fault, ws>> /\ pc[App] = "none"
  BY DEF NewtStart, NewtStop, NewtInit, OffTunnel, app, held, pings
<1>2. TunnelDown' <=> TunnelDown
  BY <1>1 DEF TunnelDown, AlivePollers, tunnel, pollerVars
<1>3. \A r \in Reconns : pc'[r] = pc[r]
  BY <1>0 DEF NewtStart, NewtStop, NewtInit, Goto, Labels
<1>4. Clear' <=> Clear
  BY <1>2, <1>3 DEF Clear
<1>5. pc[Sup] \in Early \cup Nearly \/ ws = "null" => Clear /\ pc[Sup] \notin StartPCs
  BY <1>1 DEF Orderly, FreshStart, DrainPCs
<1>6. NoClient => ~(ws = "null" /\ pc[Sup] \in Early \cup Nearly)
  BY <1>1 DEF NoClient, DrainPCs
<1>7. CASE NewtStart /\ UNCHANGED onOld
  <2>1. /\ pc'[Sup] = "auth" /\ pc[Sup] = "none" /\ pc'[App] = "none"
        /\ \A u \in Tasks : u # Sup => pc'[u] = pc[u]
        /\ UNCHANGED <<bits, wiped>> /\ stopping' = "no"
    BY <1>0, <1>7
       DEF NewtStart, Goto, Labels, Handles, SupHandle, evt, held, pings
  <2>2. TunnelInOrder'
    BY <1>0, <1>1, <2>1, QuietInOrder DEF Orderly, InSection, StopPCs, StartPCs
  <2>3. FreshStart'
    BY <1>1, <1>4, <1>5, <2>1 DEF FreshStart, Early, Nearly, StartPCs
  <2>4. NoClient'
    BY <2>1 DEF NoClient, Early, Nearly
  <2>5. Taken'
    BY <1>4, <1>7, <2>1 DEF Orderly, Taken, SupBlocked, Early, Nearly, StartPCs
  <2>6. TunnelGivenBack'
    BY <2>1 DEF TunnelGivenBack
  <2>. QED
    BY <1>1, <2>2, <2>3, <2>4, <2>5, <2>6 DEF Orderly
<1>8. CASE NewtStop /\ UNCHANGED onOld
  <2>1. /\ pc'[App] = "wsstop" /\ \A u \in Tasks : u # App => pc'[u] = pc[u]
        /\ bits \subseteq bits' /\ wiped' = wiped /\ stopping' = "under way"
        /\ pc'[Sup] = pc[Sup]
    BY <1>0, <1>8 DEF NewtStop, Goto, Labels, app, held, pings
  <2>2. TunnelInOrder'
    BY <1>0, <1>1, <2>1, QuietInOrder DEF Orderly, InSection, StopPCs, StartPCs
  <2>3. FreshStart'
    BY <1>1, <1>4, <1>5, <2>1 DEF FreshStart
  <2>4. NoClient'
    BY <1>1, <1>6, <2>1 DEF Orderly, NoClient
  <2>5. Taken'
    BY <1>4, <1>8, <2>1 DEF Orderly, Taken, SupBlocked
  <2>6. TunnelGivenBack'
    BY <2>1 DEF TunnelGivenBack
  <2>. QED
    BY <1>1, <2>2, <2>3, <2>4, <2>5, <2>6 DEF Orderly
<1>9. CASE NewtInit
  <2>1. pc' = pc /\ ~wiped' /\ stopping' = "no"
    BY <1>9 DEF NewtInit
  <2>2. TunnelInOrder'
    BY <1>0, <1>1, <2>1, QuietInOrder DEF Orderly, InSection, StopPCs, StartPCs
  <2>3. FreshStart'
    BY <1>1, <1>4, <1>5, <2>1 DEF FreshStart
  <2>4. NoClient'
    BY <1>1, <1>6, <2>1 DEF Orderly, NoClient
  <2>5. Taken'
    BY <1>1, <2>1 DEF Taken
  <2>6. TunnelGivenBack'
    BY <1>1, <2>1 DEF TunnelGivenBack
  <2>. QED
    BY <1>1, <2>2, <2>3, <2>4, <2>5, <2>6 DEF Orderly
<1>. QED
  BY <1>7, <1>8, <1>9

-----------------------------------------------------------------------------
(* The ways out of defined behaviour.                                      *)

LEMMA StopFault ==
    ASSUME Labels, NEW t \in Tasks, NEW next, StopTunnel(t, next), Alone(t),
           fault = "none"
    PROVE  fault' \in {"none", "netif"}
<1>1. \A u \in Tasks \ {t} : pc[u] # "take"
  BY DEF Alone, InSection, StopPCs
<1>2. pc[t] = "delsem" => fault' = fault
  BY <1>1 DEF StopTunnel, StopDeletesSem
<1>3. pc[t] # "delsem" => fault' \in {fault, "netif"}
  BY DEF StopTunnel, StopSignals, StopTakes, StopTakeExpires, StopClearsFlag,
         StopDisconnects, StopCallFails, StopReportsDown
<1>. QED
  BY <1>2, <1>3

LEMMA ReconnFault ==
    ASSUME WgTypeOK, Labels, Apart, Orderly, ~overlap, fault = "none",
           NEW r \in Reconns, ReconnStep(r)
    PROVE  fault' \in {"none", "netif"}
<1>0. r \in Tasks /\ \A u \in Tasks : u # r => pc'[u] = pc[u]
  BY TaskFacts, ReconnMoves
<1>1. InSection(r) => Alone(r)
  BY <1>0 DEF Alone, Apart
<1>2. CASE pc[r] = "wginit"
  BY <1>0, <1>2, ReconnEdges, ConfigureEffect
<1>3. CASE pc[r] \in StartPCs
  <2>1. StartTunnel(r) /\ Alone(r)
    BY <1>1, <1>3, ReconnEdges DEF InSection
  <2>. QED
    BY <1>0, <1>3, <2>1, ConnectInOrder, SpawnInOrder DEF StartPCs, Orderly
<1>4. CASE pc[r] \in StopPCs
  <2>1. StopTunnel(r, "ping") /\ Alone(r)
    BY <1>1, <1>4, ReconnEdges DEF InSection
  <2>. QED
    BY <1>0, <2>1, StopFault
<1>5. CASE pc[r] \notin StopPCs \cup {"wginit", "connect", "spawn"}
  BY <1>5, ReconnQuiet DEF OffTunnel
<1>. QED
  BY <1>2, <1>3, <1>4, <1>5 DEF StartPCs

LEMMA AppFault ==
    ASSUME WgTypeOK, Labels, Handles, Apart, Orderly, ~overlap, fault = "none", InApp
    PROVE  fault' \in {"none", "netif", "queue"}
<1>0. App \in Tasks
  BY TaskFacts
<1>1. CASE NewtStart \/ NewtStop
  BY <1>1 DEF NewtStart, NewtStop, OffTunnel
<1>2. CASE InNewtStop /\ pc[App] \in StopPCs
  <2>1. StopTunnel(App, "pingstop") /\ InSection(App)
    BY <1>2, InStopEdges DEF InSection
  <2>2. Alone(App)
    BY <1>0, <1>2, <2>1, InStopMoves DEF Alone, Apart
  <2>. QED
    BY <1>0, <2>1, <2>2, StopFault
<1>3. CASE InNewtStop /\ pc[App] \notin StopPCs
  BY <1>3, InStopQuiet
<1>. QED
  BY <1>1, <1>2, <1>3 DEF InApp

\* Nothing starts a tunnel with a wiped key, not even in a step that leaves
\* defined behaviour.
LEMMA WipedStays ==
    ASSUME OwnTypes, Labels, Handles, Orderly,
           \/ SupStep /\ Runs(Sup)
           \/ \E r \in Reconns : ReconnStep(r)
           \/ \E p \in Pollers : Poll(p)
           \/ PingTaskEnds \/ PingTaskTurns \/ OnWorker \/ InApp \/ NewtInit,
           wiped'
    PROVE  \A t \in Tasks : pc'[t] \notin StartPCs
<1>0. /\ Sup \in Tasks /\ App \in Tasks /\ Reconns \subseteq Tasks /\ Sup # App
      /\ Sup \notin Reconns /\ App \notin Reconns /\ pc[App] \notin StartPCs
      /\ SupHandle
  BY TaskFacts DEF Labels, AppPCs, StopPCs, StartPCs, Handles
<1>1. wiped \/ pc[App] = "wipe"
  BY <1>0, SupEffect, ReconnEffect, PollEffect, PingTaskEffect, WorkerEffect, InStopEffect
     DEF InApp, NewtStart, NewtStop, NewtInit, app, held, pings
<1>2. /\ SupBlocked /\ \A t \in Tasks : pc[t] \notin StartPCs
      /\ \A r \in Reconns : pc[r] \notin PastDisc
  BY <1>0, <1>1, TaskFacts DEF Orderly, Taken, Clear, PastDisc
<1>3. CASE SupStep /\ Runs(Sup)
  BY <1>0, <1>2, <1>3, SupMoves, SupStaysBlocked
<1>4. ASSUME NEW r \in Reconns, ReconnStep(r)
      PROVE  \A t \in Tasks : pc'[t] \notin StartPCs
  <2>1. pc'[r] \notin StartPCs
    BY <1>2, <1>4, ReconnEdges DEF PastDisc, StartPCs
  <2>. QED
    BY <1>0, <1>2, <1>4, <2>1, ReconnMoves
<1>5. CASE InNewtStop
  <2>1. pc'[App] \notin StartPCs
    <3>1. CASE pc[App] \in StopPCs
      BY <1>0, <1>5, <3>1, InStopEdges, StopEdges DEF StartPCs
    <3>2. CASE pc[App] \notin StopPCs
      <4>1. pc[App] \in {"wsstop", "wsdrain", "pingstop", "forget", "wipe"}
        BY <1>0, <1>5, <3>2, InStopEffect DEF Labels, AppPCs
      <4>. QED
        BY <1>5, <4>1, InStopEdges DEF StartPCs
    <3>. QED
      BY <3>1, <3>2
  <2>. QED
    BY <1>0, <1>2, <1>5, <2>1, InStopMoves
<1>6. CASE NewtStart \/ NewtStop \/ NewtInit
  BY <1>0, <1>2, <1>6 DEF NewtStart, NewtStop, NewtInit, Goto, Labels, StartPCs
<1>7. CASE OnWorker
  BY <1>0, <1>2, <1>7, WorkerEffect DEF Goto, Labels, StartPCs
<1>8. CASE PingTaskEnds \/ PingTaskTurns \/ \E p \in Pollers : Poll(p)
  BY <1>2, <1>8, PollEffect, PingTaskEffect
<1>. QED
  BY <1>3, <1>4, <1>5, <1>6, <1>7, <1>8 DEF InApp

-----------------------------------------------------------------------------
(* Types of the tunnel's variables.                                        *)

LEMMA QuietTyped ==
    ASSUME WgTypeOK, UNCHANGED <<tunnel, pollerVars, ppc, tries, expired>>,
           fault' \in Faults
    PROVE  WgTypeOK'
BY DEF WgTypeOK, tunnel, pollerVars

LEMMA WgTyped ==
    ASSUME WgTypeOK, Labels,
           \/ SupStep \/ \E r \in Reconns : ReconnStep(r)
           \/ \E p \in Pollers : Poll(p)
           \/ PingTaskEnds \/ PingTaskTurns \/ OnWorker \/ InApp \/ NewtInit
    PROVE  WgTypeOK'
<1>0. /\ Sup \in Tasks /\ App \in Tasks /\ Reconns \subseteq Tasks
      /\ fault \in Faults /\ {"ping", "queue"} \subseteq Faults
  BY TaskFacts DEF WgTypeOK, Faults
<1>1. OffTunnel => WgTypeOK'
  BY <1>0, QuietTyped DEF OffTunnel
<1>2. CASE SupStep
  <2>1. CASE pc[Sup] \in {"wginit", "connect", "spawn"}
    BY <1>0, <1>2, <2>1, SupEdges, TunnelTyped DEF StartPCs
  <2>2. CASE pc[Sup] \notin {"wginit", "connect", "spawn"}
    BY <1>0, <1>2, <2>2, SupQuiet, QuietTyped
  <2>. QED
    BY <2>1, <2>2
<1>3. ASSUME NEW r \in Reconns, ReconnStep(r) PROVE WgTypeOK'
  <2>1. CASE pc[r] \in StopPCs \cup {"wginit", "connect", "spawn"}
    BY <1>0, <1>3, <2>1, ReconnEdges, TunnelTyped DEF StartPCs
  <2>2. CASE pc[r] \notin StopPCs \cup {"wginit", "connect", "spawn"}
    BY <1>1, <1>3, <2>2, ReconnQuiet
  <2>. QED
    BY <2>1, <2>2
<1>4. ASSUME NEW p \in Pollers, Poll(p) PROVE WgTypeOK'
  BY <1>4
     DEF Poll, PollerStep, PollerStops, PollerGoesOn, PollerAsks, PollerReportsUp,
         PollerGives, WgTypeOK, States, PollerPCs, Faults, tunnel, pollerVars
<1>5. CASE InNewtStop
  <2>1. CASE pc[App] \in StopPCs
    BY <1>0, <1>5, <2>1, InStopEdges, TunnelTyped
  <2>2. CASE pc[App] \notin StopPCs
    BY <1>0, <1>5, <2>2, InStopQuiet, QuietTyped
  <2>. QED
    BY <2>1, <2>2
<1>6. CASE NewtStart \/ NewtStop \/ NewtInit \/ OnWorker \/ PingTaskEnds \/ PingTaskTurns
  BY <1>1, <1>6, WorkerEffect, PingTaskEffect DEF NewtStart, NewtStop, NewtInit
<1>. QED
  BY <1>2, <1>3, <1>4, <1>5, <1>6 DEF InApp

LEMMA RestTyped ==
    ASSUME OwnTypes, UNCHANGED onOld,
           PingTaskEnds \/ PingTaskTurns \/ \E p \in Pollers : Poll(p)
    PROVE  OwnTypes'
<1>1. CASE \E p \in Pollers : Poll(p)
  BY <1>1, PollEffect DEF OwnTypes, evt, app, held, pings, history, stops
<1>2. CASE PingTaskEnds \/ PingTaskTurns
  <2>1. pingTask' \in {"none", "current", "old"}
    BY <1>2 DEF PingTaskEnds, PingTaskTurns
  <2>2. UNCHANGED <<evt, ws, ping, toStart, wiped, sup, history>>
    BY <1>2, PingTaskEffect
  <2>. QED
    BY <2>1, <2>2 DEF OwnTypes, evt, history, stops
<1>. QED
  BY <1>1, <1>2

-----------------------------------------------------------------------------
(* The invariant.                                                          *)

SupMove == SupStep /\ Runs(Sup)
ReconnMove == \E r \in Reconns : ReconnStep(r) /\ Runs(r)
RestMove ==
    /\ UNCHANGED onOld
    /\ OnWorker \/ PingTaskEnds \/ PingTaskTurns \/ \E p \in Pollers : Poll(p)
AppMove == InApp /\ UNCHANGED onOld
Move == SupMove \/ ReconnMove \/ RestMove \/ AppMove \/ NewtInit

LEMMA StillHolds == IInv /\ UNCHANGED vars => IInv'
<1> SUFFICES ASSUME IInv, UNCHANGED vars PROVE IInv'
  OBVIOUS
<1> USE DEF vars, wgVars, evt, held, pings, app, stops, history
<1>1. TypeOK'
  <2>1. WgTypeOK'
    BY DEF IInv, TypeOK, WgTypeOK
  <2>. QED
    BY <2>1 DEF IInv, TypeOK
<1>2. Labels' /\ Handles' /\ GivenBack' /\ Apart'
  BY DEF IInv, Labels, Handles, Waiting, Waits, SupHandle, StopUnderWay, StopSet,
         NoClientNoBit, DeletedIsForgotten, GivenBack, AppStopsWs, Apart, InSection
<1>6. PingsInOrder'
  BY DEF IInv, PingsInOrder, PingFresh, ClearedBits
<1>3. SessionsLeft'
  <2>1. Passing' <=> Passing
    BY DEF Passing, Seen
  <2>2. Unused' <=> Unused
    BY DEF Unused
  <2>. QED
    BY <2>1, <2>2 DEF IInv, SessionsLeft
<1>4. CalmInv'
  <2>1. TunnelInOrder' <=> TunnelInOrder
    BY DEF TunnelInOrder, PollerInOrder, HandleInOrder, SectionInOrder, UpHasNetif,
           TunnelDown, AlivePollers, InSection
  <2>2. (Clear' <=> Clear) /\ (SupBlocked' <=> SupBlocked)
    BY DEF Clear, TunnelDown, AlivePollers, SupBlocked
  <2>3. Orderly => Orderly'
    BY <2>1, <2>2 DEF Orderly, FreshStart, NoClient, Taken, TunnelGivenBack, AlivePollers
  <2>4. Calm' <=> Calm
    BY DEF Calm, Undisturbed
  <2>. QED
    BY <2>3, <2>4 DEF IInv, CalmInv
<1>5. FaultInv'
  BY DEF IInv, FaultInv, CollisionNeedsOverlap, StopIsClean,
         NoTunnelFromWipedKey, Undisturbed, AlivePollers
<1>. QED
  BY <1>1, <1>2, <1>3, <1>4, <1>5, <1>6 DEF IInv

LEMMA TypesKept == IInv /\ Move => OwnTypes' /\ WgTypeOK' /\ Labels' /\ Handles'
<1> SUFFICES ASSUME IInv, Move PROVE OwnTypes' /\ WgTypeOK' /\ Labels' /\ Handles'
  OBVIOUS
<1>0. OwnTypes /\ WgTypeOK /\ Labels /\ Handles /\ (sup <=> pc[Sup] # "none")
  BY TypeParts DEF IInv, Handles, SupHandle
<1>1. WgTypeOK'
  BY <1>0, WgTyped DEF Move, SupMove, ReconnMove, RestMove, AppMove
<1>2. CASE SupMove
  BY <1>0, <1>1, <1>2, SupTyped, SupLabelled, SupKeepsHandles DEF SupMove
<1>3. CASE ReconnMove
  BY <1>0, <1>1, <1>3, ReconnTyped, ReconnLabelled, ReconnKeepsHandles DEF ReconnMove
<1>4. CASE RestMove
  <2>1. OwnTypes'
    BY <1>0, <1>4, AppTyped, RestTyped DEF RestMove
  <2>2. Labels'
    <3>1. CASE OnWorker
      BY <1>0, <3>1, AppLabelled
    <3>2. CASE ~OnWorker
      <4>1. UNCHANGED <<pc, n>>
        BY <1>4, <3>2, PollEffect, PingTaskEffect DEF RestMove
      <4>. QED
        BY <1>0, <4>1 DEF Labels
    <3>. QED
      BY <3>1, <3>2
  <2>3. Handles'
    BY <1>0, <1>4, OthersKeepHandles DEF RestMove
  <2>. QED
    BY <1>1, <2>1, <2>2, <2>3
<1>5. CASE AppMove
  BY <1>0, <1>1, <1>5, AppTyped, AppLabelled, AppKeepsHandles DEF AppMove
<1>6. CASE NewtInit
  BY <1>0, <1>1, <1>6, NewtInitTyped, AppLabelled, NewtInitKeepsHandles
<1>. QED
  BY <1>2, <1>3, <1>4, <1>5, <1>6 DEF Move

LEMMA BooksKept ==
    IInv /\ Move => SessionsLeft' /\ GivenBack' /\ PingsInOrder' /\ Apart'
<1> SUFFICES ASSUME IInv, Move
             PROVE  SessionsLeft' /\ GivenBack' /\ PingsInOrder' /\ Apart'
  OBVIOUS
<1>0. /\ OwnTypes /\ Labels /\ Handles /\ SessionsLeft /\ GivenBack
      /\ PingsInOrder /\ Apart
      /\ SupHandle
  BY TypeParts DEF IInv, Handles
<1>1. SessionsLeft'
  BY <1>0, SupKeepsSessions, OthersKeepSessions, AppKeepsSessions, NewtInitKeepsSessions
     DEF Move, SupMove, ReconnMove, RestMove, AppMove
<1>2. GivenBack'
  BY <1>0, TasksKeepGivenBack, OthersKeepGivenBack
     DEF Move, SupMove, ReconnMove, RestMove, AppMove
<1>3. Apart'
  BY <1>0, TasksKeepApart, OthersKeepApart
     DEF Move, SupMove, ReconnMove, RestMove, AppMove
<1>4. PingsInOrder'
  BY <1>0, SupKeepsPings, ReconnKeepsPings, OthersKeepPings, AppKeepsPings
     DEF Move, SupMove, ReconnMove, RestMove, AppMove
<1>. QED
  BY <1>1, <1>2, <1>3, <1>4

LEMMA CalmBefore ==
    ASSUME IInv, fault = "none", Move, Undisturbed'
    PROVE  ~overlap /\ ~expired /\ ~overlap' /\ ~expired' /\ Orderly
<1>1. OwnTypes /\ Labels /\ expired \in BOOLEAN
  BY TypeParts DEF IInv, TypeOK, WgTypeOK
<1>2. (overlap => overlap') /\ (expired => expired')
  BY <1>1, Monotone DEF Move, SupMove, ReconnMove, RestMove, AppMove
<1>. QED
  BY <1>2 DEF Undisturbed, IInv, CalmInv, Calm

LEMMA OrderKept == IInv /\ fault = "none" /\ Move => CalmInv'
<1> SUFFICES ASSUME IInv, fault = "none", Move, Undisturbed', fault' = "none"
             PROVE  Orderly'
  BY DEF CalmInv, Calm
<1>0. /\ OwnTypes /\ WgTypeOK /\ Labels /\ Handles /\ Apart /\ Orderly
      /\ ~overlap /\ ~overlap' /\ ~expired'
  BY TypeParts, CalmBefore DEF IInv
<1>. QED
  BY <1>0, SupKeepsOrder, ReconnKeepsOrder, OthersKeepOrder, InStopKeepsOrder,
     AppKeepsOrder
     DEF Move, SupMove, ReconnMove, RestMove, AppMove, InApp

LEMMA FaultsKept == IInv /\ fault = "none" /\ Move => FaultInv'
<1> SUFFICES ASSUME IInv, fault = "none", Move, Undisturbed'
             PROVE  /\ fault' \notin {"sem", "readd"}
                    /\ StopIsClean' /\ NoTunnelFromWipedKey'
  BY DEF FaultInv, CollisionNeedsOverlap
<1>0. /\ OwnTypes /\ WgTypeOK /\ Labels /\ Handles /\ Apart /\ Orderly
      /\ ~overlap /\ ~overlap' /\ ~expired' /\ SupHandle
      /\ Sup \in Tasks /\ App \in Tasks
  BY TypeParts, CalmBefore, TaskFacts DEF IInv, Handles
<1>1. fault' \in {"none", "netif", "ping", "queue"}
  <2>1. CASE SupMove
    BY <1>0, <2>1, SupTunnel DEF SupMove
  <2>2. CASE ReconnMove
    BY <1>0, <2>2, ReconnFault DEF ReconnMove
  <2>3. CASE RestMove
    BY <1>0, <2>3, OthersKeepOrder DEF RestMove
  <2>4. CASE AppMove
    BY <1>0, <2>4, AppFault DEF AppMove
  <2>5. CASE NewtInit
    BY <2>5 DEF NewtInit, OffTunnel
  <2>. QED
    BY <2>1, <2>2, <2>3, <2>4, <2>5 DEF Move
<1>2. StopIsClean'
  <2>1. SUFFICES ASSUME stopping' = "done", fault' = "none" PROVE StopIsClean'
    BY DEF StopIsClean
  <2>2. Orderly' /\ GivenBack'
    BY <2>1, OrderKept, BooksKept DEF CalmInv, Calm
  <2>. QED
    BY <2>1, <2>2 DEF Orderly, TunnelGivenBack, GivenBack, StopIsClean
<1>3. NoTunnelFromWipedKey'
  <2>1. wiped' => \A t \in Tasks : pc'[t] \notin StartPCs
    BY <1>0, WipedStays DEF Move, SupMove, ReconnMove, RestMove, AppMove
  <2>. QED
    BY <2>1 DEF NoTunnelFromWipedKey
<1>. QED
  BY <1>1, <1>2, <1>3

LEMMA StepKeeps == IInv /\ [Next]_vars => IInv'
<1> SUFFICES ASSUME IInv, [Next]_vars PROVE IInv'
  OBVIOUS
<1>1. UNCHANGED vars \/ (fault = "none" /\ Move)
  BY Zenon DEF Next, Faulted, Move, SupMove, ReconnMove, RestMove, AppMove
<1>2. CASE fault = "none" /\ Move
  <2>1. TypeOK' /\ Labels'
    <3>1. OwnTypes' /\ WgTypeOK' /\ Labels'
      BY <1>2, TypesKept
    <3>2. Labels' => n' \in [Tasks -> 0..(MaxAuth + MaxWait)]
      BY BoundsAssumption DEF Labels, TurnPCs
    <3>. QED
      BY <3>1, <3>2 DEF OwnTypes, Labels, TypeOK
  <2>. QED
    BY <1>2, <2>1, TypesKept, BooksKept, OrderKept, FaultsKept DEF IInv
<1>. QED
  BY <1>1, <1>2, StillHolds

LEMMA Invariance == Spec => []IInv
BY InitHolds, StepKeeps, PTL DEF Spec

-----------------------------------------------------------------------------

\* Every variable keeps its type, the counter of each loop its limit.
THEOREM TypeCorrect == Spec => []TypeOK
<1>1. IInv => TypeOK
  BY DEF IInv
<1>. QED
  BY <1>1, Invariance, PTL

\* A deleted or NULL semaphore is used, and an interface added twice, only when
\* two tasks have been in a tunnel section at once or a newt_wg_stop has gone
\* on without its token or its disconnect (newt.c:72-137).
THEOREM TasksCollideOnlyInside == Spec => []CollisionNeedsOverlap
<1>1. IInv => CollisionNeedsOverlap
  BY DEF IInv, FaultInv
<1>. QED
  BY <1>1, Invariance, PTL

\* Tasks that follow one another leave at most one poll task, and no UP for an
\* interface that is gone (newt_wg.c:208-280).
THEOREM OneTunnel == Spec => []OneTunnelAtATime
<1>1. IInv => OneTunnelAtATime
  BY DEF IInv, CalmInv, Calm, Orderly, TunnelInOrder, PollerInOrder, UpHasNetif,
         OneTunnelAtATime
<1>. QED
  BY <1>1, Invariance, PTL

\* The supervisors reach newt_wg_init at most once for every newt_init, whatever
\* collides (newt.c:198, 266, 319).
THEOREM SessionsCounted == Spec => []OneSessionPerInit
<1>1. IInv => OneSessionPerInit
  <2> SUFFICES ASSUME IInv PROVE OneSessionPerInit
    OBVIOUS
  <2>1. sessions \in Nat /\ inits \in Nat /\ SessionsLeft
    BY TypeParts, CountedSessions DEF IInv
  <2>. QED
    BY <2>1 DEF SessionsLeft, One, OneSessionPerInit
<1>. QED
  BY <1>1, Invariance, PTL

\* What newt_stop gives back is gone when it returns, unless a task has set it
\* up since (newt.c:313-329).
THEOREM StopGivesBack == Spec => []StopIsClean
<1>1. IInv => StopIsClean
  BY DEF IInv, FaultInv, StopIsClean
<1>. QED
  BY <1>1, Invariance, PTL

\* No supervisor overwrites the handle of a live ICMP session that was made
\* before newt_stop was called (newt_ping.c:64, newt.c:198, 266, 301, 319-322).
THEOREM OnePingSession == Spec => []NoPingOverPing
<1>1. IInv => NoPingOverPing
  <2> SUFFICES ASSUME IInv, pc[Sup] = "online", ping = "live" PROVE FALSE
    BY DEF NoPingOverPing
  <2>. QED
    BY DEF IInv, PingsInOrder, PingFresh, Onward
<1>. QED
  BY <1>1, Invariance, PTL

\* No task goes on to a tunnel with a key that newt_stop has wiped
\* (newt.c:85-96, 222-229, 321-325).
THEOREM WipedKeyUnused == Spec => []NoTunnelFromWipedKey
<1>1. IInv => NoTunnelFromWipedKey
  BY DEF IInv, FaultInv, NoTunnelFromWipedKey
<1>. QED
  BY <1>1, Invariance, PTL
=============================================================================
