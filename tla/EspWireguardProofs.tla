--------------------------- MODULE EspWireguardProofs ---------------------------
(***************************************************************************)
(* Proofs about WgLegal, for any poll tasks and any number of retries, and *)
(* about EspWireguard, for any hosts and any number of source addresses.   *)
(* EspWireguard implements WgLegal, so that the invariant of the first     *)
(* part carries over, and with the two of the second part it gives the     *)
(* properties of what lies below.                                          *)
(***************************************************************************)
EXTENDS EspWireguard, FiniteSetTheorems, TLAPS

-----------------------------------------------------------------------------
(* WgLegal: the control functions and the poll task.                       *)

\* The context names the interface exactly while lwIP holds it, and it has one
\* from a connect to the poll task and throughout newt_wg_stop.
InterfaceKnown ==
    /\ added = ctxNetif
    /\ \A t \in Tasks : pc[t] \in {"spawn", "take", "delsem", "clear", "disc"} => ctxNetif

\* The one poll task alive is the one s_poller names; it has a semaphore nobody
\* has given yet, an interface to ask and a handshake to wait for.
PollerInOrder ==
    \A p \in AlivePollers :
        poller = p /\ ctxNetif /\ state = "HANDSHAKING" /\ pollerDone = "empty"

\* Outside the wait for its token nobody but the idle caller has a poll task,
\* and the token is there only for a poll task that is named.
HandleInOrder ==
    /\ \A t \in Tasks : pc[t] \notin {"idle", "stop", "take"} => poller = NULL
    /\ poller # NULL <=> pollerDone = "given" \/ AlivePollers # {}

Orderly ==
    ~expired => fault = "none" /\ PollerInOrder /\ HandleInOrder

IInv == TypeOK /\ InterfaceKnown /\ Orderly

LEMMA InitHolds == Init => IInv
<1> SUFFICES ASSUME Init PROVE IInv
  OBVIOUS
<1>0. 0 \in 0..MaxRetry
  BY RetryAssumption
<1>1. TypeOK
  BY <1>0, Zenon
     DEF Init, TypeOK, WgTypeOK, WgInitState, States, PollerPCs, Faults, CallerPCs
<1>2. AlivePollers = {}
  BY DEF Init, WgInitState, AlivePollers
<1>3. \A t \in Tasks : pc[t] = "idle"
  BY DEF Init
<1>4. InterfaceKnown
  BY <1>3 DEF Init, WgInitState, InterfaceKnown
<1>5. PollerInOrder /\ HandleInOrder
  BY <1>2, <1>3 DEF Init, WgInitState, PollerInOrder, HandleInOrder
<1>. QED
  BY <1>1, <1>4, <1>5 DEF Init, WgInitState, IInv, Orderly

-----------------------------------------------------------------------------
(* The caller's steps.                                                     *)

LEMMA TypesKept ==
    ASSUME TypeOK, [Next]_vars
    PROVE  TypeOK'
<1> USE DEF TypeOK, WgTypeOK, States, PollerPCs, Faults, CallerPCs, tunnel,
            pollerVars
<1>0. 0 \in 0..MaxRetry
  BY RetryAssumption
<1>1. ASSUME NEW t \in Tasks, CallerStep(t) PROVE TypeOK'
  <2>1. CASE CallInit(t)
    <3>1. CASE WgInit(t, "idle")
      BY <3>1, <1>0 DEF WgInit, Goto
    <3>2. CASE WgInitFails(t, "idle")
      BY <3>2 DEF WgInitFails, Goto
    <3>. QED
      BY <2>1, <3>1, <3>2 DEF CallInit
  <2>2. CASE CallStart(t)
    BY <2>2, <1>0 DEF CallStart, Goto
  <2>3. CASE Connect(t)
    <3>1. CASE WgConnects(t, "spawn")
      BY <3>1 DEF WgConnects, CreatesNetif, Goto
    <3>2. CASE WgConnectRetries(t, "connect", "idle")
      <4>1. tries[t] < MaxRetry => tries[t] + 1 \in 0..MaxRetry
        BY RetryAssumption
      <4>. QED
        BY <3>2, <4>1 DEF WgConnectRetries, CreatesNetif, Goto
    <3>3. CASE WgConnectFails(t, "idle")
      BY <3>3 DEF WgConnectFails, CreatesNetif, Goto
    <3>. QED
      BY <2>3, <3>1, <3>2, <3>3 DEF Connect
  <2>4. CASE Spawn(t)
    BY <2>4 DEF Spawn, WgSpawnsPoller, WgSpawnFails, Handshaking, Goto
  <2>5. CASE CallStop(t)
    BY <2>5 DEF CallStop, StopSignals, Goto
  <2>6. CASE Take(t)
    BY <2>6 DEF Take, StopTakes, StopTakeExpires, Goto
  <2>7. CASE DeleteSem(t)
    BY <2>7 DEF DeleteSem, StopDeletesSem, Goto
  <2>8. CASE ClearFlag(t)
    BY <2>8 DEF ClearFlag, StopClearsFlag, Goto
  <2>9. CASE Disconnect(t)
    BY <2>9 DEF Disconnect, StopDisconnects, StopCallFails, Goto
  <2>10. CASE ReportDown(t)
    BY <2>10 DEF ReportDown, StopReportsDown, Goto
  <2>. QED
    BY <1>1, <2>1, <2>2, <2>3, <2>4, <2>5, <2>6, <2>7, <2>8, <2>9, <2>10
       DEF CallerStep
<1>2. ASSUME NEW p \in Pollers, PollerStep(p) PROVE TypeOK'
  BY <1>2 DEF PollerStep, PollerStops, PollerGoesOn, PollerAsks,
              PollerReportsUp, PollerGives
<1>3. CASE UNCHANGED vars
  BY <1>3 DEF vars, wgVars
<1>. QED
  BY <1>1, <1>2, <1>3 DEF Next, Faulted

\* A caller's step that leaves the poll tasks, the interface and what newt_wg.c
\* knows of them alone keeps them in order.
LEMMA CallerKeeps ==
    ASSUME IInv, NEW t \in Tasks, CallerStep(t)
    PROVE  InterfaceKnown' /\ Orderly'
<1> USE DEF IInv, InterfaceKnown, Orderly, PollerInOrder, HandleInOrder,
            AlivePollers, tunnel, pollerVars
<1>0. pc \in [Tasks -> CallerPCs] /\ \A u \in Tasks : u = t
  BY OneCaller DEF TypeOK
<1>1. CASE CallInit(t)
  <2>1. added = FALSE /\ poller = NULL
    BY <1>1 DEF CallInit, MayInit, TypeOK, WgTypeOK
  <2>2. CASE WgInit(t, "idle")
    <3>1. InterfaceKnown'
      BY <1>0, <2>1, <2>2 DEF WgInit, Goto
    <3>2. ASSUME ~expired PROVE AlivePollers = {} /\ pollerDone # "given"
      BY <2>1, <3>2
    <3>. QED
      BY <1>0, <2>1, <2>2, <3>1, <3>2 DEF WgInit, Goto
  <2>3. CASE WgInitFails(t, "idle")
    BY <1>0, <2>3 DEF WgInitFails, Goto
  <2>. QED
    BY <1>1, <2>2, <2>3 DEF CallInit
<1>2. CASE CallStart(t)
  BY <1>0, <1>2 DEF CallStart, Goto
<1>3. CASE Connect(t)
  BY <1>0, <1>3
     DEF Connect, WgConnects, WgConnectRetries, WgConnectFails, CreatesNetif, Goto
<1>4. CASE Spawn(t)
  <2>0. ppc \in [Pollers -> PollerPCs]
    BY DEF TypeOK, WgTypeOK
  <2>1. InterfaceKnown'
    BY <1>0, <1>4
       DEF Spawn, WgSpawnsPoller, WgSpawnFails, Handshaking, Goto
  <2>2. ASSUME ~expired
        PROVE  poller = NULL /\ AlivePollers = {} /\ pollerDone # "given"
    BY <1>4, <2>2 DEF Spawn
  <2>3. CASE WgSpawnsPoller(t, "idle")
    <3>1. PICK p \in Pollers \ AlivePollers :
              poller' = p /\ ppc' = [ppc EXCEPT ![p] = "top"]
      BY <2>3 DEF WgSpawnsPoller
    <3>2. ASSUME ~expired PROVE AlivePollers' = {p}
      BY <2>0, <2>2, <3>1, <3>2
    <3>3. ASSUME ~expired PROVE PollerInOrder' /\ HandleInOrder'
      BY <1>0, <1>4, <2>2, <2>3, <3>1, <3>2, <3>3, NullAssumption
         DEF Spawn, WgSpawnsPoller, Handshaking, Goto, TypeOK, WgTypeOK
    <3>. QED
      BY <2>1, <2>3, <3>3 DEF WgSpawnsPoller, Handshaking
  <2>4. CASE WgSpawnFails(t, "idle")
    BY <1>0, <1>4, <2>1, <2>2, <2>4
       DEF Spawn, WgSpawnFails, Handshaking, Goto
  <2>. QED
    BY <1>4, <2>3, <2>4 DEF Spawn
<1>5. CASE CallStop(t)
  BY <1>0, <1>5 DEF CallStop, StopSignals, Goto
<1>6. CASE Take(t)
  BY <1>0, <1>6 DEF Take, StopTakes, StopTakeExpires, Goto
<1>7. CASE DeleteSem(t)
  BY <1>0, <1>7 DEF DeleteSem, StopDeletesSem, Goto
<1>8. CASE ClearFlag(t)
  BY <1>0, <1>8 DEF ClearFlag, StopClearsFlag, Goto
<1>9. CASE Disconnect(t)
  BY <1>0, <1>9 DEF Disconnect, StopDisconnects, StopCallFails, Goto
<1>10. CASE ReportDown(t)
  BY <1>0, <1>10 DEF ReportDown, StopReportsDown, Goto
<1>. QED
  BY <1>1, <1>2, <1>3, <1>4, <1>5, <1>6, <1>7, <1>8, <1>9, <1>10 DEF CallerStep

LEMMA PollerKeeps ==
    ASSUME IInv, NEW p \in Pollers, PollerStep(p)
    PROVE  InterfaceKnown' /\ Orderly'
<1> USE DEF IInv, InterfaceKnown, Orderly, PollerInOrder, HandleInOrder,
            AlivePollers, tunnel, pollerVars
<1>0. ppc \in [Pollers -> PollerPCs]
  BY DEF TypeOK, WgTypeOK
<1>1. CASE PollerStops(p)
  BY <1>0, <1>1 DEF PollerStops, PollerGives
<1>2. CASE PollerGoesOn(p)
  BY <1>0, <1>2 DEF PollerGoesOn
<1>3. CASE PollerAsks(p)
  BY <1>0, <1>3 DEF PollerAsks
<1>4. CASE PollerReportsUp(p)
  BY <1>0, <1>4 DEF PollerReportsUp, PollerGives
<1>. QED
  BY <1>1, <1>2, <1>3, <1>4 DEF PollerStep

LEMMA StepKeeps == IInv /\ [Next]_vars => IInv'
<1> SUFFICES ASSUME IInv, [Next]_vars PROVE IInv'
  OBVIOUS
<1>1. TypeOK'
  BY TypesKept DEF IInv
<1>2. CASE UNCHANGED vars
  BY <1>2 DEF vars, wgVars, IInv, InterfaceKnown, Orderly, PollerInOrder,
              HandleInOrder, AlivePollers, TypeOK, WgTypeOK
<1>. QED
  BY <1>1, <1>2, CallerKeeps, PollerKeeps DEF IInv, Next, Faulted

LEMMA Invariance == Spec => []IInv
BY InitHolds, StepKeeps, PTL DEF Spec

-----------------------------------------------------------------------------

\* A caller that keeps the discipline meets no assertion and no deleted
\* semaphore before a take expired or a disconnect could not be called
\* (newt_wg.c:262-280).
THEOREM UsesAreSafe == Spec => []LegalUseIsSafe
<1>1. IInv => LegalUseIsSafe
  BY DEF IInv, Orderly, LegalUseIsSafe
<1>. QED
  BY <1>1, Invariance, PTL

\* After the token has been taken no poll task is left (newt_wg.c:265-275).
THEOREM PollerJoined == Spec => []StopJoinsPoller
<1>1. IInv => StopJoinsPoller
  BY DEF IInv, Orderly, PollerInOrder, HandleInOrder, StopJoinsPoller
<1>. QED
  BY <1>1, Invariance, PTL

\* Only a tunnel whose handshake is under way comes up (newt_wg.c:213).
THEOREM UpFollowsHandshake == Spec => NoLateUp
<1>1. IInv /\ [Next]_vars =>
        [state' = "UP" /\ state # "UP" /\ ~expired => state = "HANDSHAKING"]_vars
  <2> SUFFICES ASSUME IInv, Next
               PROVE  state' = "UP" /\ state # "UP" /\ ~expired
                          => state = "HANDSHAKING"
    OBVIOUS
  <2>1. ASSUME NEW t \in Tasks, CallerStep(t) PROVE state' # "UP" \/ state' = state
    <3>1. CASE Connect(t)
      BY <3>1 DEF Connect, WgConnects, WgConnectRetries, WgConnectFails,
                  CreatesNetif, tunnel
    <3>2. CASE ~Connect(t)
      BY <2>1, <3>2
         DEF CallerStep, CallInit, WgInit, WgInitFails, CallStart, Spawn,
             WgSpawnsPoller, WgSpawnFails, Handshaking, CallStop, StopSignals,
             Take, StopTakes, StopTakeExpires, DeleteSem, StopDeletesSem,
             ClearFlag, StopClearsFlag, Disconnect, StopDisconnects,
             StopCallFails, ReportDown, StopReportsDown, tunnel
    <3>. QED
      BY <3>1, <3>2
  <2>2. ASSUME NEW p \in Pollers, PollerStep(p), ~expired, state' # state
        PROVE  state = "HANDSHAKING"
    BY <2>2 DEF IInv, Orderly, PollerInOrder, AlivePollers, PollerStep,
                PollerStops, PollerGoesOn, PollerAsks, PollerReportsUp, tunnel
  <2>. QED
    BY <2>1, <2>2 DEF Next, Faulted, vars, wgVars
<1>. QED
  BY <1>1, Invariance, PTL DEF Spec, NoLateUp

-----------------------------------------------------------------------------
(* EspWireguard: the device, the peer, the resolver and the routes.        *)

\* The device is there exactly while the context has its netif, and only then
\* can the default route lead through it.
DeviceBehind ==
    /\ device = ctxNetif /\ timer = device
    /\ pcbs = IF device THEN 1 ELSE 0
    /\ peerIndex = 0 \/ peer.valid \/ default = "wg" => device
    /\ ctxDefault # "wg"

\* A peer leads to the host of the present configuration, which cannot change
\* while there is a device.
PeerInOrder ==
    peer.valid => /\ peer.connectIp = host
                  /\ "own" \in peer.allowed
                  /\ peer.allowed \subseteq {"own", "server"}

PeerReady == peerIndex = 0 /\ peer.valid /\ peer.active

\* From the connect that succeeded to the disconnect the tunnel has its peer.
TunnelInOrder ==
    ~expired =>
        /\ \A t \in Tasks : pc[t] = "spawn" => PeerReady
        /\ state \in {"HANDSHAKING", "UP"} /\ (\A t \in Tasks : pc[t] # "down") =>
              /\ PeerReady /\ ctxNetif
              /\ "server" \in peer.allowed \/ MaxSrcIps = 1 \/ refused

\* There is a host to connect to from the first newt_wg_init on.
HostKnown ==
    \/ host \in Hosts
    \/ /\ state = "DOWN" /\ ~ctxNetif /\ AlivePollers = {}
       /\ \A t \in Tasks : pc[t] = "idle"

EspIInv ==
    IInv /\ EspTypeOK /\ DeviceBehind /\ PeerInOrder /\ HostKnown /\ TunnelInOrder

-----------------------------------------------------------------------------
(* The control functions with what lies below are the control functions.   *)

LEMMA ResolvesIsConnect ==
    ASSUME NEW t \in Tasks, Resolves(t)
    PROVE  \/ WgConnects(t, "spawn")
           \/ WgConnectRetries(t, "connect", "idle")
           \/ WgConnectFails(t, "idle")
BY DEF Resolves, PeerConnects, PeerFails

LEMMA ConnectIsConnect == ASSUME NEW t \in Tasks, EspConnect(t) PROVE Connect(t)
BY ResolvesIsConnect DEF EspConnect, NetifCreateFails, Connect

LEMMA CallerRefines ==
    ASSUME NEW t \in Tasks, EspCallerStep(t) PROVE CallerStep(t)
<1>1. CASE EspCallInit(t)
  BY <1>1 DEF EspCallInit, CallInit, CallerStep
<1>2. CASE EspConnect(t)
  BY <1>2, ConnectIsConnect DEF CallerStep
<1>3. CASE EspSpawn(t)
  BY <1>3 DEF EspSpawn, CallerStep
<1>4. CASE EspDisconnect(t)
  BY <1>4 DEF EspDisconnect, Disconnect, CallerStep
<1>5. CASE EspDisconnectFails(t)
  BY <1>5 DEF EspDisconnectFails, Disconnect, CallerStep
<1>. QED
  BY <1>1, <1>2, <1>3, <1>4, <1>5 DEF EspCallerStep, CallerStep

LEMMA StepRefines == [EspNext]_espVars => [Next]_vars
<1>1. ASSUME NEW t \in Tasks, EspCallerStep(t), fault = "none" PROVE Next
  BY <1>1, CallerRefines DEF Next
<1>2. ASSUME NEW p \in Pollers, EspPoller(p), fault = "none" PROVE Next
  BY <1>2 DEF EspPoller, Next
<1>3. ASSUME NEW h \in Hosts, Answer(h) \/ Forget(h) PROVE UNCHANGED vars
  BY <1>3 DEF Answer, Forget
<1>6. SetDefault \/ RestoreDefault \/ LinkChanges => UNCHANGED vars
  BY DEF SetDefault, RestoreDefault, LinkChanges
<1>4. CASE EspFaulted
  BY <1>4 DEF EspFaulted, Faulted
<1>5. CASE UNCHANGED espVars
  BY <1>5 DEF espVars
<1>. QED
  BY <1>1, <1>2, <1>3, <1>4, <1>5, <1>6 DEF EspNext

\* Every behaviour of the control functions with the device, the peer and the
\* resolver below them is one of the control functions alone
\* (esp_wireguard.c:189-382, newt_wg.c:155-280).
THEOREM ImplementsControl == EspSpec => Spec
<1>1. EspInit => Init
  BY DEF EspInit
<1>. QED
  BY <1>1, StepRefines, PTL DEF EspSpec, Spec

-----------------------------------------------------------------------------
(* The peer of the device.                                                 *)

LEMMA FirstIpFits == AddIp({}, "own") = {"own"}
BY FS_EmptySet, SrcIpsAssumption DEF AddIp

\* The server's address finds a slot unless there is only one.
LEMMA SecondIpFits ==
    ASSUME NEW allowed \in SUBSET {"own", "server"}, "own" \in allowed
    PROVE  /\ AddIp(allowed, "server") \subseteq {"own", "server"}
           /\ "own" \in AddIp(allowed, "server")
           /\ "server" \in AddIp(allowed, "server") \/ MaxSrcIps = 1
<1>1. CASE "server" \in allowed
  BY <1>1 DEF AddIp
<1>2. CASE "server" \notin allowed
  <2>1. allowed = {"own"} /\ Cardinality({"own"}) = 1
    BY <1>2, FS_Singleton
  <2>. QED
    BY <2>1, SrcIpsAssumption DEF AddIp
<1>. QED
  BY <1>1, <1>2

LEMMA FoundPeerKnown ==
    ASSUME EspIInv
    PROVE  /\ FoundPeer \in Peers
           /\ FoundPeer.valid => ctxNetif /\ FoundPeer = peer
BY DEF EspIInv, EspTypeOK, FoundPeer, NoPeer, Peers

LEMMA AddPeerKnown ==
    ASSUME EspIInv, Knows(host)
    PROVE  /\ AddPeer \in Peers
           /\ AddPeer.valid
           /\ AddPeer.connectIp = host
           /\ "own" \in AddPeer.allowed
           /\ AddPeer.allowed \subseteq {"own", "server"}
           /\ FoundPeer.valid => AddPeer = peer
<1>1. CASE FoundPeer.valid
  BY <1>1, FoundPeerKnown DEF AddPeer, EspIInv, PeerInOrder, EspTypeOK, Peers
<1>2. CASE ~FoundPeer.valid
  <2>1. endpointIp' = host /\ host \in Hosts
    BY DEF Knows, EspIInv, EspTypeOK
  <2>2. AddPeer = [valid |-> TRUE, active |-> FALSE, connectIp |-> host,
                   allowed |-> {"own"}]
    BY <1>2, <2>1, FirstIpFits DEF AddPeer
  <2>. QED
    BY <1>2, <2>1, <2>2 DEF Peers
<1>. QED
  BY <1>1, <1>2

LEMMA EspInitHolds == EspInit => EspIInv
<1> SUFFICES ASSUME EspInit PROVE EspIInv
  OBVIOUS
<1>1. IInv /\ TypeOK
  BY InitHolds DEF EspInit, IInv
<1>2. \A t \in Tasks : pc[t] = "idle"
  BY DEF EspInit, Init
<1>3. NoPeer \in Peers
  BY DEF NoPeer, Peers
<1>4. EspTypeOK
  <2>1. 0 \in Nat
    OBVIOUS
  <2>. QED
    BY <1>1, <1>3, <2>1, Zenon DEF EspInit, EspTypeOK, Routes
<1>5. DeviceBehind /\ PeerInOrder
  <2>1. NoPeer.valid = FALSE
    BY DEF NoPeer
  <2>2. Invalid # 0
    BY DEF Invalid
  <2>3. default # "wg" /\ ctxDefault # "wg"
    BY DEF EspInit
  <2>. QED
    BY <2>1, <2>2, <2>3, Zenon
       DEF EspInit, Init, WgInitState, DeviceBehind, PeerInOrder
<1>6. TunnelInOrder
  BY <1>2 DEF EspInit, Init, WgInitState, TunnelInOrder
<1>7. HostKnown
  BY <1>2 DEF EspInit, Init, WgInitState, HostKnown, AlivePollers
<1>. QED
  BY <1>1, <1>4, <1>5, <1>6, <1>7 DEF EspIInv

-----------------------------------------------------------------------------
(* The steps.                                                              *)

Below == EspTypeOK /\ DeviceBehind /\ PeerInOrder /\ HostKnown /\ TunnelInOrder

LEMMA OneTask ==
    ASSUME EspIInv, NEW t \in Tasks, NEW label, Goto(t, label)
    PROVE  \A u \in Tasks : pc[u] = pc[t] /\ pc'[u] = label
BY OneCaller DEF EspIInv, EspTypeOK, TypeOK, Goto

LEMMA CallInitKeeps ==
    ASSUME EspIInv, TypeOK', NEW t \in Tasks, EspCallInit(t) PROVE Below'
<1>1. device = FALSE /\ timer = FALSE /\ pcbs = 0 /\ ctxNetif = FALSE
      /\ ~peer.valid /\ peerIndex # 0 /\ default # "wg" /\ ctxDefault # "wg"
  BY DEF EspCallInit, MayInit, EspIInv, IInv, InterfaceKnown, DeviceBehind,
         EspTypeOK, TypeOK, WgTypeOK
<1>2. ctxNetif' = FALSE /\ Goto(t, "idle") /\ pc[t] = "idle" /\ expired' = expired
  BY <1>1 DEF EspCallInit, MayInit, WgInit, WgInitFails, tunnel
<1>3. \A u \in Tasks : pc[u] = "idle" /\ pc'[u] = "idle"
  BY <1>2, OneTask
<1>4. UNCHANGED <<device, timer, pcbs, peer, peerIndex, refused>>
  BY DEF EspCallInit, deviceVars, peerVars
<1>9. default' = default /\ ctxDefault' \in {default, ctxDefault}
  BY DEF EspCallInit, NotesDefault, routes
<1>5. DeviceBehind' /\ PeerInOrder'
  BY <1>1, <1>2, <1>4, <1>9 DEF DeviceBehind, PeerInOrder
<1>6. TunnelInOrder'
  <2>1. state' = "RESOLVING" \/ state' = state
    BY DEF EspCallInit, WgInit, WgInitFails, tunnel
  <2>2. ASSUME ~expired PROVE state \notin {"HANDSHAKING", "UP"}
    BY <1>1, <1>3, <2>2 DEF EspIInv, TunnelInOrder
  <2>. QED
    BY <1>2, <1>3, <2>1, <2>2 DEF TunnelInOrder
<1>7. EspTypeOK'
  BY <1>4, <1>9 DEF EspIInv, EspTypeOK, EspCallInit, Asks, Knows, InProgress, resolver
<1>8. HostKnown'
  BY <1>1, <1>2, <1>3
     DEF EspIInv, HostKnown, EspCallInit, Asks, WgInit, WgInitFails, tunnel,
         resolver, AlivePollers
<1>. QED
  BY <1>5, <1>6, <1>7, <1>8 DEF Below

\* Every early exit of wireguardif_init frees all it has taken.
LEMMA ExitsGiveBack ==
    ASSUME device \in BOOLEAN, DeviceInitFails
    PROVE  UNCHANGED deviceVars
<1>1. PICK exit \in InitExits :
          /\ device' = (device \/ "device" \in exit.taken \ exit.freed)
          /\ pcbs' = IF "pcb" \in exit.taken \ exit.freed THEN pcbs + 1 ELSE pcbs
          /\ UNCHANGED timer
  BY DEF DeviceInitFails
<1>2. exit.taken \ exit.freed = {}
  BY DEF InitExits
<1>3. device' = device
  BY <1>1, <1>2, Zenon
<1>. QED
  BY <1>1, <1>2, <1>3 DEF deviceVars

LEMMA ConnectKeeps ==
    ASSUME EspIInv, TypeOK', NEW t \in Tasks, EspConnect(t) PROVE Below'
<1> USE DEF EspIInv
<1>1. Connect(t) /\ pc[t] = "connect"
  BY ConnectIsConnect DEF EspConnect
<1>2. state' = state /\ expired' = expired /\ host' = host /\ refused' = refused
  BY DEF EspConnect, NetifCreateFails, Resolves, PeerConnects, PeerFails,
         WgConnects, WgConnectRetries, WgConnectFails, CreatesNetif, tunnel,
         resolver, peerVars
<1>0. host \in Hosts /\ HostKnown'
  BY <1>1, <1>2 DEF HostKnown
<1>3. PICK label \in {"connect", "spawn", "idle"} : Goto(t, label)
  BY <1>1 DEF Connect, WgConnects, WgConnectRetries, WgConnectFails
<1>4. \A u \in Tasks : pc[u] = "connect" /\ pc'[u] = label
  BY <1>1, <1>3, OneTask
<1>5. CASE NetifCreateFails(t)
  <2>1. UNCHANGED <<device, timer, pcbs, peer, peerIndex, ctxNetif, default, ctxDefault>>
    <3>1. UNCHANGED deviceVars
      BY <1>5, ExitsGiveBack DEF NetifCreateFails, EspTypeOK
    <3>. QED
      BY <1>5, <3>1 DEF NetifCreateFails, deviceVars, peerVars, routes,
                        TypeOK, WgTypeOK, EspTypeOK
  <2>2. label = "idle"
    BY <1>4, <1>5, OneTask DEF NetifCreateFails, WgConnectFails
  <2>3. EspTypeOK'
    BY <2>1, <1>2, <1>5 DEF EspTypeOK, NetifCreateFails, resolver
  <2>4. DeviceBehind' /\ PeerInOrder'
    BY <2>1, <1>2 DEF DeviceBehind, PeerInOrder
  <2>5. TunnelInOrder'
    BY <2>1, <2>2, <1>2, <1>4 DEF TunnelInOrder, PeerReady
  <2>. QED
    BY <1>0, <2>3, <2>4, <2>5 DEF Below
<1>6. CASE /\ Resolves(t) /\ ctxNetif'
           /\ IF ctxNetif
              THEN UNCHANGED <<deviceVars, routes>>
              ELSE DeviceInit /\ NotesDefault
  <2>1. /\ device' = TRUE /\ timer' = TRUE /\ pcbs' = 1 /\ ctxNetif' = TRUE
    BY <1>6 DEF DeviceBehind, DeviceInit, deviceVars, TypeOK, WgTypeOK, EspTypeOK
  <2>6. default' = default /\ ctxDefault' # "wg" /\ ctxDefault' \in Routes
    BY <1>6 DEF DeviceBehind, NotesDefault, routes, EspTypeOK
  <2>2. /\ peer' \in Peers /\ peerIndex' \in {0, Invalid}
        /\ PeerInOrder'
        /\ label = "spawn" => PeerReady'
        /\ FoundPeer.valid /\ PeerReady =>
              PeerReady' /\ peer'.allowed = peer.allowed
    <3>1. CASE Knows(host) /\ PeerConnects(t)
      <4>1. peer' = [AddPeer EXCEPT !.active = TRUE] /\ peerIndex' = 0
        BY <3>1 DEF PeerConnects
      <4>2. /\ peer' \in Peers /\ peer'.valid /\ peer'.active
            /\ peer'.connectIp = AddPeer.connectIp
            /\ peer'.allowed = AddPeer.allowed
        BY <4>1, <3>1, AddPeerKnown DEF Peers
      <4>. QED
        BY <4>1, <4>2, <3>1, <1>2, AddPeerKnown DEF PeerInOrder, PeerReady
    <3>2. CASE Knows(host) /\ PeerFails(t)
      <4>1. label = "idle"
        BY <3>2, <1>4, OneTask DEF PeerFails, WgConnectFails
      <4>2. NoPeer \in Peers /\ ~NoPeer.valid
        BY DEF NoPeer, Peers
      <4>. QED
        BY <4>1, <4>2, <3>2, <1>2, FoundPeerKnown, AddPeerKnown
           DEF PeerFails, PeerInOrder, PeerReady
    <3>3. CASE peer' = FoundPeer /\ peerIndex' = peerIndex /\ ~Goto(t, "spawn")
      BY <3>3, <1>2, <1>3, FoundPeerKnown DEF PeerInOrder, PeerReady, EspTypeOK
    <3>4. Goto(t, "idle") \/ Goto(t, "connect") => ~Goto(t, "spawn")
      BY OneTask
    <3>. QED
      BY <1>6, <3>1, <3>2, <3>3, <3>4
         DEF Resolves, WgConnectRetries, WgConnectFails
  <2>3. EspTypeOK'
    <3>1. /\ endpointIp' \in Hosts \cup {NULL}
          /\ asked' \subseteq Hosts /\ cached' \subseteq Hosts
      <4>1. cached \subseteq Hosts /\ asked \subseteq Hosts
            /\ host \in Hosts /\ endpointIp \in Hosts \cup {NULL}
        BY <1>0 DEF EspTypeOK
      <4>2. CASE Knows(host)
        BY <4>1, <4>2 DEF Knows
      <4>. QED
        BY <4>1, <4>2, <1>6 DEF Resolves, InProgress
    <3>. QED
      BY <3>1, <2>1, <2>2, <2>6, <1>2 DEF EspTypeOK
  <2>4. DeviceBehind'
    BY <2>1, <2>6 DEF DeviceBehind
  <2>5. TunnelInOrder'
    <3>1. ASSUME ~expired, state \in {"HANDSHAKING", "UP"}
          PROVE  /\ PeerReady' /\ ctxNetif'
                 /\ "server" \in peer'.allowed \/ MaxSrcIps = 1 \/ refused
      <4>1. /\ PeerReady /\ ctxNetif
            /\ "server" \in peer.allowed \/ MaxSrcIps = 1 \/ refused
        BY <3>1, <1>4 DEF TunnelInOrder
      <4>2. FoundPeer.valid
        BY <4>1 DEF FoundPeer, PeerReady
      <4>. QED
        BY <4>1, <4>2, <2>1, <2>2
    <3>. QED
      BY <3>1, <2>2, <1>2, <1>4 DEF TunnelInOrder
  <2>. QED
    BY <1>0, <2>2, <2>3, <2>4, <2>5 DEF Below
<1>. QED
  BY <1>5, <1>6 DEF EspConnect

LEMMA SpawnKeeps ==
    ASSUME EspIInv, TypeOK', NEW t \in Tasks, EspSpawn(t) PROVE Below'
<1> USE DEF EspIInv
<1>1. pc[t] = "spawn" /\ Goto(t, "idle") /\ state' = "HANDSHAKING"
      /\ expired' = expired /\ ctxNetif' = ctxNetif
  BY DEF EspSpawn, Spawn, WgSpawnsPoller, WgSpawnFails, Handshaking
<1>2. \A u \in Tasks : pc[u] = "spawn" /\ pc'[u] = "idle"
  BY <1>1, OneTask
<1>3. UNCHANGED <<host, endpointIp, asked, cached, device, pcbs, timer, peerIndex,
                  default, ctxDefault>>
  BY DEF EspSpawn, resolver, deviceVars, routes
<1>4. ctxNetif /\ host \in Hosts
  BY <1>1 DEF IInv, InterfaceKnown, HostKnown
<1>5. \/ peer' = [peer EXCEPT !.allowed = AddIp(@, "server")] /\ refused' = refused
      \/ peer' = peer /\ refused' = TRUE
  BY DEF EspSpawn
<1>6. /\ peer' \in Peers /\ peer'.valid = peer.valid
      /\ peer'.active = peer.active /\ peer'.connectIp = peer.connectIp
      /\ refused' \in BOOLEAN
  <2>1. AddIp(peer.allowed, "server") \subseteq {"own", "server"}
    BY DEF EspTypeOK, Peers, AddIp
  <2>. QED
    BY <1>5, <2>1 DEF EspTypeOK, Peers
<1>7. peer.valid => /\ "own" \in peer'.allowed
                    /\ peer'.allowed \subseteq {"own", "server"}
                    /\ "server" \in peer'.allowed \/ MaxSrcIps = 1 \/ refused'
  <2>1. peer.valid => peer.allowed \in SUBSET {"own", "server"} /\ "own" \in peer.allowed
    BY DEF PeerInOrder
  <2>2. peer \in Peers
    BY DEF EspTypeOK
  <2>. QED
    BY <1>5, <2>1, <2>2, SecondIpFits DEF Peers
<1>8. EspTypeOK'
  BY <1>3, <1>6 DEF EspTypeOK
<1>9. DeviceBehind' /\ PeerInOrder' /\ HostKnown'
  BY <1>1, <1>3, <1>4, <1>6, <1>7 DEF DeviceBehind, PeerInOrder, HostKnown
<1>10. TunnelInOrder'
  BY <1>1, <1>2, <1>3, <1>4, <1>6, <1>7 DEF TunnelInOrder, PeerReady
<1>. QED
  BY <1>8, <1>9, <1>10 DEF Below

LEMMA DisconnectKeeps ==
    ASSUME EspIInv, TypeOK', NEW t \in Tasks,
           EspDisconnect(t) \/ EspDisconnectFails(t)
    PROVE  Below'
<1> USE DEF EspIInv
<1>1. pc[t] = "disc" /\ Goto(t, "down") /\ state' = state
  BY DEF EspDisconnect, EspDisconnectFails, StopDisconnects, StopCallFails, tunnel
<1>2. \A u \in Tasks : pc[u] = "disc" /\ pc'[u] = "down"
  BY <1>1, OneTask
<1>3. ctxNetif /\ host \in Hosts
  BY <1>1 DEF IInv, InterfaceKnown, HostKnown
<1>4. UNCHANGED resolver
  BY DEF EspDisconnect, EspDisconnectFails, glue
<1>5. TunnelInOrder' /\ HostKnown'
  BY <1>2, <1>3, <1>4 DEF TunnelInOrder, HostKnown, resolver
<1>6. CASE EspDisconnect(t)
  <2>1. /\ device' = FALSE /\ timer' = FALSE /\ pcbs' = 0 /\ ctxNetif' = FALSE
        /\ peer' = NoPeer /\ peerIndex' = Invalid /\ refused' = FALSE
        /\ default' = ctxDefault /\ ctxDefault' = ctxDefault
    BY <1>3, <1>6 DEF EspDisconnect, StopDisconnects, RemovePeer, Shutdown, Fini,
                      GivesDefaultBack, DeviceBehind
  <2>2. NoPeer \in Peers /\ NoPeer.valid = FALSE /\ Invalid # 0 /\ 0 \in Nat
    BY DEF NoPeer, Peers, Invalid
  <2>3. DeviceBehind' /\ PeerInOrder'
    BY <2>1, <2>2 DEF DeviceBehind, PeerInOrder
  <2>4. EspTypeOK'
    BY <2>1, <2>2, <1>4 DEF EspTypeOK, resolver
  <2>. QED
    BY <1>5, <2>3, <2>4 DEF Below
<1>7. CASE EspDisconnectFails(t)
  BY <1>5, <1>7
     DEF EspDisconnectFails, StopCallFails, glue, resolver, deviceVars,
         peerVars, routes, tunnel, EspTypeOK, DeviceBehind, PeerInOrder, Below
<1>. QED
  BY <1>6, <1>7

\* The steps of the caller that do not reach esp_wireguard.c.
Above(t) ==
    CallStart(t) \/ CallStop(t) \/ Take(t) \/ DeleteSem(t) \/ ClearFlag(t)
    \/ ReportDown(t)

LEMMA AboveKeeps ==
    ASSUME EspIInv, TypeOK', NEW t \in Tasks, Above(t), UNCHANGED glue
    PROVE  Below'
<1> USE DEF EspIInv
<1>1. UNCHANGED <<host, endpointIp, asked, cached, device, pcbs, timer, peer,
                  peerIndex, refused, default, ctxDefault>>
  BY DEF glue, resolver, deviceVars, peerVars, routes
<1>2. /\ ctxNetif' = ctxNetif /\ (expired' \/ ~expired)
      /\ \/ state' = state /\ ~ReportDown(t)
         \/ state' = "DOWN"
  BY DEF Above, CallStart, CallStop, StopSignals, Take, StopTakes,
         StopTakeExpires, DeleteSem, StopDeletesSem, ClearFlag, StopClearsFlag,
         ReportDown, StopReportsDown, tunnel
<1>3. PICK label \in CallerPCs \ {"spawn", "down"} : Goto(t, label)
  BY DEF Above, CallStart, CallStop, StopSignals, Take, StopTakes,
         StopTakeExpires, DeleteSem, StopDeletesSem, ClearFlag, StopClearsFlag,
         ReportDown, StopReportsDown, CallerPCs
<1>4. \A u \in Tasks : pc[u] = pc[t] /\ pc'[u] = label
  BY <1>3, OneTask
<1>5. DeviceBehind' /\ PeerInOrder' /\ EspTypeOK'
  BY <1>1, <1>2 DEF DeviceBehind, PeerInOrder, EspTypeOK
<1>6. HostKnown'
  <2>1. host \in Hosts
    BY DEF HostKnown, Above, CallStart, CallStop, Take, DeleteSem, ClearFlag,
           ReportDown
  <2>. QED
    BY <1>1, <2>1 DEF HostKnown
<1>7. TunnelInOrder'
  <2>1. pc[t] # "down" \/ state' = "DOWN"
    BY <1>2 DEF Above, CallStart, CallStop, Take, DeleteSem, ClearFlag
  <2>. QED
    BY <1>1, <1>2, <1>4, <2>1 DEF TunnelInOrder, PeerReady
<1>. QED
  BY <1>5, <1>6, <1>7 DEF Below

LEMMA EspPollerKeeps ==
    ASSUME EspIInv, TypeOK', NEW p \in Pollers, EspPoller(p) PROVE Below'
<1> USE DEF EspIInv
<1>1. UNCHANGED <<host, endpointIp, asked, cached, device, pcbs, timer, peer,
                  peerIndex, refused, default, ctxDefault>>
  BY DEF EspPoller, glue, resolver, deviceVars, peerVars, routes
<1>2. pc' = pc /\ ctxNetif' = ctxNetif /\ expired' = expired
  BY DEF EspPoller, PollerStep, PollerStops, PollerGoesOn, PollerAsks,
         PollerReportsUp, tunnel
<1>3. p \in AlivePollers
  BY DEF EspPoller, PollerStep, PollerStops, PollerGoesOn, PollerAsks,
         PollerReportsUp, AlivePollers
<1>4. ASSUME ~expired PROVE state = "HANDSHAKING"
  BY <1>3, <1>4 DEF IInv, Orderly, PollerInOrder
<1>5. DeviceBehind' /\ PeerInOrder' /\ EspTypeOK'
  BY <1>1, <1>2 DEF DeviceBehind, PeerInOrder, EspTypeOK
<1>6. HostKnown'
  BY <1>1, <1>3 DEF HostKnown
<1>7. TunnelInOrder'
  BY <1>1, <1>2, <1>4 DEF TunnelInOrder, PeerReady
<1>. QED
  BY <1>5, <1>6, <1>7 DEF Below

LEMMA ResolverKeeps ==
    ASSUME EspIInv, TypeOK', NEW h \in Hosts, Answer(h) \/ Forget(h)
    PROVE  Below'
<1>1. UNCHANGED vars /\ UNCHANGED <<host, device, pcbs, timer, peer, peerIndex,
                                    refused, default, ctxDefault>>
  BY DEF Answer, Forget, deviceVars, peerVars, routes
<1>2. /\ endpointIp' \in Hosts \cup {NULL}
      /\ asked' \subseteq Hosts /\ cached' \subseteq Hosts
  BY DEF EspIInv, EspTypeOK, Answer, Forget
<1>. QED
  BY <1>1, <1>2
     DEF vars, wgVars, EspIInv, EspTypeOK, DeviceBehind, PeerInOrder, HostKnown,
         TunnelInOrder, PeerReady, AlivePollers, Below

LEMMA RoutesKeep ==
    ASSUME EspIInv, TypeOK', SetDefault \/ RestoreDefault \/ LinkChanges
    PROVE  Below'
<1>1. UNCHANGED vars /\ UNCHANGED <<host, endpointIp, asked, cached, device, pcbs,
                                    timer, peer, peerIndex, refused, ctxDefault>>
  BY DEF SetDefault, RestoreDefault, LinkChanges, resolver, deviceVars, peerVars
<1>2. /\ default' \in Routes
      /\ default' = "wg" => device
  BY DEF SetDefault, RestoreDefault, LinkChanges, EspIInv, EspTypeOK, DeviceBehind,
         Routes
<1>. QED
  BY <1>1, <1>2
     DEF vars, wgVars, EspIInv, EspTypeOK, DeviceBehind, PeerInOrder, HostKnown,
         TunnelInOrder, PeerReady, AlivePollers, Below

LEMMA EspStepKeeps == EspIInv /\ [EspNext]_espVars => EspIInv'
<1> SUFFICES ASSUME EspIInv, [EspNext]_espVars PROVE EspIInv'
  OBVIOUS
<1>1. IInv' /\ TypeOK'
  BY StepRefines, StepKeeps DEF EspIInv, IInv
<1>2. ASSUME NEW t \in Tasks, EspCallerStep(t) PROVE Below'
  BY <1>1, <1>2, CallInitKeeps, ConnectKeeps, SpawnKeeps, DisconnectKeeps,
     AboveKeeps DEF EspCallerStep, Above
<1>3. ASSUME UNCHANGED espVars PROVE Below'
  <2>1. EspTypeOK' /\ DeviceBehind' /\ PeerInOrder'
    BY <1>1, <1>3
       DEF espVars, vars, wgVars, glue, resolver, deviceVars, peerVars, routes, EspIInv,
           EspTypeOK, DeviceBehind, PeerInOrder
  <2>2. HostKnown' /\ TunnelInOrder'
    BY <1>3
       DEF espVars, vars, wgVars, glue, resolver, deviceVars, peerVars, routes, EspIInv,
           HostKnown, TunnelInOrder, PeerReady, AlivePollers
  <2>. QED
    BY <2>1, <2>2 DEF Below
<1>4. ASSUME EspFaulted PROVE Below'
  BY <1>3, <1>4 DEF EspFaulted, Faulted, espVars
<1>5. Below'
  BY <1>1, <1>2, <1>3, <1>4, EspPollerKeeps, ResolverKeeps,
     RoutesKeep DEF EspNext
<1>. QED
  BY <1>1, <1>5 DEF EspIInv, Below

LEMMA EspInvariance == EspSpec => []EspIInv
BY EspInitHolds, EspStepKeeps, PTL DEF EspSpec

-----------------------------------------------------------------------------

\* A tunnel that is set up leads to the server of the last newt_wg_init, however
\* late the resolver answers (esp_wireguard.c:252-308).
THEOREM ReachesServer == EspSpec => []TunnelReachesServer
<1>1. EspIInv => TunnelReachesServer
  BY DEF EspIInv, TunnelInOrder, PeerInOrder, PeerReady, TunnelReachesServer
<1>. QED
  BY <1>1, EspInvariance, PTL

\* No timer, pcb or peer is left behind by a device (wireguardif.c:1014-1117).
THEOREM NothingLeftBehind == EspSpec => []NothingOutlivesDevice
<1>1. EspIInv => NothingOutlivesDevice
  BY DEF EspIInv, IInv, InterfaceKnown, DeviceBehind, NothingOutlivesDevice
<1>. QED
  BY <1>1, EspInvariance, PTL

\* The variables of the glue keep their types (esp_wireguard.c:62-66).
THEOREM EspTypeCorrect == EspSpec => []EspTypeOK
BY EspInvariance, PTL DEF EspIInv

\* What is proved of the control functions alone holds with the device, the peer
\* and the resolver below them (newt_wg.c:155-280).
COROLLARY ControlIsSafe ==
    EspSpec => []LegalUseIsSafe /\ []StopJoinsPoller /\ NoLateUp
BY ImplementsControl, UsesAreSafe, PollerJoined, UpFollowsHandshake, PTL
=============================================================================
