----------------------------- MODULE EspWireguard -----------------------------
(***************************************************************************)
(* What esp_wireguard.c and wireguardif.c keep for the one tunnel of       *)
(* WgLegal: the device behind the netif with its UDP pcb, its timer and    *)
(* its peer, and the address of the endpoint, for which lwIP's resolver is *)
(* asked by esp_wireguard_init and by every esp_wireguard_connect.  The    *)
(* resolver answers whenever it likes, on the lwIP thread, and its         *)
(* callback writes into whatever configuration there is by then.           *)
(*                                                                         *)
(* Each action is one of WgLegal's with what it does down here.  A device  *)
(* has one peer slot (WIREGUARD_MAX_PEERS).  A server is its host name,    *)
(* and the address a name stands for is the name again.  lwIP's default    *)
(* interface is the tunnel, the one below, or none.                        *)
(***************************************************************************)
EXTENDS WgLegal

CONSTANTS
    Hosts,      \* host names of servers
    MaxSrcIps   \* WIREGUARD_MAX_SRC_IPS

ASSUME HostsAssumption == NULL \notin Hosts
ASSUME SrcIpsAssumption == MaxSrcIps \in Nat \ {0}

VARIABLES
    host,       \* s_wg_cfg.endpoint of newt_wg.c
    endpointIp, \* s_wg_cfg.endpoint_ip, NULL for the address 0
    asked,      \* names whose answer will be given to the callback
    cached,     \* names the resolver knows
    device,     \* a struct wireguard_device is allocated, the netif's
    pcbs,       \* UDP pcbs taken from lwIP
    timer,      \* wireguardif_tmr is scheduled
    peer,       \* device->peers[0]
    peerIndex,  \* wireguard_peer_index
    refused,    \* history: the server's address was not passed on to lwIP
    default,    \* netif_default of lwIP
    ctxDefault  \* s_ctx.netif_default

resolver == <<host, endpointIp, asked, cached>>
deviceVars == <<device, pcbs, timer>>
peerVars == <<peer, peerIndex, refused>>
routes == <<default, ctxDefault>>
glue == <<resolver, deviceVars, peerVars, routes>>
espVars == <<vars, glue>>

Invalid == 255      \* WIREGUARDIF_INVALID_INDEX
NoPeer == [valid |-> FALSE, active |-> FALSE, connectIp |-> NULL, allowed |-> {}]
Routes == {"none", "base", "wg"}
Peers == [valid : BOOLEAN, active : BOOLEAN, connectIp : Hosts \cup {NULL},
          allowed : SUBSET {"own", "server"}]

EspTypeOK ==
    /\ TypeOK
    /\ host \in Hosts \cup {NULL} /\ endpointIp \in Hosts \cup {NULL}
    /\ asked \subseteq Hosts /\ cached \subseteq Hosts
    /\ device \in BOOLEAN /\ pcbs \in Nat /\ timer \in BOOLEAN
    /\ peer \in Peers /\ peerIndex \in {0, Invalid} /\ refused \in BOOLEAN
    /\ default \in Routes /\ ctxDefault \in Routes

EspInit ==
    /\ Init
    /\ host = NULL /\ endpointIp = NULL /\ asked = {} /\ cached = {}
    /\ device = FALSE /\ pcbs = 0 /\ timer = FALSE
    /\ peer = NoPeer /\ peerIndex = Invalid /\ refused = FALSE
    /\ default = "none" /\ ctxDefault = "none"

-----------------------------------------------------------------------------
(* dns_gethostbyname, and esp_wireguard_dns_query_callback on its answer.  *)

Knows(h) ==
    /\ h \in cached
    /\ endpointIp' = h
    /\ UNCHANGED <<asked, cached>>

InProgress(h) ==
    /\ h \notin cached
    /\ asked' = asked \cup {h}
    /\ UNCHANGED cached

Answer(h) ==
    /\ h \in asked
    /\ asked' = asked \ {h}
    /\ \/ cached' = cached \cup {h} /\ endpointIp' = h
       \/ endpointIp' = NULL /\ UNCHANGED cached
    /\ UNCHANGED <<vars, host, deviceVars, peerVars, routes>>

Forget(h) ==
    /\ h \in cached
    /\ cached' = cached \ {h}
    /\ UNCHANGED <<vars, host, endpointIp, asked, deviceVars, peerVars, routes>>

-----------------------------------------------------------------------------
(* The default route: esp_wireguard_set_default and _restore_default for    *)
(* the application, and esp_netif's choice as connections come and go.      *)

SetDefault ==
    /\ ctxNetif
    /\ default' = "wg"
    /\ UNCHANGED <<vars, resolver, deviceVars, peerVars, ctxDefault>>

RestoreDefault ==
    /\ ctxDefault # "none"
    /\ default' = ctxDefault
    /\ UNCHANGED <<vars, resolver, deviceVars, peerVars, ctxDefault>>

LinkChanges ==
    /\ default' \in {"none", "base"} \ {default}
    /\ UNCHANGED <<vars, resolver, deviceVars, peerVars, ctxDefault>>

NotesDefault == ctxDefault' = default /\ UNCHANGED default

-----------------------------------------------------------------------------
(* newt_wg_init with esp_wireguard_init                                    *)

\* s_wg_cfg starts from zero; only ERR_ARG of the resolver stops the init.
Asks(h) ==
    /\ host' = h
    /\ \/ Knows(h)
       \/ /\ InProgress(h) \/ UNCHANGED <<asked, cached>>
          /\ endpointIp' = NULL

EspCallInit(t) ==
    /\ MayInit(t)
    /\ \/ WgInitFails(t, "idle") /\ UNCHANGED <<resolver, routes>>
       \/ \E h \in Hosts :
             /\ Asks(h)
             /\ \/ WgInit(t, "idle") /\ NotesDefault
                \/ WgInitFails(t, "idle") /\ UNCHANGED routes
    /\ UNCHANGED <<deviceVars, peerVars>>

-----------------------------------------------------------------------------
(* newt_wg_start with esp_wireguard_connect                                *)

\* wireguardif_init, called by netif_add.
DeviceInit ==
    /\ device' = TRUE
    /\ pcbs' = pcbs + 1
    /\ timer' = TRUE

\* Faulty variant: where the memory is missing the pcb is kept.
InitExitsUneven ==
    {[taken |-> {}, freed |-> {}],
     [taken |-> {"pcb"}, freed |-> {"pcb"}],
     [taken |-> {"pcb"}, freed |-> {}],
     [taken |-> {"pcb", "device"}, freed |-> {"device", "pcb"}]}

\* What wireguardif_init has taken where it ends early, and what it frees there:
\* no interface below, a key that does not decode or no pcb; no port; no memory;
\* a device that cannot be set up.
InitExits ==
    {[taken |-> {}, freed |-> {}],
     [taken |-> {"pcb"}, freed |-> {"pcb"}],
     [taken |-> {"pcb", "device"}, freed |-> {"device", "pcb"}]}

DeviceInitFails ==
    \E exit \in InitExits :
        LET left == exit.taken \ exit.freed
        IN  /\ device' = (device \/ "device" \in left)
            /\ pcbs' = IF "pcb" \in left THEN pcbs + 1 ELSE pcbs
            /\ UNCHANGED timer

NetifCreateFails(t) ==
    /\ ~ctxNetif
    /\ DeviceInitFails
    /\ WgConnectFails(t, "idle")
    /\ ~ctxNetif'
    /\ UNCHANGED <<resolver, peerVars, routes>>

\* The peer a connect finds in the device that is there by then.
FoundPeer == IF ctxNetif THEN peer ELSE NoPeer

\* peer_add_ip: a known address needs no slot.
AddIp(allowed, ip) ==
    IF Cardinality(allowed) < MaxSrcIps THEN allowed \cup {ip} ELSE allowed

\* wireguardif_add_peer: a peer that is registered stays as it is.
AddPeer ==
    IF FoundPeer.valid
    THEN FoundPeer
    ELSE [valid |-> TRUE, active |-> FALSE, connectIp |-> endpointIp',
          allowed |-> AddIp({}, "own")]

PeerConnects(t) ==
    /\ peer' = [AddPeer EXCEPT !.active = TRUE]
    /\ peerIndex' = 0
    /\ WgConnects(t, "spawn")

\* The key does not decode; it is no point of the curve; there is no port.
PeerFails(t) ==
    /\ \/ ~FoundPeer.valid /\ peer' = FoundPeer /\ peerIndex' = Invalid
       \/ ~FoundPeer.valid /\ peer' = NoPeer /\ peerIndex' = 0
       \/ peer' = AddPeer /\ peerIndex' = 0
    /\ WgConnectFails(t, "idle")

\* Faulty variant: an address that is there already is as good as the answer.
ResolvesOrHas(t) ==
    \/ Knows(host) /\ (PeerConnects(t) \/ PeerFails(t))
    \/ /\ InProgress(host)
       /\ UNCHANGED endpointIp
       /\ IF endpointIp # NULL
          THEN PeerConnects(t)
          ELSE /\ WgConnectRetries(t, "connect", "idle")
               /\ peer' = FoundPeer
               /\ UNCHANGED peerIndex
    \/ /\ UNCHANGED <<endpointIp, asked, cached>>
       /\ WgConnectFails(t, "idle")
       /\ peer' = FoundPeer
       /\ UNCHANGED peerIndex

\* The resolver is asked again, and only what it answers at once counts.
Resolves(t) ==
    \/ Knows(host) /\ (PeerConnects(t) \/ PeerFails(t))
    \/ /\ InProgress(host)
       /\ UNCHANGED endpointIp
       /\ WgConnectRetries(t, "connect", "idle")
       /\ peer' = FoundPeer
       /\ UNCHANGED peerIndex
    \/ /\ UNCHANGED <<endpointIp, asked, cached>>
       /\ WgConnectFails(t, "idle")
       /\ peer' = FoundPeer
       /\ UNCHANGED peerIndex

EspConnect(t) ==
    /\ pc[t] = "connect"
    /\ \/ NetifCreateFails(t)
       \/ /\ IF ctxNetif
             THEN UNCHANGED <<deviceVars, routes>>
             ELSE DeviceInit /\ NotesDefault
          /\ Resolves(t)
          /\ ctxNetif'
          /\ UNCHANGED <<host, refused>>

\* wg_add_server_ip_impl, whose failure is only logged, and the rest.
EspSpawn(t) ==
    /\ Spawn(t)
    /\ \/ peer' = [peer EXCEPT !.allowed = AddIp(@, "server")] /\ UNCHANGED refused
       \/ CallMayFail /\ refused' = TRUE /\ UNCHANGED peer
    /\ UNCHANGED <<resolver, deviceVars, peerIndex, routes>>

-----------------------------------------------------------------------------
(* newt_wg_stop with esp_wireguard_disconnect                              *)

\* wireguardif_disconnect and wireguardif_remove_peer find no peer when there is
\* none.
RemovePeer ==
    /\ peer' = NoPeer
    /\ peerIndex' = Invalid
    /\ refused' = FALSE

Shutdown ==
    /\ pcbs' = pcbs - 1
    /\ timer' = FALSE

Fini == device' = FALSE

\* netif_set_default, after netif_remove
GivesDefaultBack ==
    /\ default' = ctxDefault
    /\ UNCHANGED ctxDefault

EspDisconnect(t) ==
    /\ pc[t] = "disc"
    /\ StopDisconnects(t, "down")
    /\ RemovePeer
    /\ Shutdown
    /\ Fini
    /\ GivesDefaultBack
    /\ UNCHANGED resolver

EspDisconnectFails(t) ==
    /\ pc[t] = "disc"
    /\ StopCallFails(t, "down")
    /\ UNCHANGED glue

-----------------------------------------------------------------------------
\* esp_wireguard_peer_is_up finds a session only with a peer that is there.
EspPoller(p) ==
    /\ PollerStep(p)
    /\ ppc[p] = "poll" /\ ppc'[p] = "up" => peerIndex = 0 /\ peer.valid
    /\ UNCHANGED glue

EspCallerStep(t) ==
    \/ EspCallInit(t) \/ EspConnect(t) \/ EspSpawn(t)
    \/ EspDisconnect(t) \/ EspDisconnectFails(t)
    \/ /\ \/ CallStart(t) \/ CallStop(t) \/ Take(t) \/ DeleteSem(t)
          \/ ClearFlag(t) \/ ReportDown(t)
       /\ UNCHANGED glue

EspFaulted == Faulted /\ UNCHANGED glue

EspNext ==
    \/ /\ fault = "none"
       /\ \/ \E t \in Tasks : EspCallerStep(t)
          \/ \E p \in Pollers : EspPoller(p)
          \/ \E h \in Hosts : Answer(h) \/ Forget(h)
          \/ SetDefault \/ RestoreDefault \/ LinkChanges
    \/ EspFaulted

EspSpec == EspInit /\ [][EspNext]_espVars

-----------------------------------------------------------------------------
(* Properties.                                                             *)

\* A tunnel that newt_wg_start has set up leads to the server of the last
\* newt_wg_init, whatever the resolver still answers for an earlier one, and
\* lets the device's own address through.  With two source addresses to a peer
\* the server's is let through, too, unless lwIP could not be called; README.md:63
\* says that one leaves no room for it (esp_wireguard.c:252-308, newt_wg.c:238).
TunnelReachesServer ==
    ~expired /\ fault = "none" /\ state \in {"HANDSHAKING", "UP"}
             /\ (\A t \in Tasks : pc[t] # "down") =>
        /\ peerIndex = 0 /\ peer.valid /\ peer.active
        /\ peer.connectIp = host
        /\ "own" \in peer.allowed
        /\ "server" \in peer.allowed \/ MaxSrcIps = 1 \/ refused

\* No timer, pcb or peer index outlives its device, and neither the device nor a
\* default route through it, now or as what a disconnect would restore, the
\* interface in lwIP, however wireguardif_init or a connect ends
\* (wireguardif.c:1014-1077, 1093-1117, esp_wireguard.c:220, 248, 376).
NothingOutlivesDevice ==
    fault = "none" =>
        /\ device = added /\ timer = device
        /\ pcbs = IF device THEN 1 ELSE 0
        /\ peerIndex = 0 \/ peer.valid \/ default = "wg" => device
        /\ ctxDefault # "wg"
=============================================================================
