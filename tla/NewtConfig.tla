------------------------------ MODULE NewtConfig ------------------------------
(***************************************************************************)
(* The way of a tunnel configuration from the wg/connect that carries it   *)
(* into WireGuard: cb_wg_connect of newt.c writes s_wg_cfg field by field  *)
(* on the WebSocket worker and sets BIT_WG_CONFIGURED; the supervisor and  *)
(* the reconnect tasks wait for the bit, and newt_wg_init and              *)
(* newt_wg_start read the fields.  Composed over NewtProto, which decides  *)
(* which wg/connect reaches the callback.                                  *)
(*                                                                         *)
(* A field's value is the chain id of the wg/connect it came from.  The    *)
(* fields are read at three times: newt_wg_init encodes the key and then   *)
(* copies addresses and port; the host is kept by pointer and read by      *)
(* every attempt of newt_wg_start to resolve it.                           *)
(***************************************************************************)
EXTENDS NewtProto

CONSTANT Sup    \* the supervisor; the other senders are reconnect tasks

ASSUME SupAssumption == Sup \in Senders

VARIABLES
    cfg,        \* s_wg_cfg of newt.c
    configured, \* BIT_WG_CONFIGURED
    cpc,        \* what cb_wg_connect does next
    stage,      \* where each task is
    own,        \* id of the registration each task sent, 0 for none
    tun,        \* what each task gave to WireGuard
    overwrites, \* history: a wg/connect came on top of one in use
    unasked,    \* history: one was taken with no request in flight
    early       \* history: one was applied before a task on its way to
                \* register had done so

protoVars == vars
configVars == <<cfg, configured, cpc, stage, own, tun, overwrites, unasked, early>>
allVars == <<protoVars, configVars>>

Fields == {"key", "host", "address"}
Unset == <<0, 0>>           \* what a field holds before the first wg/connect
Nothing == [f \in Fields |-> Unset]
Reading == {"key", "address", "connect"}
Stages == {"none", "start", "ping", "register", "await", "online"} \cup Reading

ConfigTypeOK ==
    /\ TypeOK
    /\ cfg \in [Fields -> Chains]
    /\ configured \in BOOLEAN
    /\ cpc \in {"none", "bit"} \cup Fields
    /\ stage \in [Senders -> Stages]
    /\ own \in [Senders -> 0..MaxIds]
    /\ tun \in [Senders -> [Fields -> Chains]]
    /\ {overwrites, unasked, early} \subseteq BOOLEAN

\* The supervisor is connected and about to send its first request.
ConfigInit ==
    /\ Init
    /\ cfg = Nothing
    /\ configured = FALSE
    /\ cpc = "none"
    /\ stage = [t \in Senders |-> IF t = Sup THEN "ping" ELSE "none"]
    /\ own = [t \in Senders |-> 0]
    /\ tun = [t \in Senders |-> Nothing]
    /\ overwrites = FALSE /\ unasked = FALSE /\ early = FALSE

GoesTo(t, next) == stage' = [stage EXCEPT ![t] = next]

-----------------------------------------------------------------------------
(* cb_wg_connect, inside handle_wg_connect on the worker.                  *)

InUse == configured \/ \E t \in Senders : stage[t] \in Reading

CbBegins ==
    /\ ConnectAccepted
    /\ cpc' = "key"
    /\ overwrites' = (overwrites \/ InUse)
    /\ unasked' = (unasked \/ reply' = NoChain \/ IsEmpty(inflight["register"]))
    /\ UNCHANGED <<cfg, configured, stage, own, tun, early>>

\* memcpy of the key, strlcpy of the host, then port and addresses.
CbWrites ==
    /\ cpc \in Fields
    /\ cfg' = [cfg EXCEPT ![cpc] = reply]
    /\ cpc' = CASE cpc = "key" -> "host"
                [] cpc = "host" -> "address"
                [] cpc = "address" -> "bit"
    /\ UNCHANGED <<protoVars, configured, stage, own, tun, overwrites, unasked, early>>

\* Faulty variant: the event bit is set before the last fields are written.
CbSetsBitEarly ==
    /\ IF cpc = "bit"
       THEN ConnectApplied /\ cpc' = "none"
       ELSE cpc = "address" /\ UNCHANGED <<protoVars, cpc>>
    /\ configured' = TRUE
    /\ early' = (early \/ \E t \in Senders : stage[t] \in {"ping", "register"})
    /\ UNCHANGED <<cfg, stage, own, tun, overwrites, unasked>>

CbSetsBit ==
    /\ cpc = "bit"
    /\ ConnectApplied
    /\ cpc' = "none"
    /\ configured' = TRUE
    /\ early' = (early \/ \E t \in Senders : stage[t] \in {"ping", "register"})
    /\ UNCHANGED <<cfg, stage, own, tun, overwrites, unasked>>

\* newt/wg/reconnect: one more task.
CbWgReconnect(t) ==
    /\ OtherMessage
    /\ t # Sup /\ stage[t] = "none"
    /\ GoesTo(t, "start")
    /\ UNCHANGED <<cfg, configured, cpc, own, tun, overwrites, unasked, early>>

OtherWork ==
    /\ ConnectDropped \/ ConnectCleared \/ ExitNodes \/ OtherMessage
    /\ UNCHANGED configVars

-----------------------------------------------------------------------------
(* supervisor_task and reconnect_task                                      *)

\* Faulty variant: the bit of the configuration before is left alone.
ReconnectKeepsBit(t) ==
    /\ stage[t] = "start"
    /\ GoesTo(t, "ping")
    /\ UNCHANGED <<protoVars, configured, cfg, cpc, own, tun, overwrites, unasked, early>>

\* A reconnect task clears the bit before it takes the old tunnel down.
ReconnectClearsBit(t) ==
    /\ stage[t] = "start"
    /\ configured' = FALSE
    /\ GoesTo(t, "ping")
    /\ UNCHANGED <<protoVars, cfg, cpc, own, tun, overwrites, unasked, early>>

BeginsRequest(t) ==
    /\ stage[t] \in Kinds
    /\ SendBegins(t, stage[t])
    /\ own' = IF stage[t] = "register" THEN [own EXCEPT ![t] = ids'] ELSE own
    /\ UNCHANGED <<cfg, configured, cpc, stage, tun, overwrites, unasked, early>>

FinishesId(t) == SendFinishesId(t) /\ UNCHANGED configVars

\* The answer to the send is not looked at.
SendsRequest(t) ==
    /\ SendTransmits(t)
    /\ GoesTo(t, IF stage[t] = "ping" THEN "register" ELSE "await")
    /\ UNCHANGED <<cfg, configured, cpc, own, tun, overwrites, unasked, early>>

Awakes(t) ==
    /\ stage[t] = "await"
    /\ configured
    /\ GoesTo(t, "key")
    /\ UNCHANGED <<protoVars, cfg, configured, cpc, own, tun, overwrites, unasked, early>>

Reads(t, f) == tun' = [tun EXCEPT ![t][f] = cfg[f]]

InitReadsKey(t) ==
    /\ stage[t] = "key"
    /\ Reads(t, "key")
    /\ GoesTo(t, "address")
    /\ UNCHANGED <<protoVars, cfg, configured, cpc, own, overwrites, unasked, early>>

InitReadsAddress(t) ==
    /\ stage[t] = "address"
    /\ Reads(t, "address")
    /\ GoesTo(t, "connect")
    /\ UNCHANGED <<protoVars, cfg, configured, cpc, own, overwrites, unasked, early>>

\* esp_wireguard_connect follows the pointer; ESP_ERR_RETRY asks again.
StartReadsHost(t) ==
    /\ stage[t] = "connect"
    /\ Reads(t, "host")
    /\ \E next \in {"connect", "online"} : GoesTo(t, next)
    /\ UNCHANGED <<protoVars, cfg, configured, cpc, own, overwrites, unasked, early>>

\* BIT_STOP, a timeout or an error; a reconnect task that is done goes, too.
Ends(t) ==
    /\ stage[t] \in {"register", "await", "online"} \cup Reading
    /\ spc[t] = Idle
    /\ GoesTo(t, "none")
    /\ own' = [own EXCEPT ![t] = 0]
    /\ tun' = [tun EXCEPT ![t] = Nothing]
    /\ UNCHANGED <<protoVars, cfg, configured, cpc, overwrites, unasked, early>>

TaskStep(t) ==
    \/ ReconnectClearsBit(t)
    \/ BeginsRequest(t) \/ FinishesId(t) \/ SendsRequest(t)
    \/ Awakes(t) \/ InitReadsKey(t) \/ InitReadsAddress(t) \/ StartReadsHost(t)
    \/ Ends(t)

ConfigNext ==
    \/ CbBegins \/ CbWrites \/ CbSetsBit \/ OtherWork
    \/ \E t \in Senders : CbWgReconnect(t) \/ TaskStep(t)

ConfigSpec == ConfigInit /\ [][ConfigNext]_allVars

-----------------------------------------------------------------------------
(* Properties.                                                             *)

\* The tunnel that a task brings up has key, addresses and host of one and the
\* same wg/connect, unless another one came while the bit was still set or a
\* task was still reading: BIT_WG_CONFIGURED is set last, and it is the only
\* thing that keeps the callback and newt_wg_init apart (newt.c:56-70, 85-96).
TunnelIsWhole ==
    ~overwrites =>
        \A t \in Senders : stage[t] = "online" =>
            \A f \in Fields : tun[t][f] = tun[t]["key"] /\ tun[t][f] # Unset

\* No task sets its tunnel up from an answer older than its own registration.
\* There are two ways around the chain ids: a wg/connect taken while no
\* request is in flight, and one applied between the task's clearing of the bit
\* and its registration (newt.c:75-85, newt_proto.c:73).
NoOlderConfiguration ==
    ~raced /\ ~unasked /\ ~early =>
        \A t \in Senders, f \in Fields :
            tun[t][f] # Unset => tun[t][f][1] >= own[t]
=============================================================================
