------------------------------- MODULE NewtProto -------------------------------
(***************************************************************************)
(* The request / reply matching of src/src/newt_proto.c.  Each request     *)
(* writes a fresh chain id in place into a static buffer (one for          *)
(* newt/ping/request, one for newt/wg/register) and sends it; the          *)
(* WebSocket worker compares the chainId of a reply with that buffer,      *)
(* applies the reply and empties the buffer.  No lock orders the tasks.    *)
(*                                                                         *)
(* Abstractions: a chain id is two characters, its number twice, so that a *)
(* half-written id can be seen; the first character 0 is the C string's    *)
(* end.  The server answers any request it got, any number of times, late  *)
(* or never, and may send replies without a chainId.                       *)
(***************************************************************************)
EXTENDS Integers

CONSTANTS
    Senders,    \* supervisor and reconnect tasks
    MaxIds,     \* bound on the number of chain ids drawn
    Nodes,      \* exit node ids the server may offer
    MaxVersion  \* bound on configVersion

ASSUME IdsAssumption == MaxIds \in Nat
ASSUME NodesAssumption == Nodes \subseteq Nat
ASSUME VersionAssumption == MaxVersion \in Nat

Kinds == {"ping", "register"}
NoChain == <<-1, -1>>       \* a reply without a usable chainId
Chars == 0..MaxIds
IsEmpty(buffer) == buffer[1] = 0
Id(k) == <<k, k>>

VARIABLES
    inflight,   \* s_inflight_chain_ping_request, s_inflight_chain_register
    version,    \* s_config_version
    exitNode,   \* s_chosen_exit_node_id, -1 for none
    spc,        \* each sender: what it sends, how far it is, the id it drew
    ids,        \* chain ids drawn so far (esp_random never repeats one)
    wpc,        \* the worker inside handle_wg_connect
    reply,      \* chainId of the reply it handles
    requests,   \* what the server has got: <<kind, chain>>
    latest,     \* history: id of the latest register request, 0 for none
    applied,    \* history: chain ids of the wg/connect replies applied
    raced       \* history: accesses of a buffer overlapped

vars == <<inflight, version, exitNode, spc, ids, wpc, reply, requests,
          latest, applied, raced>>

Idle == [kind |-> "none", step |-> "idle", id |-> 0]
Sends == [kind : Kinds, step : {"half", "full"}, id : Chars]
Chains == (Chars \X Chars) \cup {NoChain}

TypeOK ==
    /\ inflight \in [Kinds -> Chars \X Chars]
    /\ version \in 0..MaxVersion
    /\ exitNode \in Nodes \cup {-1}
    /\ spc \in [Senders -> {Idle} \cup Sends]
    /\ ids \in 0..MaxIds
    /\ wpc \in {"idle", "apply", "clear"}
    /\ reply \in Chains
    /\ requests \subseteq Kinds \X (Chars \X Chars)
    /\ latest \in 0..MaxIds
    /\ applied \subseteq Chains
    /\ raced \in BOOLEAN

\* newt_proto_init
Init ==
    /\ inflight = [k \in Kinds |-> <<0, 0>>]
    /\ version = 0
    /\ exitNode = -1
    /\ spc = [t \in Senders |-> Idle]
    /\ ids = 0
    /\ wpc = "idle"
    /\ reply = NoChain
    /\ requests = {}
    /\ latest = 0
    /\ applied = {}
    /\ raced = FALSE

Writing(k) == \E t \in Senders : spc[t].kind = k /\ spc[t].step = "half"
HandlingConnect == wpc # "idle"

-----------------------------------------------------------------------------
(* newt_proto_send_ping_request and newt_proto_send_register               *)

\* chainId_new writes the buffer in place, front to back.
SendBegins(t, k) ==
    /\ spc[t] = Idle
    /\ ids < MaxIds
    /\ ids' = ids + 1
    /\ inflight' = [inflight EXCEPT ![k] = <<ids + 1, @[2]>>]
    /\ spc' = [spc EXCEPT ![t] = [kind |-> k, step |-> "half", id |-> ids + 1]]
    /\ latest' = IF k = "register" THEN ids + 1 ELSE latest
    /\ raced' = (raced \/ (\E u \in Senders \ {t} : spc[u].kind = k)
                       \/ (k = "register" /\ HandlingConnect))
    /\ UNCHANGED <<version, exitNode, wpc, reply, requests, applied>>

SendFinishesId(t) ==
    /\ spc[t].step = "half"
    /\ inflight' = [inflight EXCEPT ![spc[t].kind][2] = spc[t].id]
    /\ spc' = [spc EXCEPT ![t].step = "full"]
    /\ UNCHANGED <<version, exitNode, ids, wpc, reply, requests, latest,
                   applied, raced>>

\* Faulty variant: the request is sent before its id is complete.
SendTransmitsEarly(t) ==
    /\ spc[t].step \in {"half", "full"}
    /\ spc' = [spc EXCEPT ![t] = Idle]
    /\ requests' = requests \cup {<<spc[t].kind, inflight[spc[t].kind]>>}
    /\ UNCHANGED <<inflight, version, exitNode, ids, wpc, reply, latest,
                   applied, raced>>

\* The buffer is read again for the JSON text; the send may fail.
SendTransmits(t) ==
    /\ spc[t].step = "full"
    /\ spc' = [spc EXCEPT ![t] = Idle]
    /\ \/ requests' = requests \cup {<<spc[t].kind, inflight[spc[t].kind]>>}
       \/ UNCHANGED requests
    /\ UNCHANGED <<inflight, version, exitNode, ids, wpc, reply, latest,
                   applied, raced>>

-----------------------------------------------------------------------------
(* newt_proto_handle_message, on the WebSocket worker                      *)

\* Faulty variant: versions add up.
AddsVersion == \E v \in 0..MaxVersion : version' = version + v

\* s_config_version only grows.
SeesVersion == \E v \in 0..MaxVersion :
    version' = IF v > version THEN v ELSE version

\* A reply is dropped when it names another id than the one in flight.  With
\* nothing in flight, or no chainId, it is taken.
Matches(k, c) == c = NoChain \/ IsEmpty(inflight[k]) \/ c = inflight[k]

Answers(k) == {r[2] : r \in {q \in requests : q[1] = k}} \cup {NoChain}

\* handle_wg_connect up to its validation of the fields.
ConnectAccepted ==
    /\ wpc = "idle"
    /\ \E c \in Answers("register") :
          /\ Matches("register", c)
          /\ reply' = c
    /\ wpc' = "apply"
    /\ SeesVersion
    /\ raced' = (raced \/ Writing("register"))
    /\ UNCHANGED <<inflight, exitNode, spc, ids, requests, latest, applied>>

\* Dropped: another id is in flight, or a field is missing or malformed.
ConnectDropped ==
    /\ wpc = "idle"
    /\ SeesVersion
    /\ raced' = (raced \/ Writing("register"))
    /\ UNCHANGED <<inflight, exitNode, spc, ids, wpc, reply, requests, latest,
                   applied>>

ConnectApplied ==
    /\ wpc = "apply"
    /\ applied' = applied \cup {reply}
    /\ wpc' = "clear"
    /\ UNCHANGED <<inflight, version, exitNode, spc, ids, reply, requests,
                   latest, raced>>

\* Faulty variant: a reply without chainId consumes the id as well.
ConnectAlwaysClears ==
    /\ wpc = "clear"
    /\ inflight' = [inflight EXCEPT !["register"][1] = 0]
    /\ reply' = NoChain
    /\ wpc' = "idle"
    /\ UNCHANGED <<version, exitNode, spc, ids, requests, latest, applied,
                   raced>>

ConnectCleared ==
    /\ wpc = "clear"
    /\ inflight' = IF reply = NoChain THEN inflight
                   ELSE [inflight EXCEPT !["register"][1] = 0]
    /\ reply' = NoChain
    /\ wpc' = "idle"
    /\ UNCHANGED <<version, exitNode, spc, ids, requests, latest, applied,
                   raced>>

\* handle_exit_nodes: the first node of a non-empty list is chosen.
ExitNodes ==
    /\ wpc = "idle"
    /\ \E c \in Answers("ping") :
          /\ Matches("ping", c)
          /\ inflight' = IF c = NoChain THEN inflight
                         ELSE [inflight EXCEPT !["ping"][1] = 0]
    /\ exitNode' \in Nodes \cup {exitNode}
    /\ SeesVersion
    /\ raced' = (raced \/ Writing("ping"))
    /\ UNCHANGED <<spc, ids, wpc, reply, requests, latest, applied>>

\* Every other type, and replies that are dropped, change only the version.
OtherMessage ==
    /\ wpc = "idle"
    /\ SeesVersion
    /\ UNCHANGED <<inflight, exitNode, spc, ids, wpc, reply, requests, latest,
                   applied, raced>>

Worker ==
    ConnectAccepted \/ ConnectDropped \/ ConnectApplied \/ ConnectCleared
    \/ ExitNodes \/ OtherMessage

Next ==
    \/ \E t \in Senders :
          \/ \E k \in Kinds : SendBegins(t, k)
          \/ SendFinishesId(t)
          \/ SendTransmits(t)
    \/ Worker

Spec == Init /\ [][Next]_vars

-----------------------------------------------------------------------------
(* Properties.                                                             *)

\* As long as no two accesses of the buffer overlapped, the register request
\* in flight is the latest one, and only the reply to that very request has
\* taken it out of flight: a late, duplicated or unidentified wg/connect never
\* consumes it (newt_proto.c:72-83, 156-158).
OnlyOwnReplyConsumes ==
    ~raced /\ ~Writing("register") /\ latest # 0 =>
        \/ inflight["register"] = Id(latest)
        \/ IsEmpty(inflight["register"]) /\ Id(latest) \in applied

\* As long as no accesses overlapped, what the server is asked to echo is a
\* whole id and no two requests share it.
RequestsAreWhole ==
    ~raced => \A q, r \in requests :
                 q[2][1] = q[2][2] /\ q[2][1] # 0 /\ (q[2] = r[2] => q = r)
=============================================================================
