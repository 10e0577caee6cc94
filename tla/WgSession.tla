------------------------------ MODULE WgSession ------------------------------
(***************************************************************************)
(* The sessions of the bundled WireGuard: wireguardif.c and the keypairs,  *)
(* handshakes and replay windows of wireguard.c, for two devices that run  *)
(* this code and have one peer each, the other.  The network loses,        *)
(* repeats and reorders datagrams.                                         *)
(*                                                                         *)
(* Everything here runs on the lwIP thread, so a handler is one step.  An  *)
(* index is drawn together with the ephemeral key of the same message, so  *)
(* indices stand for both: [i, r] is the session key both ends derive from *)
(* the initiation i and the response r.  wireguard_is_under_load() is      *)
(* FALSE, so no cookie is ever asked for, and cookies are left out, as are *)
(* endpoints and the filter on inner addresses.                            *)
(***************************************************************************)
EXTENDS WgReplay, FiniteSets

CONSTANTS
    Device,
    Active,         \* devices that call wireguardif_connect for their peer
    Talking,        \* devices with inner packets to send
    Leaving,        \* devices that may disconnect, and connect again
    Outcomes,       \* what may become of a packet on its way out: "sent",
                    \* "lost" (udp_sendto_if fails), "nomem" (no buffer)
    MaxIndex,       \* bound: indices that reach the network
    RekeyTimeout,   \* REKEY_TIMEOUT
    Keepalive,      \* keepalive_interval, 0 is off
    RekeyAfter,     \* REKEY_AFTER_TIME
    RejectAfter,    \* REJECT_AFTER_TIME
    RekeyMessages,  \* REKEY_AFTER_MESSAGES
    RejectMessages  \* REJECT_AFTER_MESSAGES

ASSUME DeviceAssumption ==
    /\ Cardinality(Device) = 2 /\ Active \subseteq Device
    /\ Talking \subseteq Device /\ Leaving \subseteq Device
ASSUME OutcomeAssumption ==
    "sent" \in Outcomes /\ Outcomes \subseteq {"sent", "lost", "nomem"}
ASSUME BoundAssumption == MaxIndex \in Nat
ASSUME TimeAssumption ==
    /\ RekeyTimeout \in Nat \ {0} /\ Keepalive \in Nat
    /\ RekeyAfter \in Nat /\ RejectAfter \in Nat \ {0}
    /\ Keepalive + RekeyTimeout <= RejectAfter
ASSUME MessageAssumption ==
    /\ RekeyMessages \in Nat /\ RejectMessages \in Nat \ {0}
    /\ RejectMessages < SeqMod

VARIABLES
    dev,        \* per device: its struct wireguard_peer
    due,        \* the devices whose timer has not run since the last tick
    net,        \* every datagram ever sent
    lastIndex,  \* indices drawn so far, by either device
    delivered,  \* history: what was handed to ip_input, and from which slot
    repeated    \* history: some packet was handed over again from such a slot

history == <<delivered, repeated>>
vars == <<dev, due, net, lastIndex, history>>

Index == 1 .. MaxIndex
Unheard == MaxIndex + 1     \* stands for the indices beyond the bound

\* Ages are counted up to where a test stops telling them apart: only that of
\* the current keypair is compared with more than REJECT_AFTER_TIME.
MaxAge(slot) == IF slot = "curr" THEN 3 * RejectAfter ELSE RejectAfter

Keys == [i : 0 .. Unheard, r : 0 .. Unheard]
Slots == {"curr", "next", "prev"}
Windows == [counter : 0 .. RejectMessages, bitmap : SUBSET Positions]
\* `confirmed' is initiator || last_rx != 0, the only use of last_rx.
Keypairs == [valid : BOOLEAN, init : BOOLEAN, key : Keys,
             age : 0 .. MaxAge("curr"), sent : 0 .. RejectMessages,
             confirmed : BOOLEAN, win : Windows]
Peers == [status : {"none", "passive", "active"},
          kp : [Slots -> Keypairs],
          hs : 0 .. Unheard,            \* local_index of our own initiation
          greatest : 0 .. MaxIndex,     \* greatest_timestamp
          wants : BOOLEAN,              \* send_handshake
          initAge : 0 .. RekeyTimeout,  \* since last_initiation_tx; or never
          txAge : 0 .. Keepalive,       \* since last_tx
          linkUp : BOOLEAN]             \* NETIF_FLAG_LINK_UP
Packets == [type : {"data"}, key : Keys, init : BOOLEAN,
            nonce : 0 .. RejectMessages, payload : BOOLEAN]
Messages == [type : {"init"}, from : Device, i : Index]
                \cup [type : {"resp"}, key : Keys] \cup Packets

TypeOK ==
    /\ dev \in [Device -> Peers]
    /\ due \subseteq Device
    /\ net \subseteq Messages
    /\ lastIndex \in 0 .. MaxIndex
    /\ repeated \in BOOLEAN

NoKeypair == [valid |-> FALSE, init |-> FALSE, key |-> [i |-> 0, r |-> 0],
              age |-> 0, sent |-> 0, confirmed |-> FALSE, win |-> EmptyWindow]

\* wireguard_peer_init, or no peer at all.  The clock is past the limits, so
\* that what never happened counts as long ago.
BlankPeer(status) ==
    [status |-> status, kp |-> [slot \in Slots |-> NoKeypair], hs |-> 0,
     greatest |-> 0, wants |-> FALSE, initAge |-> RekeyTimeout,
     txAge |-> Keepalive, linkUp |-> FALSE]

Init ==
    /\ dev = [d \in Device |-> BlankPeer("none")]
    /\ due = {}
    /\ net = {}
    /\ lastIndex = 0
    /\ delivered = {} /\ repeated = FALSE

-----------------------------------------------------------------------------
(* Keypairs.                                                               *)

NewKeypair(key, init) ==
    [NoKeypair EXCEPT !.valid = TRUE, !.init = init, !.key = key,
                      !.confirmed = init]

LocalIndex(k) == IF k.init THEN k.key.i ELSE k.key.r

\* Faulty variant: a responder's session is current at once as well.
AddKeypairAtOnce(s, k) ==
    [s EXCEPT !.kp = [@ EXCEPT !["prev"] = s.kp["curr"], !["curr"] = k]]

\* add_new_keypair: an initiator's session is current at once, a responder's
\* waits in `next' for the first packet under it.
AddKeypair(s, k) ==
    [s EXCEPT !.kp =
        IF ~k.init THEN [@ EXCEPT !["next"] = k, !["prev"] = NoKeypair]
        ELSE IF s.kp["next"].valid
        THEN [@ EXCEPT !["prev"] = s.kp["next"], !["next"] = NoKeypair,
                       !["curr"] = k]
        ELSE [@ EXCEPT !["prev"] = s.kp["curr"], !["curr"] = k]]

\* Faulty variant: a packet of the previous session makes it current again.
PromoteAny(s, slot) ==
    IF slot = "curr" THEN s
    ELSE [s EXCEPT !.kp = [@ EXCEPT !["prev"] = s.kp["curr"],
                                    !["curr"] = s.kp[slot],
                                    !["next"] = NoKeypair]]

\* keypair_update
Promote(s, slot) ==
    IF slot # "next" THEN s
    ELSE [s EXCEPT !.kp = [@ EXCEPT !["prev"] = s.kp["curr"],
                                    !["curr"] = s.kp["next"],
                                    !["next"] = NoKeypair]]

\* Faulty variant: a responder uses the session as soon as it has it.
StartSessionAtOnce(s, key, init) ==
    LET t == AddKeypair([s EXCEPT !.hs = 0],
                        [NewKeypair(key, init) EXCEPT !.confirmed = TRUE])
    IN  IF init THEN t ELSE Promote(t, "next")

\* Faulty variant: the handshake stays valid.
StartSessionKeepsHandshake(s, key, init) == AddKeypair(s, NewKeypair(key, init))

\* wireguard_start_session, which also forgets the handshake.
StartSession(s, key, init) ==
    AddKeypair([s EXCEPT !.hs = 0], NewKeypair(key, init))

\* keypair_destroy
Destroy(s, slots) ==
    [s EXCEPT !.kp = [slot \in Slots |->
                        IF slot \in slots THEN NoKeypair ELSE @[slot]]]

\* Neither REJECT_AFTER_TIME nor REJECT_AFTER_MESSAGES has been reached.
InLimits(k) == k.age < RejectAfter /\ k.sent < RejectMessages

-----------------------------------------------------------------------------
(* wireguardif_output_to_peer.                                             *)

SendingSlot(s) ==
    LET curr == s.kp["curr"]
    IN  IF curr.valid /\ ~curr.confirmed THEN "prev" ELSE "curr"

Confirmed(k) == k.valid /\ k.confirmed

\* The packet is encrypted; "lost" means udp_sendto_if failed, "nomem" that
\* there was no buffer.
Encrypts(s, outcome) ==
    LET k == s.kp[SendingSlot(s)]
    IN  Confirmed(k) /\ InLimits(k) /\ outcome # "nomem"

PacketOf(s, payload) ==
    LET k == s.kp[SendingSlot(s)]
    IN  [type |-> "data", key |-> k.key, init |-> k.init, nonce |-> k.sent,
         payload |-> payload]

\* Faulty variant: the counter has too few bits for the limit on messages.
CountedNarrow(s) ==
    [s EXCEPT !.kp[SendingSlot(s)].sent = (@ + 1) % RejectMessages]

\* wireguard_encrypt_packet, with the counter it moves on.
Counted(s) == [s EXCEPT !.kp[SendingSlot(s)].sent = @ + 1]

\* The peer after the call.
Output(s, outcome) ==
    LET slot == SendingSlot(s)
        k == s.kp[slot]
    IN  IF Encrypts(s, outcome)
        THEN [Counted(s) EXCEPT
                !.txAge = IF outcome = "sent" THEN 0 ELSE @,
                !.wants = \/ @
                          \/ k.sent + 1 >= RekeyMessages
                          \/ (k.init /\ k.age >= RekeyAfter)]
        ELSE IF Confirmed(k) /\ ~InLimits(k) THEN Destroy(s, {slot}) ELSE s

\* What it puts into the network.
OutputSent(s, payload, outcome) ==
    IF Encrypts(s, outcome) /\ outcome = "sent" THEN {PacketOf(s, payload)} ELSE {}

\* An inner packet for the peer.
SendData(d, outcome) ==
    LET s == dev[d]
    IN  /\ d \in Talking /\ s.status # "none"
        /\ dev' = [dev EXCEPT ![d] = Output(s, outcome)]
        /\ net' = net \cup OutputSent(s, TRUE, outcome)
        /\ UNCHANGED <<due, lastIndex, history>>

-----------------------------------------------------------------------------
(* wireguardif_network_rx.                                                 *)

FreshInitiation(s, m) == m.i > s.greatest

\* wireguard_create_handshake_response
HandshakeResponse(key) == [type |-> "resp", key |-> key]

\* wireguard_process_initiation_message, wireguardif_send_handshake_response.
\* The rate limit drops only what comes in the millisecond of the last one.
ReceiveInitiation(d, m) ==
    LET s == dev[d]
        key == [i |-> m.i, r |-> lastIndex + 1]
    IN  /\ m.type = "init" /\ m.from # d
        /\ s.status # "none"
        /\ FreshInitiation(s, m)
        /\ lastIndex < MaxIndex
        /\ lastIndex' = lastIndex + 1
        /\ dev' = [dev EXCEPT ![d] =
                    StartSession([s EXCEPT !.greatest = m.i], key, FALSE)]
        /\ net' = net \cup {HandshakeResponse(key)}
        /\ UNCHANGED <<due, history>>

\* peer_lookup_by_handshake, wireguard_process_handshake_response
AnswersHandshake(s, m) == s.hs # 0 /\ s.hs = m.key.i

\* wireguardif_process_response_message: the session starts and a keep-alive
\* confirms it to the responder.
ReceiveResponse(d, m, outcome) ==
    /\ m.type = "resp"
    /\ AnswersHandshake(dev[d], m)
    /\ LET s == StartSession(dev[d], m.key, TRUE)
       IN  /\ dev' = [dev EXCEPT ![d] = [Output(s, outcome) EXCEPT !.linkUp = TRUE]]
           /\ net' = net \cup OutputSent(s, FALSE, outcome)
    /\ UNCHANGED <<due, lastIndex, history>>

\* get_peer_keypair_for_idx
Holds(k, index) == k.valid /\ LocalIndex(k) = index

SlotFor(s, index) ==
    IF Holds(s.kp["curr"], index) THEN "curr"
    ELSE IF Holds(s.kp["next"], index) THEN "next" ELSE "prev"

Receiver(m) == IF m.init THEN m.key.r ELSE m.key.i

\* wireguardif_process_data_message once a packet decrypted, up to the inspection of its payload.
Authenticated(s, slot) ==
    LET t == Promote([s EXCEPT !.kp[slot].confirmed = TRUE, !.linkUp = TRUE], slot)
        k == t.kp[slot]     \* the code's pointer still names the slot
    IN  [t EXCEPT !.wants =
            @ \/ (k.init /\ k.age >= RejectAfter - Keepalive - RekeyTimeout)]

\* wireguardif_process_data_message on a packet of the session in the slot.
\* After a promotion the replay window that is asked and marked is the one
\* that keypair_destroy left in `next', not that of the current keypair.
ReceiveData(d, m) ==
    LET s == dev[d]
        slot == SlotFor(s, Receiver(m))
        t == Authenticated(s, slot)
        passes == m.payload /\ Accepts(t.kp[slot].win, SeqOf(m.nonce))
        how == <<m, slot = "next">>
    IN  /\ m.type = "data"
        /\ Holds(s.kp[slot], Receiver(m))
        /\ InLimits(s.kp[slot])
        /\ m.key = s.kp[slot].key
        /\ dev' = [dev EXCEPT ![d] =
                    IF passes THEN [t EXCEPT !.kp[slot].win = Marked(@, SeqOf(m.nonce))]
                    ELSE t]
        /\ delivered' = IF passes THEN delivered \cup {how} ELSE delivered
        /\ repeated' = (repeated \/ (passes /\ how \in delivered))
        /\ UNCHANGED <<due, net, lastIndex>>

\* The session is over: its keypair is destroyed, the packet dropped.
ReceiveDataTooLate(d, m) ==
    LET s == dev[d]
        slot == SlotFor(s, Receiver(m))
    IN  /\ m.type = "data"
        /\ Holds(s.kp[slot], Receiver(m))
        /\ ~InLimits(s.kp[slot])
        /\ dev' = [dev EXCEPT ![d] = Destroy(s, {slot})]
        /\ UNCHANGED <<due, net, lastIndex, history>>

Receive(d, m) ==
    \/ ReceiveInitiation(d, m)
    \/ \E outcome \in Outcomes : ReceiveResponse(d, m, outcome)
    \/ ReceiveData(d, m)
    \/ ReceiveDataTooLate(d, m)

-----------------------------------------------------------------------------
(* wireguardif_tmr, and the calls of esp_wireguard.c.                      *)

ShouldReset(s) == s.kp["curr"].valid /\ s.kp["curr"].age >= RejectAfter * 3

ShouldDestroy(s) == s.kp["curr"].valid /\ ~InLimits(s.kp["curr"])

\* wireguardif_peer_is_up
PeerIsUp(s) == s.kp["curr"].valid \/ s.kp["prev"].valid

ShouldKeepalive(s) ==
    /\ Keepalive > 0
    /\ PeerIsUp(s)
    /\ s.txAge >= Keepalive

ShouldInitiate(s) ==
    /\ s.initAge >= RekeyTimeout
    /\ \/ s.wants
       \/ /\ s.kp["curr"].valid /\ ~s.kp["curr"].init
          /\ s.kp["curr"].age >= RejectAfter - Keepalive
       \/ ~s.kp["curr"].valid /\ s.status = "active"

\* The keypairs the timer takes away.
Swept(s) ==
    LET t == IF ShouldReset(s) THEN Destroy(s, Slots) ELSE s
    IN  IF ShouldDestroy(t) THEN Destroy(t, {"curr"}) ELSE t

\* wireguard_create_handshake_initiation
HandshakeInitiation(d, index) == [type |-> "init", from |-> d, i |-> index]

\* wireguard_start_handshake; without a buffer the handshake is prepared and
\* not sent.
Initiated(s, index, sent) ==
    IF sent THEN [s EXCEPT !.hs = index, !.wants = FALSE, !.initAge = 0]
    ELSE [s EXCEPT !.hs = index]

LinkChecked(s) == [s EXCEPT !.linkUp = @ /\ PeerIsUp(s)]

\* Initiations beyond the bound on indices are sent and get lost.
NextIndex == IF lastIndex < MaxIndex THEN lastIndex + 1 ELSE Unheard

Timer(d, outcome, sent) ==
    LET s == Swept(dev[d])
        keepalive == ShouldKeepalive(s)
        t == IF keepalive THEN Output(s, outcome) ELSE s
        initiates == ShouldInitiate(t)
        heard == initiates /\ sent /\ NextIndex # Unheard
    IN  /\ d \in due
        /\ due' = due \ {d}
        /\ dev' = [dev EXCEPT ![d] =
                    LinkChecked(IF initiates THEN Initiated(t, NextIndex, sent) ELSE t)]
        /\ net' = net
                  \cup (IF keepalive THEN OutputSent(s, FALSE, outcome) ELSE {})
                  \cup (IF heard THEN {HandshakeInitiation(d, NextIndex)}
                        ELSE {})
        /\ lastIndex' = IF initiates /\ NextIndex # Unheard THEN NextIndex ELSE lastIndex
        /\ UNCHANGED history

\* wireguardif_add_peer
AddedPeer == BlankPeer("passive")

\* wireguardif_connect
Activated(s) == [s EXCEPT !.status = "active"]

\* esp_wireguard_connect.  A device that only answers has its peer added.
Connect(d) ==
    /\ dev[d].status = "none"
    /\ dev' = [dev EXCEPT ![d] =
                IF d \in Active THEN Activated(AddedPeer) ELSE AddedPeer]
    /\ UNCHANGED <<due, net, lastIndex, history>>

\* esp_wireguard_disconnect: the peer is removed with all it knew.
Disconnect(d) ==
    /\ d \in Leaving
    /\ dev[d].status # "none"
    /\ dev' = [dev EXCEPT ![d] = BlankPeer("none")]
    /\ due' = due \ {d}
    /\ UNCHANGED <<net, lastIndex, history>>

-----------------------------------------------------------------------------
(* Time.  The timer runs every 400 ms, so in every unit of time.           *)

AgedUpTo(n, limit) == IF n < limit THEN n + 1 ELSE limit

Aged(s) ==
    [s EXCEPT
        !.kp = [slot \in Slots |->
                IF s.kp[slot].valid
                THEN [s.kp[slot] EXCEPT !.age = AgedUpTo(@, MaxAge(slot))]
                ELSE s.kp[slot]],
        !.initAge = AgedUpTo(@, RekeyTimeout),
        !.txAge = AgedUpTo(@, Keepalive)]

Tick ==
    /\ due = {}
    /\ dev' = [d \in Device |-> IF dev[d].status = "none" THEN dev[d] ELSE Aged(dev[d])]
    /\ due' = {d \in Device : dev[d].status # "none"}
    /\ UNCHANGED <<net, lastIndex, history>>

Next ==
    \/ \E d \in Device, outcome \in Outcomes :
          SendData(d, outcome) \/ \E sent \in BOOLEAN : Timer(d, outcome, sent)
    \/ \E d \in Device, m \in net : Receive(d, m)
    \/ \E d \in Device : Connect(d) \/ Disconnect(d)
    \/ Tick

Spec == Init /\ [][Next]_vars

-----------------------------------------------------------------------------
(* Properties.                                                             *)

\* No nonce is used twice with the same sending key: by all the copying of
\* keypairs between slots, and in all sessions, no slot has a counter that
\* would repeat what is in the network (add_new_keypair, keypair_update).
NonceUsedOnce ==
    \A m \in net : m.type = "data" =>
        \A d \in Device, slot \in Slots :
            LET k == dev[d].kp[slot]
            IN  k.valid /\ k.key = m.key /\ k.init = m.init => m.nonce < k.sent

\* A responder sends under a session only after the initiator has, which shows
\* that the initiator has the session too.
ResponderWaits ==
    \A m \in net : m.type = "data" /\ ~m.init =>
        \E p \in net : p.type = "data" /\ p.key = m.key /\ p.init

\* What is in `curr' is confirmed, so that the other choice at the head of
\* wireguardif_output_to_peer never has to be made; what waits in `next' is a
\* responder's session under which nothing has come.
CurrentIsConfirmed ==
    \A d \in Device :
        /\ dev[d].kp["curr"].valid => Confirmed(dev[d].kp["curr"])
        /\ dev[d].kp["next"].valid => ~Confirmed(dev[d].kp["next"])

\* The three slots never hold one session twice, so that a packet's index
\* finds the keypair whose counters are up to date.
SlotsAreDistinct ==
    \A d \in Device : \A x, y \in Slots :
        dev[d].kp[x].valid /\ dev[d].kp[y].valid /\ dev[d].kp[x].key = dev[d].kp[y].key
            => x = y

\* A device never goes back to an older session: late initiations, responses
\* and packets of former sessions do not bring them back.
NeverFallsBack ==
    [][\A d \in Device :
        dev[d].kp["curr"].valid /\ dev'[d].kp["curr"].valid =>
            dev[d].kp["curr"].key.r <= dev'[d].kp["curr"].key.r]_vars

\* A packet of an established session reaches ip_input at most once, and so
\* does, apart from that, the packet that establishes it.
NoRepeatOnceEstablished == ~repeated

\* No packet reaches ip_input twice: wireguardif.c:330 "Check for packet
\* replay / dupes".
DeliveredAtMostOnce ==
    \A how \in delivered : how[2] => <<how[1], FALSE>> \notin delivered
=============================================================================
