----------------------------- MODULE WgSessionProofs -----------------------------
(***************************************************************************)
(* Proofs about WgSession, for any two devices, any number of indices, any *)
(* limits on time and on messages, and any window.                         *)
(***************************************************************************)
EXTENDS WgSession, TLAPS

-----------------------------------------------------------------------------
(* The invariant, of devices D, a network N and the last index L: one step *)
(* of a handler makes several steps of the lemmas below.                   *)

IsData(m) == m.type = "data"

\* Indices are drawn in the order of use: an initiation's before its response's.
Drawn(key, L) == 0 < key.i /\ key.i < key.r /\ key.r <= L

Indexed(D, N, L) ==
    /\ \A d \in Device, x \in Slots :
          D[d].kp[x].valid => Drawn(D[d].kp[x].key, L)
    /\ \A m \in N : IF m.type = "init" THEN m.i <= L ELSE Drawn(m.key, L)
    /\ \A m \in N : IsData(m) => m.nonce < RejectMessages

\* Of the sessions a peer holds, prev is older than curr, and curr than next.
Older(s, x, y) ==
    s.kp[x].valid /\ s.kp[y].valid => s.kp[x].key.r < s.kp[y].key.r
InSequence(s) ==
    Older(s, "prev", "curr") /\ Older(s, "curr", "next") /\ Older(s, "prev", "next")

\* A handshake under way is newer than all sessions held, and so is its answer.
Pending(s, L) ==
    s.hs # 0 =>
        /\ s.hs <= L \/ s.hs = Unheard
        /\ \A x \in Slots : s.kp[x].valid => s.kp[x].key.r < s.hs

\* It is one device's alone, and nothing has been sent or started under it.
Untouched(D, N, L) ==
    /\ \A d, e \in Device :
          D[d].hs # 0 /\ D[d].hs <= L /\ D[d].hs = D[e].hs => d = e
    /\ \A d, e \in Device, x \in Slots :
          D[e].kp[x].valid /\ D[e].kp[x].init => D[e].kp[x].key.i # D[d].hs
    /\ \A d \in Device, m \in N : IsData(m) /\ m.init => m.key.i # D[d].hs

\* Only one device is an end of a session in each role.
OneEnd(D) ==
    \A d, e \in Device, x, y \in Slots :
        /\ D[d].kp[x].valid /\ D[e].kp[y].valid
        /\ D[d].kp[x].key = D[e].kp[y].key
        /\ D[d].kp[x].init = D[e].kp[y].init
        => d = e

SlotsConfirmed(s) ==
    /\ s.kp["curr"].valid => Confirmed(s.kp["curr"])
    /\ s.kp["next"].valid => ~Confirmed(s.kp["next"])

NoncesUsed(D, N) ==
    \A m \in N : IsData(m) =>
        \A d \in Device, x \in Slots :
            /\ D[d].kp[x].valid /\ D[d].kp[x].key = m.key /\ D[d].kp[x].init = m.init
            => m.nonce < D[d].kp[x].sent

\* The initiator of a session has sent under it: only this confirms the
\* responder's end, and only then does the responder send.
Shown(N, key) == \E p \in N : IsData(p) /\ p.key = key /\ p.init

OnceShown(D, N) ==
    /\ \A d \in Device, x \in Slots :
          Confirmed(D[d].kp[x]) /\ ~D[d].kp[x].init => Shown(N, D[d].kp[x].key)
    /\ \A m \in N : IsData(m) /\ ~m.init => Shown(N, m.key)

Sound(D, N, L) ==
    /\ D \in [Device -> Peers] /\ N \subseteq Messages /\ L \in 0 .. MaxIndex
    /\ Indexed(D, N, L)
    /\ \A d \in Device : InSequence(D[d]) /\ Pending(D[d], L) /\ SlotsConfirmed(D[d])
    /\ Untouched(D, N, L) /\ OneEnd(D)
    /\ NoncesUsed(D, N) /\ OnceShown(D, N)

SessionInv == TypeOK /\ Sound(dev, net, lastIndex)

-----------------------------------------------------------------------------
(* One peer: what the operators make of it.                                *)

\* t holds what s held, or less of it; its counters are no lower.
Kept(s, t) ==
    /\ t.hs = s.hs
    /\ \A x \in Slots : t.kp[x].valid =>
          /\ s.kp[x].valid /\ t.kp[x].key = s.kp[x].key /\ t.kp[x].init = s.kp[x].init
          /\ t.kp[x].confirmed = s.kp[x].confirmed /\ t.kp[x].win = s.kp[x].win
          /\ s.kp[x].sent <= t.kp[x].sent

LEMMA NoKeypairTyped == NoKeypair \in Keypairs /\ ~NoKeypair.valid
<1>1. /\ 0 \in 0..Unheard /\ 0 \in 0..MaxAge("curr") /\ 0 \in 0..RejectMessages
  BY BoundAssumption, TimeAssumption, MessageAssumption DEF Unheard, MaxAge
<1>2. EmptyWindow \in Windows
  BY <1>1 DEF EmptyWindow, Windows
<1>. QED
  BY <1>1, <1>2 DEF NoKeypair, Keypairs, Keys

LEMMA KeysWritten ==
    ASSUME NEW s \in Peers, NEW k \in [Slots -> Keypairs]
    PROVE  /\ [s EXCEPT !.kp = k] \in Peers
           /\ [s EXCEPT !.kp = k].kp = k /\ [s EXCEPT !.kp = k].hs = s.hs
BY DEF Peers

LEMMA DestroyEffect ==
    ASSUME NEW s \in Peers, NEW slots
    PROVE  /\ Destroy(s, slots) \in Peers /\ Kept(s, Destroy(s, slots))
           /\ \A x \in slots \cap Slots : ~Destroy(s, slots).kp[x].valid
<1> DEFINE k == [slot \in Slots |-> IF slot \in slots THEN NoKeypair ELSE s.kp[slot]]
<1>1. s.kp \in [Slots -> Keypairs]
  BY DEF Peers
<1>2. k \in [Slots -> Keypairs]
  BY <1>1, NoKeypairTyped
<1>3. Destroy(s, slots) = [s EXCEPT !.kp = k]
  BY DEF Destroy
<1>4. \A x \in Slots : k[x] = IF x \in slots THEN NoKeypair ELSE s.kp[x]
  OBVIOUS
<1> HIDE DEF k
<1>5. \A x \in Slots : s.kp[x].sent \in Int
  BY <1>1 DEF Keypairs
<1>. QED
  BY <1>2, <1>3, <1>4, <1>5, NoKeypairTyped, KeysWritten DEF Kept

LEMMA SentWritten ==
    ASSUME NEW k \in Keypairs, k.sent < RejectMessages
    PROVE  /\ [k EXCEPT !.sent = @ + 1] \in Keypairs
           /\ [k EXCEPT !.sent = @ + 1].sent = k.sent + 1
           /\ [k EXCEPT !.sent = @ + 1].valid = k.valid
           /\ [k EXCEPT !.sent = @ + 1].key = k.key
           /\ [k EXCEPT !.sent = @ + 1].init = k.init
           /\ [k EXCEPT !.sent = @ + 1].confirmed = k.confirmed
           /\ [k EXCEPT !.sent = @ + 1].win = k.win
<1>1. k.sent + 1 \in 0 .. RejectMessages
  BY MessageAssumption DEF Keypairs
<1>. QED
  BY <1>1 DEF Keypairs

LEMMA CountedEffect ==
    ASSUME NEW s \in Peers, s.kp[SendingSlot(s)].sent < RejectMessages
    PROVE  /\ Counted(s) \in Peers /\ Counted(s).hs = s.hs
           /\ Counted(s).kp[SendingSlot(s)].sent = s.kp[SendingSlot(s)].sent + 1
           /\ Counted(s).kp[SendingSlot(s)].valid = s.kp[SendingSlot(s)].valid
           /\ Counted(s).kp[SendingSlot(s)].key = s.kp[SendingSlot(s)].key
           /\ Counted(s).kp[SendingSlot(s)].init = s.kp[SendingSlot(s)].init
           /\ Counted(s).kp[SendingSlot(s)].confirmed = s.kp[SendingSlot(s)].confirmed
           /\ Counted(s).kp[SendingSlot(s)].win = s.kp[SendingSlot(s)].win
           /\ \A x \in Slots : x # SendingSlot(s) => Counted(s).kp[x] = s.kp[x]
<1>1. s.kp \in [Slots -> Keypairs] /\ SendingSlot(s) \in Slots
  BY DEF Peers, SendingSlot, Slots
<1> DEFINE q == [s.kp[SendingSlot(s)] EXCEPT !.sent = @ + 1]
           k == [s.kp EXCEPT ![SendingSlot(s)] = q]
<1>2. Counted(s) = [s EXCEPT !.kp = k]
  BY DEF Counted
<1>3. /\ q \in Keypairs /\ q.sent = s.kp[SendingSlot(s)].sent + 1
      /\ q.valid = s.kp[SendingSlot(s)].valid /\ q.key = s.kp[SendingSlot(s)].key
      /\ q.init = s.kp[SendingSlot(s)].init
      /\ q.confirmed = s.kp[SendingSlot(s)].confirmed
      /\ q.win = s.kp[SendingSlot(s)].win
  <2>1. s.kp[SendingSlot(s)] \in Keypairs
    BY <1>1
  <2>. QED
    BY <2>1, SentWritten
<1>4. k \in [Slots -> Keypairs] /\ k[SendingSlot(s)] = q
      /\ \A x \in Slots : x # SendingSlot(s) => k[x] = s.kp[x]
  BY <1>1, <1>3
<1> HIDE DEF k, q
<1>. QED
  BY <1>2, <1>3, <1>4, KeysWritten

LEMMA FlagsWritten ==
    ASSUME NEW s \in Peers, NEW a \in 0 .. Keepalive, NEW w \in BOOLEAN
    PROVE  /\ [s EXCEPT !.txAge = a, !.wants = w] \in Peers
           /\ [s EXCEPT !.txAge = a, !.wants = w].kp = s.kp
           /\ [s EXCEPT !.txAge = a, !.wants = w].hs = s.hs
BY DEF Peers

LEMMA OutputEffect ==
    ASSUME NEW s \in Peers, NEW outcome
    PROVE  /\ Output(s, outcome) \in Peers /\ Kept(s, Output(s, outcome))
           /\ Encrypts(s, outcome) =>
                 /\ Confirmed(s.kp[SendingSlot(s)])
                 /\ s.kp[SendingSlot(s)].sent < RejectMessages
                 /\ Output(s, outcome).kp[SendingSlot(s)].sent
                      = s.kp[SendingSlot(s)].sent + 1
<1>0. s.kp \in [Slots -> Keypairs] /\ SendingSlot(s) \in Slots
  BY DEF Peers, SendingSlot, Slots
<1>a. \A x \in Slots : s.kp[x] \in Keypairs /\ s.kp[x].sent \in Int
  BY <1>0 DEF Keypairs
<1>1. CASE Encrypts(s, outcome)
  <2> DEFINE c == Counted(s)
             k == s.kp[SendingSlot(s)]
             a == IF outcome = "sent" THEN 0 ELSE c.txAge
             w == \/ c.wants
                  \/ k.sent + 1 >= RekeyMessages
                  \/ (k.init /\ k.age >= RekeyAfter)
  <2>1. Confirmed(k) /\ k.sent < RejectMessages
    BY <1>1 DEF Encrypts, InLimits
  <2>2. /\ c \in Peers /\ c.hs = s.hs
        /\ c.kp[SendingSlot(s)].sent = k.sent + 1
        /\ c.kp[SendingSlot(s)].valid = k.valid /\ c.kp[SendingSlot(s)].key = k.key
        /\ c.kp[SendingSlot(s)].init = k.init
        /\ c.kp[SendingSlot(s)].confirmed = k.confirmed
        /\ c.kp[SendingSlot(s)].win = k.win
        /\ \A x \in Slots : x # SendingSlot(s) => c.kp[x] = s.kp[x]
    BY <2>1, CountedEffect
  <2>3. Output(s, outcome) = [c EXCEPT !.txAge = a, !.wants = w]
    BY <1>1 DEF Output
  <2>4. a \in 0 .. Keepalive
    BY <2>2, TimeAssumption DEF Peers
  <2>5. w \in BOOLEAN
    BY Zenon
  <2> HIDE DEF c, a, w
  <2>6. Output(s, outcome) \in Peers /\ Output(s, outcome).kp = c.kp
        /\ Output(s, outcome).hs = s.hs
    <3>1. /\ [c EXCEPT !.txAge = a, !.wants = w] \in Peers
          /\ [c EXCEPT !.txAge = a, !.wants = w].kp = c.kp
          /\ [c EXCEPT !.txAge = a, !.wants = w].hs = c.hs
      BY <2>2, <2>4, <2>5, FlagsWritten, Zenon
    <3>. QED
      BY <2>2, <2>3, <3>1, Zenon
  <2>7. ASSUME NEW x \in Slots
        PROVE  /\ c.kp[x].valid = s.kp[x].valid /\ c.kp[x].key = s.kp[x].key
               /\ c.kp[x].init = s.kp[x].init /\ c.kp[x].confirmed = s.kp[x].confirmed
               /\ c.kp[x].win = s.kp[x].win
               /\ s.kp[x].sent <= c.kp[x].sent
    <3>1. CASE x = SendingSlot(s)
      BY <1>a, <2>2, <3>1
    <3>2. CASE x # SendingSlot(s)
      BY <1>a, <2>2, <3>2
    <3>. QED
      BY <3>1, <3>2
  <2>8. Kept(s, Output(s, outcome))
    BY <2>2, <2>6, <2>7 DEF Kept
  <2>. QED
    BY <2>1, <2>2, <2>6, <2>8
<1>2. CASE ~Encrypts(s, outcome)
  <2>1. Output(s, outcome) = Destroy(s, {SendingSlot(s)}) \/ Output(s, outcome) = s
    BY <1>2 DEF Output
  <2>2. Kept(s, s)
    BY <1>a DEF Kept
  <2>. QED
    BY <1>2, <2>1, <2>2, DestroyEffect
<1>. QED
  BY <1>1, <1>2

LEMMA SentShape ==
    ASSUME NEW s \in Peers, NEW outcome, NEW payload \in BOOLEAN,
           NEW m \in OutputSent(s, payload, outcome)
    PROVE  /\ Encrypts(s, outcome) /\ m \in Packets /\ IsData(m)
           /\ m.key = s.kp[SendingSlot(s)].key
           /\ m.init = s.kp[SendingSlot(s)].init
           /\ m.nonce = s.kp[SendingSlot(s)].sent
<1>1. s.kp[SendingSlot(s)] \in Keypairs
  BY DEF Peers, SendingSlot, Slots
<1>2. m = PacketOf(s, payload) /\ Encrypts(s, outcome)
  BY DEF OutputSent
<1>. QED
  BY <1>1, <1>2 DEF PacketOf, Packets, Keypairs, IsData

LEMMA KeptTransitive ==
    ASSUME NEW s \in Peers, NEW t \in Peers, NEW u \in Peers, Kept(s, t), Kept(t, u)
    PROVE  Kept(s, u)
<1>1. \A x \in Slots : s.kp[x].sent \in Int /\ t.kp[x].sent \in Int /\ u.kp[x].sent \in Int
  BY DEF Peers, Keypairs
<1>. QED
  BY <1>1 DEF Kept

LEMMA HandshakeForgotten ==
    ASSUME NEW s \in Peers
    PROVE  /\ [s EXCEPT !.hs = 0] \in Peers
           /\ [s EXCEPT !.hs = 0].kp = s.kp /\ [s EXCEPT !.hs = 0].hs = 0
<1>1. 0 \in 0 .. Unheard
  BY BoundAssumption DEF Unheard
<1>. QED
  BY <1>1 DEF Peers

LEMMA NewKeypairShape ==
    ASSUME NEW key \in Keys, NEW init \in BOOLEAN
    PROVE  LET k == NewKeypair(key, init)
           IN  k \in Keypairs /\ k.valid /\ k.key = key /\ k.init = init
               /\ k.sent = 0 /\ k.confirmed = init /\ k.win = EmptyWindow
<1>1. NoKeypair \in Keypairs /\ NoKeypair.sent = 0 /\ NoKeypair.win = EmptyWindow
  BY NoKeypairTyped DEF NoKeypair
<1>. QED
  BY <1>1 DEF NewKeypair, Keypairs

\* A responder's session waits in next, and prev is given up; an initiator's is
\* current, and what waited, or else what was current, becomes prev.
LEMMA StartEffect ==
    ASSUME NEW s \in Peers, NEW key \in Keys, NEW init \in BOOLEAN
    PROVE  LET t == StartSession(s, key, init)
           IN  /\ t \in Peers /\ t.hs = 0
               /\ ~init => /\ t.kp["next"] = NewKeypair(key, init)
                           /\ t.kp["curr"] = s.kp["curr"] /\ ~t.kp["prev"].valid
               /\ init => /\ t.kp["curr"] = NewKeypair(key, init)
                          /\ ~t.kp["next"].valid
                          /\ t.kp["prev"] = IF s.kp["next"].valid THEN s.kp["next"]
                                            ELSE s.kp["curr"]
<1> DEFINE h == [s EXCEPT !.hs = 0]
           k == NewKeypair(key, init)
           q == IF ~init THEN [s.kp EXCEPT !["next"] = k, !["prev"] = NoKeypair]
                ELSE IF s.kp["next"].valid
                THEN [s.kp EXCEPT !["prev"] = s.kp["next"], !["next"] = NoKeypair,
                                  !["curr"] = k]
                ELSE [s.kp EXCEPT !["prev"] = s.kp["curr"], !["curr"] = k]
<1>1. h \in Peers /\ h.kp = s.kp /\ h.hs = 0
  BY HandshakeForgotten
<1>2. k \in Keypairs /\ k.init = init /\ k.valid
  BY NewKeypairShape
<1>3. s.kp \in [Slots -> Keypairs] /\ Slots = {"curr", "next", "prev"}
      /\ NoKeypair \in Keypairs /\ ~NoKeypair.valid
  BY NoKeypairTyped DEF Peers, Slots
<1> HIDE DEF h, k
<1>4. StartSession(s, key, init) = [h EXCEPT !.kp = q]
  <2>1. StartSession(s, key, init) = AddKeypair(h, k)
    BY DEF StartSession, h, k
  <2>. QED
    BY <1>1, <1>2, <2>1 DEF AddKeypair
<1>5. /\ q \in [Slots -> Keypairs]
      /\ ~init => /\ q["next"] = k /\ q["curr"] = s.kp["curr"] /\ ~q["prev"].valid
      /\ init => /\ q["curr"] = k /\ ~q["next"].valid
                 /\ q["prev"] = IF s.kp["next"].valid THEN s.kp["next"]
                                ELSE s.kp["curr"]
  BY <1>2, <1>3
<1> HIDE DEF q
<1>6. [h EXCEPT !.kp = q] \in Peers /\ [h EXCEPT !.kp = q].kp = q
      /\ [h EXCEPT !.kp = q].hs = 0
  BY <1>1, <1>5, KeysWritten
<1>. QED
  BY <1>4, <1>5, <1>6 DEF k

LEMMA ConfirmedWritten ==
    ASSUME NEW k \in Keypairs
    PROVE  /\ [k EXCEPT !.confirmed = TRUE] \in Keypairs
           /\ [k EXCEPT !.confirmed = TRUE].confirmed
           /\ [k EXCEPT !.confirmed = TRUE].valid = k.valid
           /\ [k EXCEPT !.confirmed = TRUE].key = k.key
           /\ [k EXCEPT !.confirmed = TRUE].init = k.init
           /\ [k EXCEPT !.confirmed = TRUE].sent = k.sent
           /\ [k EXCEPT !.confirmed = TRUE].win = k.win
BY DEF Keypairs

LEMMA LinkAndWantsWritten ==
    ASSUME NEW s \in Peers, NEW l \in BOOLEAN, NEW w \in BOOLEAN
    PROVE  /\ [s EXCEPT !.linkUp = l] \in Peers /\ [s EXCEPT !.linkUp = l].kp = s.kp
           /\ [s EXCEPT !.linkUp = l].hs = s.hs
           /\ [s EXCEPT !.wants = w] \in Peers /\ [s EXCEPT !.wants = w].kp = s.kp
           /\ [s EXCEPT !.wants = w].hs = s.hs
BY DEF Peers

\* A packet that decrypted confirms its session; one that waited becomes the
\* current one, and the current one prev.
LEMMA AuthenticatedEffect ==
    ASSUME NEW s \in Peers, NEW slot \in Slots
    PROVE  LET t == Authenticated(s, slot)
               c == [s.kp[slot] EXCEPT !.confirmed = TRUE]
           IN  /\ t \in Peers /\ t.hs = s.hs
               /\ slot # "next" => t.kp = [s.kp EXCEPT ![slot] = c]
               /\ slot = "next" => /\ t.kp["prev"] = s.kp["curr"] /\ t.kp["curr"] = c
                                   /\ ~t.kp["next"].valid
<1> DEFINE c == [s.kp[slot] EXCEPT !.confirmed = TRUE]
           a == [s.kp EXCEPT ![slot] = c]
           b == [s EXCEPT !.kp = a]
           l == [b EXCEPT !.linkUp = TRUE]
           q == IF slot # "next" THEN a
                ELSE [a EXCEPT !["prev"] = a["curr"], !["curr"] = a["next"],
                               !["next"] = NoKeypair]
           p == Promote(l, slot)
           w == p.wants \/ (p.kp[slot].init
                            /\ p.kp[slot].age >= RejectAfter - Keepalive - RekeyTimeout)
<1>1. s.kp \in [Slots -> Keypairs] /\ Slots = {"curr", "next", "prev"}
      /\ NoKeypair \in Keypairs /\ ~NoKeypair.valid
  BY NoKeypairTyped DEF Peers, Slots
<1>2. c \in Keypairs
  BY <1>1, ConfirmedWritten
<1> HIDE DEF c
<1>3. a \in [Slots -> Keypairs] /\ a[slot] = c /\ \A x \in Slots : x # slot => a[x] = s.kp[x]
  BY <1>1, <1>2
<1>4. /\ q \in [Slots -> Keypairs] /\ (slot # "next" => q = a)
      /\ slot = "next" => q["prev"] = s.kp["curr"] /\ q["curr"] = c /\ ~q["next"].valid
  BY <1>1, <1>3
<1>5. [s EXCEPT !.kp[slot].confirmed = TRUE, !.linkUp = TRUE] = l
  BY DEF c
<1> HIDE DEF a
<1>6. b \in Peers /\ b.kp = a /\ b.hs = s.hs
  BY <1>3, KeysWritten
<1> HIDE DEF b
<1>7. l \in Peers /\ l.kp = a /\ l.hs = s.hs
  BY <1>6, LinkAndWantsWritten
<1> HIDE DEF l
<1>8. p \in Peers /\ p.kp = q /\ p.hs = s.hs
  <2>1. p = IF slot # "next" THEN l ELSE [l EXCEPT !.kp = q]
    BY <1>7 DEF Promote
  <2> HIDE DEF p, q
  <2>2. [l EXCEPT !.kp = q] \in Peers /\ [l EXCEPT !.kp = q].kp = q
        /\ [l EXCEPT !.kp = q].hs = l.hs
    BY <1>4, <1>7, KeysWritten
  <2>3. CASE slot = "next"
    BY <1>7, <2>1, <2>2, <2>3
  <2>4. CASE slot # "next"
    BY <1>4, <1>7, <2>1, <2>4
  <2>. QED
    BY <2>3, <2>4
<1>9. w \in BOOLEAN
  BY Zenon
<1>10. Authenticated(s, slot) = [p EXCEPT !.wants = w]
  BY <1>5 DEF Authenticated
<1> HIDE DEF p, w, q
<1>11. [p EXCEPT !.wants = w] \in Peers /\ [p EXCEPT !.wants = w].kp = p.kp
       /\ [p EXCEPT !.wants = w].hs = p.hs
  BY <1>8, <1>9, LinkAndWantsWritten
<1>12. Authenticated(s, slot) \in Peers /\ Authenticated(s, slot).kp = q
       /\ Authenticated(s, slot).hs = s.hs
  BY <1>8, <1>10, <1>11
<1>. QED
  BY <1>4, <1>12 DEF a, c

LEMMA SeqTyped ==
    ASSUME NEW n \in 0 .. RejectMessages, n < RejectMessages
    PROVE  SeqOf(n) = n + 1 /\ SeqOf(n) \in 0 .. RejectMessages
BY MessageAssumption, ModAssumption DEF SeqOf

LEMMA DiffTyped == ASSUME NEW a \in Int, NEW b \in Int PROVE Diff(a, b) \in Nat
BY ModAssumption, WindowAssumption DEF Diff

LEMMA MarkedTyped ==
    ASSUME NEW w \in Windows, NEW seq \in 0 .. RejectMessages, Accepts(w, seq)
    PROVE  Marked(w, seq) \in Windows
<1>1. w.counter \in 0 .. RejectMessages /\ w.bitmap \subseteq Positions /\ 0 \in Positions
  BY WindowAssumption DEF Windows, Positions
<1>2. CASE seq > w.counter
  <2> DEFINE b == {0} \cup IF Diff(seq, w.counter) < Window
                           THEN Shifted(w.bitmap, Diff(seq, w.counter)) ELSE {}
  <2>1. b \subseteq Positions
    BY <1>1 DEF Shifted
  <2>2. Marked(w, seq) = [counter |-> seq, bitmap |-> b]
    BY <1>2 DEF Marked
  <2> HIDE DEF b
  <2>. QED
    BY <2>1, <2>2 DEF Windows
<1>3. CASE ~(seq > w.counter)
  <2>1. Diff(w.counter, seq) < Window
    BY <1>3 DEF Accepts
  <2>2. Diff(w.counter, seq) \in Nat
    <3>1. w.counter \in Int /\ seq \in Int
      BY <1>1
    <3>. QED
      BY <3>1, DiffTyped
  <2>3. Diff(w.counter, seq) \in Positions
    BY <2>1, <2>2, WindowAssumption DEF Positions
  <2>4. w.bitmap \cup {Diff(w.counter, seq)} \in SUBSET Positions
    BY <1>1, <2>3
  <2>5. Marked(w, seq) = [w EXCEPT !.bitmap = w.bitmap \cup {Diff(w.counter, seq)}]
    BY <1>3 DEF Marked
  <2>. QED
    BY <2>4, <2>5 DEF Windows
<1>. QED
  BY <1>2, <1>3

LEMMA WindowWritten ==
    ASSUME NEW s \in Peers, NEW slot \in Slots, NEW w \in Windows
    PROVE  LET t == [s EXCEPT !.kp[slot].win = w]
           IN  /\ t \in Peers /\ t.hs = s.hs
               /\ \A x \in Slots :
                     /\ t.kp[x].valid = s.kp[x].valid /\ t.kp[x].key = s.kp[x].key
                     /\ t.kp[x].init = s.kp[x].init /\ t.kp[x].sent = s.kp[x].sent
                     /\ t.kp[x].confirmed = s.kp[x].confirmed
                     /\ t.kp[x].win = IF x = slot THEN w ELSE s.kp[x].win
<1> DEFINE c == [s.kp[slot] EXCEPT !.win = w]
           q == [s.kp EXCEPT ![slot] = c]
<1>1. s.kp \in [Slots -> Keypairs]
  BY DEF Peers
<1>2. /\ c \in Keypairs /\ c.valid = s.kp[slot].valid /\ c.key = s.kp[slot].key
      /\ c.init = s.kp[slot].init /\ c.sent = s.kp[slot].sent
      /\ c.confirmed = s.kp[slot].confirmed /\ c.win = w
  BY <1>1 DEF Keypairs
<1>3. [s EXCEPT !.kp[slot].win = w] = [s EXCEPT !.kp = q]
  OBVIOUS
<1> HIDE DEF c
<1>4. q \in [Slots -> Keypairs] /\ q[slot] = c /\ \A x \in Slots : x # slot => q[x] = s.kp[x]
  BY <1>1, <1>2
<1> HIDE DEF q
<1>5. [s EXCEPT !.kp = q] \in Peers /\ [s EXCEPT !.kp = q].kp = q
      /\ [s EXCEPT !.kp = q].hs = s.hs
  BY <1>4, KeysWritten
<1>6. ASSUME NEW x \in Slots
      PROVE  /\ q[x].valid = s.kp[x].valid /\ q[x].key = s.kp[x].key
             /\ q[x].init = s.kp[x].init /\ q[x].sent = s.kp[x].sent
             /\ q[x].confirmed = s.kp[x].confirmed
             /\ q[x].win = IF x = slot THEN w ELSE s.kp[x].win
  <2>1. CASE x = slot
    BY <1>2, <1>4, <2>1
  <2>2. CASE x # slot
    BY <1>4, <2>2
  <2>. QED
    BY <2>1, <2>2
<1> DEFINE t == [s EXCEPT !.kp[slot].win = w]
<1>7. t \in Peers /\ t.hs = s.hs /\ t.kp = q
  BY <1>3, <1>5
<1> HIDE DEF t
<1>8. \A x \in Slots :
         /\ t.kp[x].valid = s.kp[x].valid /\ t.kp[x].key = s.kp[x].key
         /\ t.kp[x].init = s.kp[x].init /\ t.kp[x].sent = s.kp[x].sent
         /\ t.kp[x].confirmed = s.kp[x].confirmed
         /\ t.kp[x].win = IF x = slot THEN w ELSE s.kp[x].win
  BY <1>6, <1>7
<1>. QED
  BY <1>7, <1>8 DEF t

\* The timer's sweep, the handshake it starts and the check of the link.
LEMMA SweptEffect ==
    ASSUME NEW s \in Peers
    PROVE  Swept(s) \in Peers /\ Kept(s, Swept(s))
<1> DEFINE t == IF ShouldReset(s) THEN Destroy(s, Slots) ELSE s
<1>1. \A u \in Peers : Kept(u, u)
  BY DEF Kept, Peers, Keypairs
<1>2. t \in Peers /\ Kept(s, t)
  BY <1>1, DestroyEffect
<1>3. Swept(s) = Destroy(t, {"curr"}) \/ Swept(s) = t
  BY DEF Swept
<1> HIDE DEF t
<1>4. Swept(s) \in Peers /\ Kept(t, Swept(s))
  BY <1>1, <1>2, <1>3, DestroyEffect
<1>. QED
  BY <1>2, <1>4, KeptTransitive

LEMMA InitiatedEffect ==
    ASSUME NEW s \in Peers, NEW index \in 0 .. Unheard, NEW sent \in BOOLEAN
    PROVE  /\ Initiated(s, index, sent) \in Peers
           /\ Initiated(s, index, sent).kp = s.kp /\ Initiated(s, index, sent).hs = index
<1>1. 0 \in 0 .. RekeyTimeout
  BY TimeAssumption
<1>2. CASE sent
  <2>1. Initiated(s, index, sent) = [s EXCEPT !.hs = index, !.wants = FALSE, !.initAge = 0]
    BY <1>2 DEF Initiated
  <2>. QED
    BY <1>1, <2>1 DEF Peers
<1>3. CASE ~sent
  <2>1. Initiated(s, index, sent) = [s EXCEPT !.hs = index]
    BY <1>3 DEF Initiated
  <2>. QED
    BY <2>1 DEF Peers
<1>. QED
  BY <1>2, <1>3

LEMMA LinkCheckedEffect ==
    ASSUME NEW s \in Peers
    PROVE  /\ LinkChecked(s) \in Peers /\ LinkChecked(s).kp = s.kp
           /\ LinkChecked(s).hs = s.hs
<1> DEFINE l == s.linkUp /\ PeerIsUp(s)
<1>1. l \in BOOLEAN
  BY Zenon
<1>2. LinkChecked(s) = [s EXCEPT !.linkUp = l]
  BY DEF LinkChecked
<1> HIDE DEF l
<1>. QED
  BY <1>1, <1>2, LinkAndWantsWritten

LEMMA AgedEffect ==
    ASSUME NEW s \in Peers
    PROVE  Aged(s) \in Peers /\ Kept(s, Aged(s))
<1> DEFINE k == [slot \in Slots |->
                    IF s.kp[slot].valid
                    THEN [s.kp[slot] EXCEPT !.age = AgedUpTo(@, MaxAge(slot))]
                    ELSE s.kp[slot]]
           ia == AgedUpTo(s.initAge, RekeyTimeout)
           ta == AgedUpTo(s.txAge, Keepalive)
<1>1. s.kp \in [Slots -> Keypairs] /\ s.initAge \in 0 .. RekeyTimeout
      /\ s.txAge \in 0 .. Keepalive
  BY DEF Peers
<1>2. ASSUME NEW slot \in Slots
      PROVE  /\ k[slot] \in Keypairs
             /\ k[slot].valid = s.kp[slot].valid /\ k[slot].key = s.kp[slot].key
             /\ k[slot].init = s.kp[slot].init /\ k[slot].sent = s.kp[slot].sent
             /\ k[slot].confirmed = s.kp[slot].confirmed /\ k[slot].win = s.kp[slot].win
  <2> DEFINE a == AgedUpTo(s.kp[slot].age, MaxAge(slot))
  <2>1. s.kp[slot] \in Keypairs /\ s.kp[slot].age \in 0 .. MaxAge("curr")
    BY <1>1 DEF Keypairs
  <2>2. a \in 0 .. MaxAge("curr")
    BY <2>1, TimeAssumption DEF AgedUpTo, MaxAge
  <2>3. k[slot] = IF s.kp[slot].valid THEN [s.kp[slot] EXCEPT !.age = a] ELSE s.kp[slot]
    OBVIOUS
  <2> HIDE DEF a, k
  <2>. QED
    BY <2>1, <2>2, <2>3 DEF Keypairs
<1>3. ia \in 0 .. RekeyTimeout /\ ta \in 0 .. Keepalive
  BY <1>1, TimeAssumption DEF AgedUpTo
<1>4. k \in [Slots -> Keypairs]
  BY <1>2
<1>5. Aged(s) = [s EXCEPT !.kp = k, !.initAge = ia, !.txAge = ta]
  BY DEF Aged
<1> HIDE DEF k, ia, ta
<1>6. Aged(s) \in Peers /\ Aged(s).kp = k /\ Aged(s).hs = s.hs
  BY <1>3, <1>4, <1>5 DEF Peers
<1>7. \A slot \in Slots : s.kp[slot].sent \in Int
  BY <1>1 DEF Keypairs
<1>. QED
  BY <1>2, <1>6, <1>7 DEF Kept

LEMMA BlankEffect ==
    ASSUME NEW status \in {"none", "passive", "active"}
    PROVE  /\ BlankPeer(status) \in Peers /\ BlankPeer(status).hs = 0
           /\ \A x \in Slots : ~BlankPeer(status).kp[x].valid
<1>1. /\ 0 \in 0 .. Unheard /\ 0 \in 0 .. MaxIndex /\ RekeyTimeout \in 0 .. RekeyTimeout
      /\ Keepalive \in 0 .. Keepalive
  BY BoundAssumption, TimeAssumption DEF Unheard
<1>. QED
  BY <1>1, NoKeypairTyped DEF BlankPeer, Peers

LEMMA ActivatedEffect ==
    ASSUME NEW s \in Peers
    PROVE  Activated(s) \in Peers /\ Activated(s).kp = s.kp /\ Activated(s).hs = s.hs
BY DEF Activated, Peers

-----------------------------------------------------------------------------
(* Steps that start no session: what a device holds afterwards comes from  *)
(* what it held before, and what it sends is sent under that.              *)

From(s, t) ==
    /\ t.hs \in {0, s.hs}
    /\ \A x \in Slots : t.kp[x].valid =>
          \E y \in Slots :
             /\ s.kp[y].valid /\ t.kp[x].key = s.kp[y].key /\ t.kp[x].init = s.kp[y].init
             /\ s.kp[y].sent <= t.kp[x].sent

LEMMA DataShape ==
    ASSUME NEW m \in Messages, IsData(m)
    PROVE  /\ m \in Packets /\ m.key \in Keys /\ m.init \in BOOLEAN
           /\ m.nonce \in 0 .. RejectMessages
<1>1. m \in Packets
  BY DEF Messages, IsData
<1>. QED
  BY <1>1 DEF Packets

LEMMA SentTyped ==
    ASSUME NEW D \in [Device -> Peers], NEW d \in Device, NEW x \in Slots
    PROVE  D[d].kp[x].sent \in 0 .. RejectMessages
BY DEF Peers, Keypairs

LEMMA FromSound ==
    ASSUME NEW D, NEW N, NEW L, Sound(D, N, L),
           NEW E \in [Device -> Peers], NEW P \in SUBSET Packets,
           \A d \in Device : From(D[d], E[d]) /\ InSequence(E[d]) /\ SlotsConfirmed(E[d]),
           \A d \in Device, x \in Slots :
              Confirmed(E[d].kp[x]) /\ ~E[d].kp[x].init => Shown(N, E[d].kp[x].key),
           \A m \in P :
              /\ m.nonce < RejectMessages
              /\ \E d \in Device, y \in Slots :
                    /\ Confirmed(D[d].kp[y])
                    /\ m.key = D[d].kp[y].key /\ m.init = D[d].kp[y].init
              /\ \A d \in Device, x \in Slots :
                    /\ E[d].kp[x].valid /\ E[d].kp[x].key = m.key /\ E[d].kp[x].init = m.init
                    => m.nonce < E[d].kp[x].sent
    PROVE  Sound(E, N \cup P, L)
<1>1. /\ D \in [Device -> Peers] /\ N \subseteq Messages /\ L \in 0 .. MaxIndex
      /\ Indexed(D, N, L) /\ Untouched(D, N, L) /\ OneEnd(D)
      /\ NoncesUsed(D, N) /\ OnceShown(D, N)
      /\ \A d \in Device : Pending(D[d], L)
  BY DEF Sound
<1>2. \A m \in P : IsData(m) /\ m \in Messages
  BY DEF Packets, Messages, IsData
<1>3. ASSUME NEW d \in Device, NEW x \in Slots, E[d].kp[x].valid
      PROVE  \E y \in Slots :
                /\ D[d].kp[y].valid /\ E[d].kp[x].key = D[d].kp[y].key
                /\ E[d].kp[x].init = D[d].kp[y].init
                /\ D[d].kp[y].sent <= E[d].kp[x].sent
                /\ Drawn(E[d].kp[x].key, L)
  BY <1>1, <1>3 DEF From, Indexed
<1>4. ASSUME NEW m \in P
      PROVE  \E d \in Device, y \in Slots :
                /\ Confirmed(D[d].kp[y]) /\ D[d].kp[y].valid
                /\ m.key = D[d].kp[y].key /\ m.init = D[d].kp[y].init
                /\ Drawn(m.key, L)
  BY <1>1 DEF Indexed, Confirmed
<1>5. \A key : Shown(N, key) => Shown(N \cup P, key)
  BY DEF Shown
<1>6. Indexed(E, N \cup P, L)
  BY <1>1, <1>2, <1>3, <1>4 DEF Indexed, IsData
<1>7. ASSUME NEW d \in Device PROVE Pending(E[d], L)
  <2>1. SUFFICES ASSUME E[d].hs # 0
        PROVE  /\ E[d].hs <= L \/ E[d].hs = Unheard
               /\ \A x \in Slots : E[d].kp[x].valid => E[d].kp[x].key.r < E[d].hs
    BY DEF Pending
  <2>2. E[d].hs = D[d].hs
    BY <2>1 DEF From
  <2>. QED
    BY <1>1, <1>3, <2>1, <2>2 DEF Pending
<1>8. Untouched(E, N \cup P, L)
  <2>1. \A d \in Device : E[d].hs = D[d].hs \/ E[d].hs = 0
    BY DEF From
  <2>2. ASSUME NEW d \in Device, NEW e \in Device, E[d].hs # 0, E[d].hs <= L,
               E[d].hs = E[e].hs
        PROVE  d = e
    <3>1. D[d].hs = E[d].hs /\ D[e].hs = E[e].hs
      BY <2>1, <2>2
    <3>. QED
      BY <1>1, <2>2, <3>1 DEF Untouched
  <2>3. ASSUME NEW d \in Device, NEW e \in Device, NEW x \in Slots,
               E[e].kp[x].valid, E[e].kp[x].init
        PROVE  E[e].kp[x].key.i # E[d].hs
    <3>1. PICK y \in Slots : D[e].kp[y].valid /\ E[e].kp[x].key = D[e].kp[y].key
                             /\ D[e].kp[y].init /\ Drawn(E[e].kp[x].key, L)
      BY <1>3, <2>3
    <3>2. E[e].kp[x].key.i # D[d].hs
      BY <1>1, <3>1 DEF Untouched
    <3>3. E[e].kp[x].key.i # 0
      BY <3>1 DEF Drawn
    <3>. QED
      BY <2>1, <3>2, <3>3
  <2>4. ASSUME NEW d \in Device, NEW m \in N \cup P, IsData(m), m.init
        PROVE  m.key.i # E[d].hs
    <3>1. Drawn(m.key, L)
      BY <1>1, <1>4, <2>4 DEF Indexed, IsData
    <3>2. m.key.i # D[d].hs
      <4>1. CASE m \in N
        BY <1>1, <2>4, <4>1 DEF Untouched
      <4>2. CASE m \in P
        BY <1>1, <1>4, <2>4, <4>2 DEF Untouched
      <4>. QED
        BY <4>1, <4>2
    <3>3. m.key.i # 0
      BY <3>1 DEF Drawn
    <3>. QED
      BY <2>1, <3>2, <3>3
  <2>. QED
    BY <2>2, <2>3, <2>4 DEF Untouched
<1>9. OneEnd(E)
  <2>1. ASSUME NEW d \in Device, NEW e \in Device, NEW x \in Slots, NEW y \in Slots,
               E[d].kp[x].valid, E[e].kp[y].valid, E[d].kp[x].key = E[e].kp[y].key,
               E[d].kp[x].init = E[e].kp[y].init
        PROVE  d = e
    <3>1. PICK v \in Slots : D[d].kp[v].valid /\ E[d].kp[x].key = D[d].kp[v].key
                             /\ E[d].kp[x].init = D[d].kp[v].init
      BY <1>3, <2>1
    <3>2. PICK w \in Slots : D[e].kp[w].valid /\ E[e].kp[y].key = D[e].kp[w].key
                             /\ E[e].kp[y].init = D[e].kp[w].init
      BY <1>3, <2>1
    <3>. QED
      BY <1>1, <2>1, <3>1, <3>2 DEF OneEnd
  <2>. QED
    BY <2>1 DEF OneEnd
<1>10. NoncesUsed(E, N \cup P)
  <2>1. ASSUME NEW m \in N, IsData(m), NEW d \in Device, NEW x \in Slots,
               E[d].kp[x].valid, E[d].kp[x].key = m.key, E[d].kp[x].init = m.init
        PROVE  m.nonce < E[d].kp[x].sent
    <3>1. PICK y \in Slots : D[d].kp[y].valid /\ E[d].kp[x].key = D[d].kp[y].key
                             /\ E[d].kp[x].init = D[d].kp[y].init
                             /\ D[d].kp[y].sent <= E[d].kp[x].sent
      BY <1>3, <2>1
    <3>2. m.nonce < D[d].kp[y].sent
      BY <1>1, <2>1, <3>1 DEF NoncesUsed
    <3>3. m.nonce \in Int /\ D[d].kp[y].sent \in Int /\ E[d].kp[x].sent \in Int
      <4>1. m.nonce \in Int
        BY <1>1, <2>1, DataShape
      <4>2. D[d].kp[y].sent \in Int /\ E[d].kp[x].sent \in Int
        BY <1>1, SentTyped
      <4>. QED
        BY <4>1, <4>2
    <3>. QED
      BY <3>1, <3>2, <3>3
  <2>. QED
    BY <2>1 DEF NoncesUsed
<1>11. OnceShown(E, N \cup P)
  <2>1. ASSUME NEW m \in P, ~m.init PROVE Shown(N, m.key)
    BY <1>1, <1>4, <2>1 DEF OnceShown
  <2>. QED
    BY <1>1, <1>5, <2>1 DEF OnceShown
<1>. QED
  BY <1>1, <1>2, <1>6, <1>7, <1>8, <1>9, <1>10, <1>11 DEF Sound

\* The same for one device whose slots stay where they are.
LEMMA KeptFrom ==
    ASSUME NEW s, NEW t, Kept(s, t), InSequence(s), SlotsConfirmed(s)
    PROVE  From(s, t) /\ InSequence(t) /\ SlotsConfirmed(t)
<1>1. {"curr", "next", "prev"} = Slots
  BY DEF Slots
<1>2. From(s, t)
  BY DEF Kept, From
<1>3. InSequence(t)
  BY <1>1 DEF Kept, InSequence, Older
<1>4. SlotsConfirmed(t)
  BY <1>1 DEF Kept, SlotsConfirmed, Confirmed
<1>. QED
  BY <1>2, <1>3, <1>4

LEMMA KeptAllSound ==
    ASSUME NEW D, NEW N, NEW L, Sound(D, N, L), NEW E \in [Device -> Peers],
           \A d \in Device : Kept(D[d], E[d])
    PROVE  Sound(E, N, L)
<1>1. \A d \in Device : From(D[d], E[d]) /\ InSequence(E[d]) /\ SlotsConfirmed(E[d])
  BY KeptFrom DEF Sound
<1>2. \A d \in Device, x \in Slots :
         Confirmed(E[d].kp[x]) /\ ~E[d].kp[x].init => Shown(N, E[d].kp[x].key)
  BY DEF Kept, Sound, OnceShown, Confirmed
<1>3. {} \in SUBSET Packets /\ N \cup {} = N
  OBVIOUS
<1>. QED
  BY <1>1, <1>2, <1>3, FromSound

LEMMA KeptSound ==
    ASSUME NEW D, NEW N, NEW L, Sound(D, N, L), NEW d \in Device, NEW t \in Peers,
           Kept(D[d], t)
    PROVE  Sound([D EXCEPT ![d] = t], N, L)
<1> DEFINE E == [D EXCEPT ![d] = t]
<1>1. D \in [Device -> Peers]
  BY DEF Sound
<1>2. E \in [Device -> Peers] /\ E[d] = t /\ \A e \in Device : e # d => E[e] = D[e]
  BY <1>1
<1>3. \A s \in Peers : Kept(s, s)
  BY DEF Kept, Peers, Keypairs
<1>4. \A e \in Device : Kept(D[e], E[e])
  BY <1>1, <1>2, <1>3
<1> HIDE DEF E
<1>5. Sound(E, N, L)
  BY <1>2, <1>4, KeptAllSound
<1>. QED
  BY <1>5 DEF E

\* wireguardif_output_to_peer: the number of the packet is below the counter of
\* the one slot that sends under its key.
LEMMA OutputSound ==
    ASSUME NEW D, NEW N, NEW L, Sound(D, N, L), NEW d \in Device,
           NEW outcome, NEW payload \in BOOLEAN
    PROVE  Sound([D EXCEPT ![d] = Output(D[d], outcome)],
                 N \cup OutputSent(D[d], payload, outcome), L)
<1> DEFINE s == D[d]
           t == Output(s, outcome)
           E == [D EXCEPT ![d] = t]
           P == OutputSent(s, payload, outcome)
           z == SendingSlot(s)
<1>1. D \in [Device -> Peers] /\ OneEnd(D) /\ OnceShown(D, N)
      /\ \A e \in Device : InSequence(D[e]) /\ SlotsConfirmed(D[e])
  BY DEF Sound
<1>2. s \in Peers /\ z \in Slots
  BY <1>1 DEF SendingSlot, Slots
<1>3. /\ t \in Peers /\ Kept(s, t)
      /\ Encrypts(s, outcome) =>
            Confirmed(s.kp[z]) /\ s.kp[z].sent < RejectMessages
            /\ t.kp[z].sent = s.kp[z].sent + 1
  BY <1>2, OutputEffect
<1>4. \A m \in P : /\ Encrypts(s, outcome) /\ m \in Packets
                   /\ m.key = s.kp[z].key /\ m.init = s.kp[z].init
                   /\ m.nonce = s.kp[z].sent
  BY <1>2, SentShape
<1> HIDE DEF t, P, z
<1>5. E \in [Device -> Peers] /\ E[d] = t /\ \A e \in Device : e # d => E[e] = D[e]
  BY <1>1, <1>3
<1>6. \A u \in Peers : Kept(u, u)
  BY DEF Kept, Peers, Keypairs
<1> HIDE DEF E
<1>7. \A e \in Device : Kept(D[e], E[e])
  BY <1>1, <1>3, <1>5, <1>6
<1>8. \A e \in Device : From(D[e], E[e]) /\ InSequence(E[e]) /\ SlotsConfirmed(E[e])
  BY <1>1, <1>7, KeptFrom
<1>9. \A e \in Device, x \in Slots :
         Confirmed(E[e].kp[x]) /\ ~E[e].kp[x].init => Shown(N, E[e].kp[x].key)
  BY <1>1, <1>7 DEF Kept, OnceShown, Confirmed
<1>10. ASSUME NEW m \in P
       PROVE  /\ m.nonce < RejectMessages
              /\ \E e \in Device, y \in Slots :
                    /\ Confirmed(D[e].kp[y])
                    /\ m.key = D[e].kp[y].key /\ m.init = D[e].kp[y].init
  BY <1>2, <1>3, <1>4
<1>11. ASSUME NEW m \in P, NEW e \in Device, NEW x \in Slots, E[e].kp[x].valid,
              E[e].kp[x].key = m.key, E[e].kp[x].init = m.init
       PROVE  m.nonce < E[e].kp[x].sent
  <2>1. /\ D[e].kp[x].valid /\ D[e].kp[x].key = D[d].kp[z].key
        /\ D[e].kp[x].init = D[d].kp[z].init
    BY <1>4, <1>7, <1>11 DEF Kept
  <2>2. D[d].kp[z].valid
    BY <1>3, <1>4, <1>11 DEF Confirmed
  <2>3. e = d
    BY <1>1, <1>2, <2>1, <2>2 DEF OneEnd
  <2>4. x = z
    <3>1. InSequence(D[d]) /\ Slots = {"curr", "next", "prev"}
      BY <1>1 DEF Slots
    <3>2. \A y \in Slots : D[d].kp[y].valid => D[d].kp[y].key.r \in Int
      BY <1>1 DEF Peers, Keypairs, Keys
    <3>3. SUFFICES ASSUME x # z PROVE FALSE
      OBVIOUS
    <3>4. D[d].kp[x].key.r = D[d].kp[z].key.r /\ D[d].kp[x].valid
      BY <2>1, <2>3
    <3>. QED
      BY <1>2, <2>2, <3>1, <3>2, <3>3, <3>4 DEF InSequence, Older
  <2>5. s.kp[z].sent \in Int
    BY <1>1, <1>2, SentTyped
  <2>. QED
    BY <1>3, <1>4, <1>5, <1>11, <2>3, <2>4, <2>5
<1>12. P \in SUBSET Packets
  BY <1>4
<1>13. Sound(E, N \cup P, L)
  BY <1>5, <1>8, <1>9, <1>10, <1>11, <1>12, FromSound
<1>. QED
  BY <1>13 DEF E, P, t

\* One device at a time, with nothing sent.
LEMMA OneDeviceSound ==
    ASSUME NEW D, NEW N, NEW L, Sound(D, N, L), NEW d \in Device, NEW u \in Peers,
           From(D[d], u), InSequence(u), SlotsConfirmed(u),
           \A x \in Slots : Confirmed(u.kp[x]) /\ ~u.kp[x].init => Shown(N, u.kp[x].key)
    PROVE  Sound([D EXCEPT ![d] = u], N, L)
<1> DEFINE E == [D EXCEPT ![d] = u]
<1>1. D \in [Device -> Peers] /\ OnceShown(D, N)
      /\ \A e \in Device : InSequence(D[e]) /\ SlotsConfirmed(D[e])
  BY DEF Sound
<1>2. E \in [Device -> Peers] /\ E[d] = u /\ \A e \in Device : e # d => E[e] = D[e]
  BY <1>1
<1>3. \A s \in Peers : From(s, s)
  BY DEF From, Peers, Keypairs
<1> HIDE DEF E
<1>4. \A e \in Device : From(D[e], E[e]) /\ InSequence(E[e]) /\ SlotsConfirmed(E[e])
  BY <1>1, <1>2, <1>3
<1>5. \A e \in Device, x \in Slots :
         Confirmed(E[e].kp[x]) /\ ~E[e].kp[x].init => Shown(N, E[e].kp[x].key)
  BY <1>1, <1>2 DEF OnceShown
<1>6. {} \in SUBSET Packets /\ N \cup {} = N
  OBVIOUS
<1>7. Sound(E, N, L)
  BY <1>2, <1>4, <1>5, <1>6, FromSound
<1>. QED
  BY <1>7 DEF E

\* wireguardif_process_data_message: the packet that confirms a responder's
\* session is one of its initiator, for it carries the responder's index.
LEMMA ReceivedSound ==
    ASSUME NEW D, NEW N, NEW L, Sound(D, N, L), NEW d \in Device, NEW slot \in Slots,
           NEW m \in N, IsData(m), Holds(D[d].kp[slot], Receiver(m)),
           m.key = D[d].kp[slot].key,
           NEW u \in Peers, u.hs = Authenticated(D[d], slot).hs,
           \A x \in Slots :
              /\ u.kp[x].valid = Authenticated(D[d], slot).kp[x].valid
              /\ u.kp[x].key = Authenticated(D[d], slot).kp[x].key
              /\ u.kp[x].init = Authenticated(D[d], slot).kp[x].init
              /\ u.kp[x].sent = Authenticated(D[d], slot).kp[x].sent
              /\ u.kp[x].confirmed = Authenticated(D[d], slot).kp[x].confirmed
    PROVE  Sound([D EXCEPT ![d] = u], N, L)
<1> DEFINE s == D[d]
           t == Authenticated(s, slot)
           c == [s.kp[slot] EXCEPT !.confirmed = TRUE]
           E == [D EXCEPT ![d] = u]
<1>1. /\ D \in [Device -> Peers] /\ Indexed(D, N, L) /\ OnceShown(D, N)
      /\ \A e \in Device : InSequence(D[e]) /\ SlotsConfirmed(D[e])
      /\ N \subseteq Messages
  BY DEF Sound
<1>2. s \in Peers /\ s.kp \in [Slots -> Keypairs] /\ Slots = {"curr", "next", "prev"}
  BY <1>1 DEF Peers, Slots
<1>3. /\ t.hs = s.hs
      /\ slot # "next" => t.kp = [s.kp EXCEPT ![slot] = c]
      /\ slot = "next" => t.kp["prev"] = s.kp["curr"] /\ t.kp["curr"] = c
                          /\ ~t.kp["next"].valid
  BY <1>2, AuthenticatedEffect
<1>4. /\ c.confirmed /\ c.valid = s.kp[slot].valid /\ c.key = s.kp[slot].key
      /\ c.init = s.kp[slot].init /\ c.sent = s.kp[slot].sent
  BY <1>2, ConfirmedWritten
<1>5. s.kp[slot].valid /\ LocalIndex(s.kp[slot]) = Receiver(m)
  BY DEF Holds
<1>6. ~s.kp[slot].init => Shown(N, s.kp[slot].key)
  <2>1. Drawn(m.key, L) /\ m.init \in BOOLEAN
    BY <1>1, DataShape DEF Indexed, IsData
  <2>2. m.key.i # m.key.r
    <3>1. m.key \in Keys
      BY <1>1, DataShape
    <3>. QED
      BY <2>1, <3>1 DEF Drawn, Keys
  <2>3. ~s.kp[slot].init => m.init
    BY <1>5, <2>1, <2>2 DEF LocalIndex, Receiver
  <2>. QED
    BY <2>3 DEF Shown
<1>7. /\ u.hs = t.hs
      /\ \A x \in Slots :
            /\ u.kp[x].valid = t.kp[x].valid /\ u.kp[x].key = t.kp[x].key
            /\ u.kp[x].init = t.kp[x].init /\ u.kp[x].sent = t.kp[x].sent
            /\ u.kp[x].confirmed = t.kp[x].confirmed
  OBVIOUS
<1> HIDE DEF t, c
<1>8. \A x \in Slots : s.kp[x].sent <= s.kp[x].sent
  BY <1>2 DEF Keypairs
<1>9. CASE slot # "next"
  <2>1. t.kp[slot] = c /\ \A x \in Slots : x # slot => t.kp[x] = s.kp[x]
    BY <1>2, <1>3, <1>9
  <2>2. \A x \in Slots :
           /\ u.kp[x].valid = s.kp[x].valid /\ u.kp[x].key = s.kp[x].key
           /\ u.kp[x].init = s.kp[x].init /\ u.kp[x].sent = s.kp[x].sent
           /\ x # slot => u.kp[x].confirmed = s.kp[x].confirmed
    BY <1>4, <1>7, <2>1
  <2>3. u.kp[slot].confirmed
    BY <1>4, <1>7, <2>1
  <2>4. From(s, u)
    BY <1>3, <1>7, <1>8, <2>2 DEF From
  <2>5. InSequence(u)
    BY <1>1, <1>2, <2>2 DEF InSequence, Older
  <2>6. SlotsConfirmed(u)
    BY <1>1, <1>2, <1>9, <2>2, <2>3 DEF SlotsConfirmed, Confirmed
  <2>7. \A x \in Slots :
           Confirmed(u.kp[x]) /\ ~u.kp[x].init => Shown(N, u.kp[x].key)
    BY <1>1, <1>6, <2>2 DEF OnceShown, Confirmed
  <2>. QED
    BY <1>1, <2>4, <2>5, <2>6, <2>7, OneDeviceSound
<1>10. CASE slot = "next"
  <2>1. /\ u.kp["prev"].valid = s.kp["curr"].valid /\ u.kp["prev"].key = s.kp["curr"].key
        /\ u.kp["prev"].init = s.kp["curr"].init /\ u.kp["prev"].sent = s.kp["curr"].sent
        /\ u.kp["prev"].confirmed = s.kp["curr"].confirmed
    BY <1>2, <1>3, <1>7, <1>10
  <2>2. /\ u.kp["curr"].valid = s.kp["next"].valid /\ u.kp["curr"].key = s.kp["next"].key
        /\ u.kp["curr"].init = s.kp["next"].init /\ u.kp["curr"].sent = s.kp["next"].sent
        /\ u.kp["curr"].confirmed /\ ~u.kp["next"].valid
    BY <1>2, <1>3, <1>4, <1>7, <1>10
  <2>3. From(s, u)
    <3>1. ASSUME NEW x \in Slots, u.kp[x].valid
          PROVE  \E y \in Slots :
                    /\ s.kp[y].valid /\ u.kp[x].key = s.kp[y].key
                    /\ u.kp[x].init = s.kp[y].init /\ s.kp[y].sent <= u.kp[x].sent
      BY <1>2, <1>8, <2>1, <2>2, <3>1
    <3>. QED
      BY <1>3, <1>7, <3>1 DEF From
  <2>4. InSequence(u)
    BY <1>1, <2>1, <2>2 DEF InSequence, Older
  <2>5. SlotsConfirmed(u)
    BY <2>2 DEF SlotsConfirmed, Confirmed
  <2>6. ASSUME NEW x \in Slots, Confirmed(u.kp[x]), ~u.kp[x].init
        PROVE  Shown(N, u.kp[x].key)
    <3>1. CASE x = "curr"
      BY <1>6, <1>10, <2>2, <2>6, <3>1
    <3>2. CASE x = "prev"
      BY <1>1, <1>2, <2>1, <2>6, <3>2 DEF OnceShown, Confirmed
    <3>. QED
      BY <1>2, <2>2, <2>6, <3>1, <3>2 DEF Confirmed
  <2>. QED
    BY <1>1, <2>3, <2>4, <2>5, <2>6, OneDeviceSound
<1>. QED
  BY <1>9, <1>10

-----------------------------------------------------------------------------
(* Steps that start a session or a handshake.                              *)

\* wireguard_start_session, at either end: nothing has ever been under its key.
LEMMA StartSound ==
    ASSUME NEW D, NEW N, NEW L, Sound(D, N, L), NEW d \in Device,
           NEW s \in Peers, s.kp = D[d].kp,
           NEW key \in Keys, NEW init \in BOOLEAN,
           NEW K \in 0 .. MaxIndex, L <= K, Drawn(key, K),
           init => key.i = D[d].hs /\ K = L,
           ~init => key.r = L + 1,
           NEW M \in SUBSET [type : {"resp"}, key : Keys], \A m \in M : Drawn(m.key, K)
    PROVE  Sound([D EXCEPT ![d] = StartSession(s, key, init)], N \cup M, K)
<1> DEFINE t == StartSession(s, key, init)
           k == NewKeypair(key, init)
           E == [D EXCEPT ![d] = t]
<1>1. /\ D \in [Device -> Peers] /\ N \subseteq Messages /\ L \in 0 .. MaxIndex
      /\ Indexed(D, N, L) /\ Untouched(D, N, L) /\ OneEnd(D)
      /\ NoncesUsed(D, N) /\ OnceShown(D, N)
      /\ \A e \in Device : Pending(D[e], L) /\ InSequence(D[e]) /\ SlotsConfirmed(D[e])
  BY DEF Sound
<1>2. k.valid /\ k.key = key /\ k.init = init /\ k.sent = 0 /\ k.confirmed = init
  BY NewKeypairShape
<1>3. /\ t \in Peers /\ t.hs = 0
      /\ ~init => /\ t.kp["next"] = k /\ t.kp["curr"] = D[d].kp["curr"]
                  /\ ~t.kp["prev"].valid
      /\ init => /\ t.kp["curr"] = k /\ ~t.kp["next"].valid
                 /\ t.kp["prev"] = IF D[d].kp["next"].valid THEN D[d].kp["next"]
                                   ELSE D[d].kp["curr"]
  BY StartEffect
<1>4. Slots = {"curr", "next", "prev"}
  BY DEF Slots
<1>5. /\ key.i \in Int /\ key.r \in Int /\ L \in Int /\ K \in Int
      /\ \A e \in Device : D[e].hs \in Int
      /\ \A e \in Device, x \in Slots : D[e].kp[x].key.r \in Int /\ D[e].kp[x].key.i \in Int
  BY <1>1 DEF Keys, Peers, Keypairs
<1> HIDE DEF t, k
<1>6. E \in [Device -> Peers] /\ E[d] = t /\ \A e \in Device : e # d => E[e] = D[e]
  BY <1>1, <1>3
<1> HIDE DEF E
<1>7. ASSUME NEW e \in Device, NEW x \in Slots, E[e].kp[x].valid
      PROVE  (e = d /\ E[e].kp[x] = k) \/ \E y \in Slots : E[e].kp[x] = D[e].kp[y]
  BY <1>3, <1>4, <1>6, <1>7
<1>8. ASSUME NEW y \in Slots, D[d].kp[y].valid PROVE D[d].kp[y].key.r < key.r
  <2>1. Drawn(D[d].kp[y].key, L)
    BY <1>1, <1>8 DEF Indexed
  <2>2. CASE init
    <3>1. D[d].hs # 0 /\ D[d].hs = key.i /\ key.i < key.r
      BY <1>5, <2>2 DEF Drawn
    <3>2. D[d].kp[y].key.r < D[d].hs
      BY <1>1, <1>8, <3>1 DEF Pending
    <3>. QED
      BY <1>5, <3>1, <3>2
  <2>3. CASE ~init
    BY <1>5, <2>1, <2>3 DEF Drawn
  <2>. QED
    BY <2>2, <2>3
<1>9. ASSUME NEW e \in Device, NEW y \in Slots, D[e].kp[y].valid,
             D[e].kp[y].key = key, D[e].kp[y].init = init
      PROVE  FALSE
  <2>1. CASE init
    BY <1>1, <1>9, <2>1 DEF Untouched
  <2>2. CASE ~init
    BY <1>1, <1>5, <1>9, <2>2 DEF Indexed, Drawn
  <2>. QED
    BY <2>1, <2>2
<1>10. ASSUME NEW m \in N, IsData(m), m.key = key, m.init = init
       PROVE  FALSE
  <2>1. CASE init
    BY <1>1, <1>10, <2>1 DEF Untouched
  <2>2. CASE ~init
    <3>1. Drawn(key, L)
      BY <1>1, <1>10 DEF Indexed, IsData
    <3>. QED
      BY <1>5, <2>2, <3>1 DEF Drawn
  <2>. QED
    BY <2>1, <2>2
<1>11. ASSUME NEW e \in Device, init, key.i = E[e].hs
       PROVE  FALSE
  <2>1. key.i > 0 /\ key.i <= L /\ D[d].hs = key.i
    BY <1>5, <1>11 DEF Drawn
  <2>2. CASE e = d
    BY <1>3, <1>5, <1>6, <1>11, <2>1, <2>2
  <2>3. CASE e # d
    BY <1>1, <1>5, <1>6, <1>11, <2>1, <2>3 DEF Untouched
  <2>. QED
    BY <2>2, <2>3
<1>12. \A m \in M : ~IsData(m) /\ m \in Messages /\ m.type # "init"
  BY DEF IsData, Messages
<1>13. Indexed(E, N \cup M, K)
  <2>1. \A j : Drawn(j, L) /\ j.i \in Int /\ j.r \in Int => Drawn(j, K)
    BY <1>5 DEF Drawn
  <2>2. ASSUME NEW e \in Device, NEW x \in Slots, E[e].kp[x].valid
        PROVE  Drawn(E[e].kp[x].key, K)
    BY <1>1, <1>2, <1>5, <1>7, <2>1, <2>2 DEF Indexed
  <2>3. ASSUME NEW m \in N, m.type # "init" PROVE Drawn(m.key, K)
    <3>1. m.key \in Keys
      BY <1>1, <2>3 DEF Messages, Packets
    <3>2. m.key.i \in Int /\ m.key.r \in Int
      BY <3>1 DEF Keys
    <3>. QED
      BY <1>1, <2>1, <2>3, <3>2 DEF Indexed
  <2>4. ASSUME NEW m \in N, m.type = "init" PROVE m.i <= K
    <3>1. m.i \in Int
      BY <1>1, <2>4 DEF Messages, Packets, Index
    <3>. QED
      BY <1>1, <1>5, <2>4, <3>1 DEF Indexed
  <2>. QED
    BY <1>1, <1>12, <2>2, <2>3, <2>4 DEF Indexed
<1>14. ASSUME NEW e \in Device PROVE InSequence(E[e]) /\ Pending(E[e], K) /\ SlotsConfirmed(E[e])
  <2>1. CASE e # d
    <3>1. Pending(D[e], K)
      BY <1>1, <1>5 DEF Pending
    <3>. QED
      BY <1>1, <1>6, <2>1, <3>1
  <2>2. CASE e = d
    <3>1. InSequence(t)
      BY <1>2, <1>3, <1>4, <1>8 DEF InSequence, Older
    <3>2. Pending(t, K)
      BY <1>3 DEF Pending
    <3>3. SlotsConfirmed(t)
      BY <1>1, <1>2, <1>3 DEF SlotsConfirmed, Confirmed
    <3>. QED
      BY <1>6, <2>2, <3>1, <3>2, <3>3
  <2>. QED
    BY <2>1, <2>2
<1>15. Untouched(E, N \cup M, K)
  <2>1. \A e \in Device : E[e].hs = 0 \/ (e # d /\ E[e].hs = D[e].hs)
    BY <1>3, <1>6
  <2>2. ASSUME NEW a \in Device, NEW b \in Device, E[a].hs # 0, E[a].hs <= K,
               E[a].hs = E[b].hs
        PROVE  a = b
    <3>1. D[a].hs = E[a].hs /\ D[b].hs = E[a].hs
      BY <2>1, <2>2
    <3>2. D[a].hs <= L
      <4>1. D[a].hs <= L \/ D[a].hs = MaxIndex + 1
        BY <1>1, <2>2, <3>1 DEF Pending, Unheard
      <4>. QED
        BY <1>5, <2>2, <3>1, <4>1, BoundAssumption
    <3>. QED
      BY <1>1, <2>2, <3>1, <3>2 DEF Untouched
  <2>3. ASSUME NEW a \in Device, NEW b \in Device, NEW x \in Slots,
               E[b].kp[x].valid, E[b].kp[x].init
        PROVE  E[b].kp[x].key.i # E[a].hs
    <3>1. CASE E[b].kp[x] = k
      BY <1>2, <1>11, <2>3, <3>1
    <3>2. ASSUME NEW y \in Slots, E[b].kp[x] = D[b].kp[y]
          PROVE  E[b].kp[x].key.i # E[a].hs
      <4>1. D[b].kp[y].key.i # D[a].hs /\ Drawn(D[b].kp[y].key, L)
        BY <1>1, <2>3, <3>2 DEF Untouched, Indexed
      <4>2. D[b].kp[y].key.i # 0
        BY <4>1 DEF Drawn
      <4>. QED
        BY <2>1, <3>2, <4>1, <4>2
    <3>. QED
      BY <1>7, <2>3, <3>1, <3>2
  <2>4. ASSUME NEW a \in Device, NEW m \in N, IsData(m), m.init
        PROVE  m.key.i # E[a].hs
    <3>1. Drawn(m.key, L) /\ m.key.i # D[a].hs
      BY <1>1, <2>4 DEF Indexed, Untouched, IsData
    <3>2. m.key.i # 0
      BY <3>1 DEF Drawn
    <3>. QED
      BY <2>1, <3>1, <3>2
  <2>. QED
    BY <1>12, <2>2, <2>3, <2>4 DEF Untouched
<1>16. OneEnd(E)
  <2>1. ASSUME NEW a \in Device, NEW b \in Device, NEW x \in Slots, NEW y \in Slots,
               E[a].kp[x].valid, E[b].kp[y].valid, E[a].kp[x].key = E[b].kp[y].key,
               E[a].kp[x].init = E[b].kp[y].init
        PROVE  a = b
    <3>1. (a = d /\ E[a].kp[x] = k) \/ \E v \in Slots : E[a].kp[x] = D[a].kp[v]
      BY <1>7, <2>1
    <3>2. (b = d /\ E[b].kp[y] = k) \/ \E v \in Slots : E[b].kp[y] = D[b].kp[v]
      BY <1>7, <2>1
    <3>3. CASE a = d /\ E[a].kp[x] = k /\ b # d
      <4>1. PICK v \in Slots : E[b].kp[y] = D[b].kp[v]
        BY <3>2, <3>3
      <4>2. D[b].kp[v].valid /\ D[b].kp[v].key = key /\ D[b].kp[v].init = init
        BY <1>2, <2>1, <3>3, <4>1
      <4>. QED
        BY <1>9, <4>2
    <3>4. CASE b = d /\ E[b].kp[y] = k /\ a # d
      <4>1. PICK v \in Slots : E[a].kp[x] = D[a].kp[v]
        BY <3>1, <3>4
      <4>2. D[a].kp[v].valid /\ D[a].kp[v].key = key /\ D[a].kp[v].init = init
        BY <1>2, <2>1, <3>4, <4>1
      <4>. QED
        BY <1>9, <4>2
    <3>5. CASE \E v, w \in Slots : E[a].kp[x] = D[a].kp[v] /\ E[b].kp[y] = D[b].kp[w]
      <4>1. PICK v \in Slots, w \in Slots :
               E[a].kp[x] = D[a].kp[v] /\ E[b].kp[y] = D[b].kp[w]
        BY <3>5
      <4>2. /\ D[a].kp[v].valid /\ D[b].kp[w].valid
            /\ D[a].kp[v].key = D[b].kp[w].key /\ D[a].kp[v].init = D[b].kp[w].init
        BY <2>1, <4>1
      <4>. QED
        BY <1>1, <4>2 DEF OneEnd
    <3>. QED
      BY <3>1, <3>2, <3>3, <3>4, <3>5
  <2>. QED
    BY <2>1 DEF OneEnd
<1>17. NoncesUsed(E, N \cup M)
  <2>1. ASSUME NEW m \in N, IsData(m), NEW e \in Device, NEW x \in Slots,
               E[e].kp[x].valid, E[e].kp[x].key = m.key, E[e].kp[x].init = m.init
        PROVE  m.nonce < E[e].kp[x].sent
    BY <1>1, <1>2, <1>7, <1>10, <2>1 DEF NoncesUsed
  <2>. QED
    BY <1>12, <2>1 DEF NoncesUsed
<1>18. OnceShown(E, N \cup M)
  <2>1. \A j : Shown(N, j) => Shown(N \cup M, j)
    BY DEF Shown
  <2>2. ASSUME NEW e \in Device, NEW x \in Slots, Confirmed(E[e].kp[x]), ~E[e].kp[x].init
        PROVE  Shown(N, E[e].kp[x].key)
    BY <1>1, <1>2, <1>7, <2>2 DEF OnceShown, Confirmed
  <2>. QED
    BY <1>1, <1>12, <2>1, <2>2 DEF OnceShown
<1>19. N \cup M \subseteq Messages
  BY <1>1, <1>12
<1>20. Sound(E, N \cup M, K)
  BY <1>6, <1>13, <1>14, <1>15, <1>16, <1>17, <1>18, <1>19 DEF Sound
<1>. QED
  BY <1>20 DEF E, t

\* wireguard_start_handshake: an index nobody has seen.
LEMMA InitiatedSound ==
    ASSUME NEW D, NEW N, NEW L, Sound(D, N, L), NEW d \in Device,
           NEW t \in Peers, t.kp = D[d].kp,
           NEW K \in 0 .. MaxIndex,
           (t.hs = L + 1 /\ K = L + 1) \/ (t.hs = Unheard /\ K = L),
           NEW M \in SUBSET [type : {"init"}, from : Device, i : Index],
           \A m \in M : m.i <= K
    PROVE  Sound([D EXCEPT ![d] = t], N \cup M, K)
<1> DEFINE E == [D EXCEPT ![d] = t]
<1>1. /\ D \in [Device -> Peers] /\ N \subseteq Messages /\ L \in 0 .. MaxIndex
      /\ Indexed(D, N, L) /\ Untouched(D, N, L) /\ OneEnd(D)
      /\ NoncesUsed(D, N) /\ OnceShown(D, N)
      /\ \A e \in Device : Pending(D[e], L) /\ InSequence(D[e]) /\ SlotsConfirmed(D[e])
  BY DEF Sound
<1>2. E \in [Device -> Peers] /\ E[d] = t /\ (\A e \in Device : e # d => E[e] = D[e])
  BY <1>1
<1> HIDE DEF E
<1>3. \A e \in Device : E[e].kp = D[e].kp
  BY <1>2
<1>4. /\ L \in Int /\ K \in Int /\ MaxIndex \in Int /\ L <= K /\ L < t.hs
      /\ t.hs = K \/ t.hs = MaxIndex + 1
      /\ \A e \in Device : D[e].hs \in Int
      /\ \A e \in Device, x \in Slots : D[e].kp[x].key.r \in Int /\ D[e].kp[x].key.i \in Int
  <2>1. L \in Int /\ K \in Int /\ MaxIndex \in Int /\ L <= K /\ L < t.hs
        /\ (t.hs = K \/ t.hs = MaxIndex + 1)
    BY <1>1, BoundAssumption DEF Unheard
  <2>2. /\ \A e \in Device : D[e].hs \in Int
        /\ \A e \in Device, x \in Slots : D[e].kp[x].key.r \in Int /\ D[e].kp[x].key.i \in Int
    BY <1>1 DEF Peers, Keypairs, Keys
  <2>. QED
    BY <2>1, <2>2
<1>5. \A m \in M : ~IsData(m) /\ m \in Messages /\ m.type = "init"
  BY DEF IsData, Messages
<1>6. Indexed(E, N \cup M, K)
  <2>1. \A j : Drawn(j, L) /\ j.i \in Int /\ j.r \in Int => Drawn(j, K)
    BY <1>4 DEF Drawn
  <2>2. ASSUME NEW e \in Device, NEW x \in Slots, D[e].kp[x].valid
        PROVE  Drawn(D[e].kp[x].key, K)
    BY <1>1, <1>4, <2>1, <2>2 DEF Indexed
  <2>3. ASSUME NEW m \in N, m.type # "init" PROVE Drawn(m.key, K)
    <3>1. m.key \in Keys
      BY <1>1, <2>3 DEF Messages, Packets
    <3>2. m.key.i \in Int /\ m.key.r \in Int
      BY <3>1 DEF Keys
    <3>. QED
      BY <1>1, <2>1, <2>3, <3>2 DEF Indexed
  <2>4. ASSUME NEW m \in N, m.type = "init" PROVE m.i <= K
    <3>1. m.i \in Int
      BY <1>1, <2>4 DEF Messages, Packets, Index
    <3>. QED
      BY <1>1, <1>4, <2>4, <3>1 DEF Indexed
  <2>. QED
    BY <1>1, <1>3, <1>5, <2>2, <2>3, <2>4 DEF Indexed
<1>7. ASSUME NEW e \in Device
      PROVE  InSequence(E[e]) /\ Pending(E[e], K) /\ SlotsConfirmed(E[e])
  <2>1. InSequence(E[e]) /\ SlotsConfirmed(E[e])
    BY <1>1, <1>3 DEF InSequence, Older, SlotsConfirmed
  <2>2. CASE e # d
    BY <1>1, <1>2, <1>4, <2>1, <2>2 DEF Pending
  <2>3. CASE e = d
    <3>1. \A x \in Slots : D[d].kp[x].valid => D[d].kp[x].key.r <= L
      BY <1>1 DEF Indexed, Drawn
    <3>2. \A x \in Slots : t.kp[x].valid => t.kp[x].key.r < t.hs
      BY <1>4, <3>1
    <3>3. t.hs <= K \/ t.hs = Unheard
      BY <1>4 DEF Unheard
    <3>. QED
      BY <1>2, <2>1, <2>3, <3>2, <3>3 DEF Pending
  <2>. QED
    BY <2>2, <2>3
<1>8. Untouched(E, N \cup M, K)
  <2>1. ASSUME NEW a \in Device, NEW b \in Device, a # b, E[a].hs # 0, E[a].hs <= K,
               E[a].hs = E[b].hs
        PROVE  FALSE
    <3>1. ASSUME NEW e \in Device, e # d, E[e].hs # 0, E[e].hs <= K
          PROVE  E[e].hs = D[e].hs /\ E[e].hs <= L
      <4>1. E[e].hs = D[e].hs
        BY <1>2, <3>1
      <4>2. D[e].hs <= L \/ D[e].hs = MaxIndex + 1
        BY <1>1, <3>1, <4>1 DEF Pending, Unheard
      <4>3. K <= MaxIndex
        OBVIOUS
      <4>. QED
        BY <1>4, <3>1, <4>1, <4>2, <4>3
    <3>2. CASE a # d /\ b # d
      BY <1>1, <2>1, <3>1, <3>2 DEF Untouched
    <3>3. CASE a = d \/ b = d
      <4>1. E[d].hs <= L
        BY <2>1, <3>1, <3>3
      <4>. QED
        BY <1>2, <1>4, <4>1
    <3>. QED
      BY <3>2, <3>3
  <2>2. ASSUME NEW key, Drawn(key, L), key.i \in Int, key.r \in Int PROVE key.i # t.hs
    BY <1>4, <2>2 DEF Drawn
  <2>3. ASSUME NEW a \in Device, NEW b \in Device, NEW x \in Slots,
               D[b].kp[x].valid, D[b].kp[x].init
        PROVE  D[b].kp[x].key.i # E[a].hs
    <3>1. Drawn(D[b].kp[x].key, L) /\ D[b].kp[x].key.i # D[a].hs
      BY <1>1, <2>3 DEF Indexed, Untouched
    <3>2. D[b].kp[x].key.i # t.hs
      BY <1>4, <2>2, <3>1
    <3>. QED
      BY <1>2, <3>1, <3>2
  <2>4. ASSUME NEW a \in Device, NEW m \in N, IsData(m), m.init
        PROVE  m.key.i # E[a].hs
    <3>1. Drawn(m.key, L) /\ m.key.i # D[a].hs
      BY <1>1, <2>4 DEF Indexed, Untouched, IsData
    <3>2. m.key \in Keys
      BY <1>1, <2>4, DataShape
    <3>3. m.key.i \in Int /\ m.key.r \in Int
      BY <3>2 DEF Keys
    <3>4. m.key.i # t.hs
      BY <2>2, <3>1, <3>3
    <3>. QED
      BY <1>2, <3>1, <3>4
  <2>. QED
    BY <1>3, <1>5, <2>1, <2>3, <2>4 DEF Untouched
<1>9. OneEnd(E) /\ NoncesUsed(E, N \cup M)
  BY <1>1, <1>3, <1>5 DEF OneEnd, NoncesUsed
<1>10. OnceShown(E, N \cup M)
  BY <1>1, <1>3, <1>5 DEF OnceShown, Shown
<1>11. N \cup M \subseteq Messages
  BY <1>1, <1>5
<1>12. Sound(E, N \cup M, K)
  BY <1>2, <1>6, <1>7, <1>8, <1>9, <1>10, <1>11 DEF Sound
<1>. QED
  BY <1>12 DEF E

-----------------------------------------------------------------------------
(* The actions: each is one or more of the steps above, at one device.     *)

LEMMA WrittenTwice ==
    ASSUME NEW D \in [Device -> Peers], NEW d \in Device, NEW a, NEW b
    PROVE  /\ [D EXCEPT ![d] = a][d] = a
           /\ [[D EXCEPT ![d] = a] EXCEPT ![d] = b] = [D EXCEPT ![d] = b]
OBVIOUS

LEMMA SoundTyped ==
    ASSUME NEW D, NEW N, NEW L, Sound(D, N, L)
    PROVE  D \in [Device -> Peers] /\ N \subseteq Messages /\ L \in 0 .. MaxIndex
BY DEF Sound

LEMMA SendDataSound ==
    ASSUME SessionInv, NEW d \in Device, NEW outcome, SendData(d, outcome)
    PROVE  Sound(dev', net', lastIndex')
<1>1. Sound(dev, net, lastIndex)
  BY DEF SessionInv
<1>2. /\ dev' = [dev EXCEPT ![d] = Output(dev[d], outcome)]
      /\ net' = net \cup OutputSent(dev[d], TRUE, outcome) /\ lastIndex' = lastIndex
  BY DEF SendData
<1>. QED
  BY <1>1, <1>2, OutputSound

LEMMA ReceiveInitiationSound ==
    ASSUME SessionInv, NEW d \in Device, NEW m \in net, ReceiveInitiation(d, m)
    PROVE  Sound(dev', net', lastIndex')
<1> DEFINE key == [i |-> m.i, r |-> lastIndex + 1]
           s == [dev[d] EXCEPT !.greatest = m.i]
<1>1. Sound(dev, net, lastIndex)
  BY DEF SessionInv
<1>2. dev \in [Device -> Peers] /\ net \subseteq Messages /\ lastIndex \in 0 .. MaxIndex
  BY <1>1, SoundTyped
<1>3. /\ m.type = "init" /\ lastIndex < MaxIndex /\ lastIndex' = lastIndex + 1
      /\ dev' = [dev EXCEPT ![d] = StartSession(s, key, FALSE)]
      /\ net' = net \cup {HandshakeResponse(key)}
  BY DEF ReceiveInitiation
<1>4. m.i \in 1 .. MaxIndex /\ m.i <= lastIndex
  <2>1. m.i \in Index
    BY <1>2, <1>3 DEF Messages, Packets
  <2>2. m.i <= lastIndex
    BY <1>1, <1>3 DEF Sound, Indexed
  <2>. QED
    BY <2>1, <2>2 DEF Index
<1>5. /\ key \in Keys /\ Drawn(key, lastIndex') /\ lastIndex' \in 0 .. MaxIndex
      /\ lastIndex <= lastIndex' /\ key.r = lastIndex + 1
  BY <1>2, <1>3, <1>4, BoundAssumption DEF Keys, Drawn, Unheard
<1>6. s \in Peers /\ s.kp = dev[d].kp
  <2>1. dev[d] \in Peers /\ m.i \in 0 .. MaxIndex
    BY <1>2, <1>4
  <2>. QED
    BY <2>1 DEF Peers
<1> HIDE DEF s, key
<1>7. /\ {HandshakeResponse(key)} \in SUBSET [type : {"resp"}, key : Keys]
      /\ \A r \in {HandshakeResponse(key)} : Drawn(r.key, lastIndex')
  BY <1>5 DEF HandshakeResponse
<1>8. Sound([dev EXCEPT ![d] = StartSession(s, key, FALSE)],
            net \cup {HandshakeResponse(key)}, lastIndex')
  <2>1. FALSE \in BOOLEAN
    OBVIOUS
  <2>. QED
    BY <1>1, <1>5, <1>6, <1>7, <2>1, StartSound
<1>. QED
  BY <1>3, <1>8

LEMMA ReceiveResponseSound ==
    ASSUME SessionInv, NEW d \in Device, NEW m \in net, NEW outcome,
           ReceiveResponse(d, m, outcome)
    PROVE  Sound(dev', net', lastIndex')
<1> DEFINE s == StartSession(dev[d], m.key, TRUE)
           t == Output(s, outcome)
           u == [t EXCEPT !.linkUp = TRUE]
           D1 == [dev EXCEPT ![d] = s]
           D2 == [dev EXCEPT ![d] = t]
           P == OutputSent(s, FALSE, outcome)
<1>1. Sound(dev, net, lastIndex)
  BY DEF SessionInv
<1>2. dev \in [Device -> Peers] /\ net \subseteq Messages /\ lastIndex \in 0 .. MaxIndex
  BY <1>1, SoundTyped
<1>3. /\ m.type = "resp" /\ m.key.i = dev[d].hs /\ lastIndex' = lastIndex
      /\ dev' = [dev EXCEPT ![d] = u] /\ net' = net \cup P
  BY DEF ReceiveResponse, AnswersHandshake
<1>4. m.key \in Keys /\ Drawn(m.key, lastIndex)
  <2>1. m.key \in Keys
    BY <1>2, <1>3 DEF Messages, Packets
  <2>2. Drawn(m.key, lastIndex)
    BY <1>1, <1>3 DEF Sound, Indexed
  <2>. QED
    BY <2>1, <2>2
<1>5. dev[d] \in Peers
  BY <1>2
<1>6. s \in Peers /\ D1[d] = s
  BY <1>2, <1>4, <1>5, StartEffect
<1>7. t \in Peers
  BY <1>6, OutputEffect
<1>8. u \in Peers /\ u.kp = t.kp /\ u.hs = t.hs
  BY <1>7, LinkAndWantsWritten
<1>9. Sound(D1, net, lastIndex)
  <2>1. /\ {} \in SUBSET [type : {"resp"}, key : Keys] /\ TRUE \in BOOLEAN
        /\ net \cup {} = net /\ lastIndex <= lastIndex
        /\ \A r \in {} : Drawn(r.key, lastIndex)
    BY <1>2
  <2>2. Sound([dev EXCEPT ![d] = StartSession(dev[d], m.key, TRUE)], net \cup {}, lastIndex)
    BY <1>1, <1>2, <1>3, <1>4, <1>5, <2>1, StartSound
  <2>. QED
    BY <2>1, <2>2
<1>10. [D1 EXCEPT ![d] = t] = D2 /\ [D2 EXCEPT ![d] = u] = [dev EXCEPT ![d] = u]
       /\ D2[d] = t
  BY <1>2, WrittenTwice
<1> HIDE DEF D1, D2, s, t
<1>11. Sound(D2, net \cup P, lastIndex)
  <2>1. Sound([D1 EXCEPT ![d] = Output(D1[d], outcome)],
              net \cup OutputSent(D1[d], FALSE, outcome), lastIndex)
    BY <1>9, OutputSound
  <2>. QED
    BY <1>6, <1>10, <2>1 DEF t
<1> HIDE DEF u, P
<1>12. Kept(t, u)
  <2>1. \A x \in Slots : t.kp[x].sent \in Int
    BY <1>7 DEF Peers, Keypairs
  <2>. QED
    BY <1>8, <2>1 DEF Kept
<1>13. Sound([D2 EXCEPT ![d] = u], net \cup P, lastIndex)
  BY <1>8, <1>10, <1>11, <1>12, KeptSound
<1>. QED
  BY <1>3, <1>10, <1>13

LEMMA ReceiveDataSound ==
    ASSUME SessionInv, NEW d \in Device, NEW m \in net, ReceiveData(d, m)
    PROVE  Sound(dev', net', lastIndex')
<1> DEFINE s == dev[d]
           slot == SlotFor(s, Receiver(m))
           t == Authenticated(s, slot)
           passes == m.payload /\ Accepts(t.kp[slot].win, SeqOf(m.nonce))
           w == Marked(t.kp[slot].win, SeqOf(m.nonce))
           v == [t EXCEPT !.kp[slot].win = w]
           u == IF passes THEN v ELSE t
<1>1. Sound(dev, net, lastIndex)
  BY DEF SessionInv
<1>2. dev \in [Device -> Peers] /\ net \subseteq Messages /\ s \in Peers
  BY <1>1, SoundTyped
<1>3. /\ IsData(m) /\ Holds(s.kp[slot], Receiver(m)) /\ m.key = s.kp[slot].key
      /\ dev' = [dev EXCEPT ![d] = u] /\ net' = net /\ lastIndex' = lastIndex
  BY DEF ReceiveData, IsData
<1>4. slot \in Slots
  BY DEF SlotFor, Slots
<1>5. t \in Peers
  BY <1>2, <1>4, AuthenticatedEffect
<1>6. SeqOf(m.nonce) \in 0 .. RejectMessages
  <2>1. m.nonce \in 0 .. RejectMessages
    BY <1>2, <1>3, DataShape
  <2>2. m.nonce < RejectMessages
    BY <1>1, <1>3 DEF Sound, Indexed
  <2>. QED
    BY <2>1, <2>2, SeqTyped
<1> HIDE DEF t, slot
<1>7. t.kp[slot].win \in Windows
  BY <1>4, <1>5 DEF Peers, Keypairs
<1>8. passes => w \in Windows
  BY <1>6, <1>7, MarkedTyped
<1> HIDE DEF w
<1>9. passes =>
        /\ v \in Peers /\ v.hs = t.hs
        /\ \A x \in Slots :
              /\ v.kp[x].valid = t.kp[x].valid /\ v.kp[x].key = t.kp[x].key
              /\ v.kp[x].init = t.kp[x].init /\ v.kp[x].sent = t.kp[x].sent
              /\ v.kp[x].confirmed = t.kp[x].confirmed
  BY <1>4, <1>5, <1>8, WindowWritten
<1> HIDE DEF v, passes
<1>10. /\ u \in Peers /\ u.hs = t.hs
       /\ \A x \in Slots :
             /\ u.kp[x].valid = t.kp[x].valid /\ u.kp[x].key = t.kp[x].key
             /\ u.kp[x].init = t.kp[x].init /\ u.kp[x].sent = t.kp[x].sent
             /\ u.kp[x].confirmed = t.kp[x].confirmed
  BY <1>5, <1>9
<1> HIDE DEF u
<1>11. Sound([dev EXCEPT ![d] = u], net, lastIndex)
  BY <1>1, <1>3, <1>4, <1>10, ReceivedSound DEF t
<1>. QED
  BY <1>3, <1>11

LEMMA ReceiveDataTooLateSound ==
    ASSUME SessionInv, NEW d \in Device, NEW m \in net, ReceiveDataTooLate(d, m)
    PROVE  Sound(dev', net', lastIndex')
<1> DEFINE slots == {SlotFor(dev[d], Receiver(m))}
<1>1. Sound(dev, net, lastIndex)
  BY DEF SessionInv
<1>2. dev[d] \in Peers
  BY <1>1, SoundTyped
<1>3. dev' = [dev EXCEPT ![d] = Destroy(dev[d], slots)] /\ net' = net
      /\ lastIndex' = lastIndex
  BY DEF ReceiveDataTooLate
<1> HIDE DEF slots
<1>4. Destroy(dev[d], slots) \in Peers /\ Kept(dev[d], Destroy(dev[d], slots))
  BY <1>2, DestroyEffect
<1>. QED
  BY <1>1, <1>3, <1>4, KeptSound

\* A peer without a session or a handshake.
LEMMA EmptySound ==
    ASSUME NEW D, NEW N, NEW L, Sound(D, N, L), NEW d \in Device, NEW u \in Peers,
           u.hs = 0, \A x \in Slots : ~u.kp[x].valid
    PROVE  Sound([D EXCEPT ![d] = u], N, L)
<1>1. From(D[d], u)
  BY DEF From
<1>2. InSequence(u) /\ SlotsConfirmed(u)
  BY DEF InSequence, Older, SlotsConfirmed, Slots
<1>3. \A x \in Slots : ~Confirmed(u.kp[x])
  BY DEF Confirmed
<1>. QED
  BY <1>1, <1>2, <1>3, OneDeviceSound

LEMMA ConnectSound ==
    ASSUME SessionInv, NEW d \in Device, Connect(d)
    PROVE  Sound(dev', net', lastIndex')
<1> DEFINE u == IF d \in Active THEN Activated(AddedPeer) ELSE AddedPeer
<1>1. Sound(dev, net, lastIndex)
  BY DEF SessionInv
<1>2. dev' = [dev EXCEPT ![d] = u] /\ net' = net /\ lastIndex' = lastIndex
  BY DEF Connect
<1>3. AddedPeer \in Peers /\ AddedPeer.hs = 0 /\ \A x \in Slots : ~AddedPeer.kp[x].valid
  BY BlankEffect DEF AddedPeer
<1>4. u \in Peers /\ u.hs = 0 /\ \A x \in Slots : ~u.kp[x].valid
  BY <1>3, ActivatedEffect
<1> HIDE DEF u
<1>. QED
  BY <1>1, <1>2, <1>4, EmptySound

LEMMA DisconnectSound ==
    ASSUME SessionInv, NEW d \in Device, Disconnect(d)
    PROVE  Sound(dev', net', lastIndex')
<1>1. Sound(dev, net, lastIndex)
  BY DEF SessionInv
<1>2. dev' = [dev EXCEPT ![d] = BlankPeer("none")] /\ net' = net /\ lastIndex' = lastIndex
  BY DEF Disconnect
<1>3. /\ BlankPeer("none") \in Peers /\ BlankPeer("none").hs = 0
      /\ \A x \in Slots : ~BlankPeer("none").kp[x].valid
  BY BlankEffect
<1>. QED
  BY <1>1, <1>2, <1>3, EmptySound

LEMMA TickSound ==
    ASSUME SessionInv, Tick
    PROVE  Sound(dev', net', lastIndex')
<1>1. Sound(dev, net, lastIndex)
  BY DEF SessionInv
<1>2. dev \in [Device -> Peers]
  BY <1>1, SoundTyped
<1>3. /\ net' = net /\ lastIndex' = lastIndex
      /\ dev' = [d \in Device |-> IF dev[d].status = "none" THEN dev[d] ELSE Aged(dev[d])]
  BY DEF Tick
<1>4. ASSUME NEW d \in Device PROVE dev'[d] \in Peers /\ Kept(dev[d], dev'[d])
  <2>1. dev[d] \in Peers
    BY <1>2
  <2>2. Aged(dev[d]) \in Peers /\ Kept(dev[d], Aged(dev[d]))
    BY <2>1, AgedEffect
  <2>3. Kept(dev[d], dev[d])
    BY <2>1 DEF Kept, Peers, Keypairs
  <2>. QED
    BY <1>3, <2>1, <2>2, <2>3
<1>5. dev' \in [Device -> Peers]
  BY <1>3, <1>4
<1>. QED
  BY <1>1, <1>3, <1>4, <1>5, KeptAllSound

\* The sweep, the keep-alive, the handshake, the link: four steps in one.
LEMMA TimerSound ==
    ASSUME SessionInv, NEW d \in Device, NEW outcome, NEW sent \in BOOLEAN,
           Timer(d, outcome, sent)
    PROVE  Sound(dev', net', lastIndex')
<1> DEFINE s == Swept(dev[d])
           keepalive == ShouldKeepalive(s)
           t == IF keepalive THEN Output(s, outcome) ELSE s
           initiates == ShouldInitiate(t)
           heard == initiates /\ sent /\ NextIndex # Unheard
           u == IF initiates THEN Initiated(t, NextIndex, sent) ELSE t
           v == LinkChecked(u)
           P == IF keepalive THEN OutputSent(s, FALSE, outcome) ELSE {}
           M == IF heard THEN {HandshakeInitiation(d, NextIndex)} ELSE {}
           K == IF initiates /\ NextIndex # Unheard THEN NextIndex ELSE lastIndex
           D1 == [dev EXCEPT ![d] = s]
           D2 == [dev EXCEPT ![d] = t]
           D3 == [dev EXCEPT ![d] = u]
<1>1. Sound(dev, net, lastIndex)
  BY DEF SessionInv
<1>2. dev \in [Device -> Peers] /\ dev[d] \in Peers /\ lastIndex \in 0 .. MaxIndex
  BY <1>1, SoundTyped
<1>3. /\ dev' = [dev EXCEPT ![d] = v] /\ net' = net \cup P \cup M /\ lastIndex' = K
  BY DEF Timer
<1>4. s \in Peers /\ Kept(dev[d], s)
  BY <1>2, SweptEffect
<1>5. t \in Peers
  BY <1>4, OutputEffect
<1>6. /\ D1[d] = s /\ D2[d] = t /\ D3[d] = u /\ [D1 EXCEPT ![d] = t] = D2
      /\ [D2 EXCEPT ![d] = u] = D3 /\ [D3 EXCEPT ![d] = v] = [dev EXCEPT ![d] = v]
      /\ [D1 EXCEPT ![d] = s] = D1 /\ [D2 EXCEPT ![d] = t] = D2
  BY <1>2, WrittenTwice, Zenon
<1> HIDE DEF D1, D2, D3, s
<1>7. Sound(D1, net, lastIndex)
  BY <1>1, <1>4, KeptSound DEF D1
<1>8. Sound(D2, net \cup P, lastIndex)
  <2>1. CASE keepalive
    <3>1. Sound([D1 EXCEPT ![d] = Output(D1[d], outcome)],
                net \cup OutputSent(D1[d], FALSE, outcome), lastIndex)
      BY <1>7, OutputSound
    <3>2. t = Output(D1[d], outcome) /\ P = OutputSent(D1[d], FALSE, outcome)
      BY <1>6, <2>1
    <3> HIDE DEF t, P
    <3>. QED
      BY <1>6, <3>1, <3>2
  <2>2. CASE ~keepalive
    <3>1. D2 = D1 /\ net \cup P = net
      BY <1>6, <2>2
    <3>. QED
      BY <1>7, <3>1
  <2>. QED
    BY <2>1, <2>2
<1> HIDE DEF t, P, keepalive
<1>9. /\ NextIndex \in 0 .. Unheard /\ (NextIndex = Unheard <=> ~(lastIndex < MaxIndex))
      /\ NextIndex # Unheard => NextIndex = lastIndex + 1 /\ NextIndex \in 1 .. MaxIndex
  BY <1>2, BoundAssumption DEF NextIndex, Unheard
<1> HIDE DEF initiates
<1>10. /\ u \in Peers /\ u.kp = t.kp
       /\ initiates => u.hs = NextIndex
       /\ ~initiates => u = t
  BY <1>5, <1>9, InitiatedEffect
<1> HIDE DEF u
<1>11. Sound(D3, net \cup P \cup M, K)
  <2>1. CASE initiates
    <3>1. K \in 0 .. MaxIndex
      BY <1>2, <1>9
    <3>2. (u.hs = lastIndex + 1 /\ K = lastIndex + 1) \/ (u.hs = Unheard /\ K = lastIndex)
      BY <1>9, <1>10, <2>1
    <3>3. M \in SUBSET [type : {"init"}, from : Device, i : Index] /\ \A m \in M : m.i <= K
      <4>1. CASE heard
        <5>1. K = NextIndex /\ NextIndex \in Index /\ M = {HandshakeInitiation(d, NextIndex)}
          BY <1>9, <4>1 DEF Index
        <5>. QED
          BY <1>9, <5>1 DEF HandshakeInitiation
      <4>2. CASE ~heard
        BY <4>2
      <4>. QED
        BY <4>1, <4>2
    <3> HIDE DEF K, M
    <3>4. u.kp = D2[d].kp
      BY <1>6, <1>10
    <3>5. Sound([D2 EXCEPT ![d] = u], (net \cup P) \cup M, K)
      BY <1>8, <1>10, <3>1, <3>2, <3>3, <3>4, InitiatedSound
    <3>. QED
      BY <1>6, <3>5
  <2>2. CASE ~initiates
    <3>1. u = t /\ K = lastIndex /\ net \cup P \cup M = net \cup P
      BY <1>10, <2>2
    <3>2. D3 = D2
      BY <3>1 DEF D2, D3
    <3>. QED
      BY <1>8, <3>1, <3>2
  <2>. QED
    BY <2>1, <2>2
<1>12. v \in Peers /\ Kept(u, v)
  <2>1. v \in Peers /\ v.kp = u.kp /\ v.hs = u.hs
    BY <1>10, LinkCheckedEffect
  <2>2. \A x \in Slots : u.kp[x].sent \in Int
    BY <1>10 DEF Peers, Keypairs
  <2>. QED
    BY <2>1, <2>2 DEF Kept
<1> HIDE DEF v, K, M
<1>13. Sound([D3 EXCEPT ![d] = v], net \cup P \cup M, K)
  BY <1>6, <1>11, <1>12, KeptSound
<1>. QED
  BY <1>3, <1>6, <1>13

LEMMA RestTyped ==
    ASSUME SessionInv, [Next]_vars
    PROVE  due' \subseteq Device /\ repeated' \in BOOLEAN
<1>1. due \subseteq Device /\ repeated \in BOOLEAN
  BY DEF SessionInv, TypeOK
<1>2. ASSUME NEW d \in Device, NEW outcome \in Outcomes, SendData(d, outcome)
      PROVE  due' = due /\ repeated' = repeated
  BY <1>2 DEF SendData, history
<1>3. ASSUME NEW d \in Device, NEW outcome \in Outcomes, NEW sent \in BOOLEAN,
             Timer(d, outcome, sent)
      PROVE  due' = due \ {d} /\ repeated' = repeated
  BY <1>3 DEF Timer, history
<1>4. ASSUME NEW d \in Device, NEW m \in net, Receive(d, m)
      PROVE  due' = due /\ repeated' \in BOOLEAN
  <2>1. CASE ReceiveInitiation(d, m)
    BY <1>1, <2>1 DEF ReceiveInitiation, history
  <2>2. ASSUME NEW outcome \in Outcomes, ReceiveResponse(d, m, outcome)
        PROVE  due' = due /\ repeated' \in BOOLEAN
    BY <1>1, <2>2 DEF ReceiveResponse, history
  <2>3. CASE ReceiveData(d, m)
    <3> DEFINE slot == SlotFor(dev[d], Receiver(m))
               again == (m.payload
                         /\ Accepts(Authenticated(dev[d], slot).kp[slot].win, SeqOf(m.nonce)))
                        /\ <<m, slot = "next">> \in delivered
    <3>1. due' = due /\ repeated' = (repeated \/ again)
      BY <2>3 DEF ReceiveData
    <3> HIDE DEF again
    <3>. QED
      BY <3>1, Zenon
  <2>4. CASE ReceiveDataTooLate(d, m)
    BY <1>1, <2>4 DEF ReceiveDataTooLate, history
  <2>. QED
    BY <1>4, <2>1, <2>2, <2>3, <2>4 DEF Receive
<1>5. ASSUME NEW d \in Device, Connect(d) \/ Disconnect(d)
      PROVE  due' \subseteq due /\ repeated' = repeated
  BY <1>5 DEF Connect, Disconnect, history
<1>6. CASE Tick
  BY <1>1, <1>6 DEF Tick, history
<1>7. CASE UNCHANGED vars
  BY <1>1, <1>7 DEF vars, history
<1>. QED
  BY <1>1, <1>2, <1>3, <1>4, <1>5, <1>6, <1>7 DEF Next

LEMMA NextSound ==
    ASSUME SessionInv, [Next]_vars
    PROVE  Sound(dev', net', lastIndex')
<1>1. CASE Next
  <2>1. ASSUME NEW d \in Device, NEW m \in net, Receive(d, m)
        PROVE  Sound(dev', net', lastIndex')
    BY <2>1, ReceiveInitiationSound, ReceiveResponseSound, ReceiveDataSound,
       ReceiveDataTooLateSound DEF Receive
  <2>. QED
    BY <1>1, <2>1, SendDataSound, TimerSound, ConnectSound, DisconnectSound, TickSound
       DEF Next
<1>2. CASE UNCHANGED vars
  BY <1>2 DEF vars, SessionInv
<1>. QED
  BY <1>1, <1>2

LEMMA InitSound == Init => SessionInv
<1>1. SUFFICES ASSUME Init PROVE SessionInv
  OBVIOUS
<1>2. dev = [d \in Device |-> BlankPeer("none")] /\ due = {} /\ net = {} /\ lastIndex = 0
      /\ repeated = FALSE
  BY <1>1 DEF Init
<1>3. \A d \in Device : /\ dev[d] \in Peers /\ dev[d].hs = 0
                        /\ \A x \in Slots : ~dev[d].kp[x].valid
  BY <1>2, BlankEffect
<1>4. dev \in [Device -> Peers] /\ 0 \in 0 .. MaxIndex
  <2>1. BlankPeer("none") \in Peers
    BY BlankEffect
  <2>. QED
    BY <1>2, <2>1, BoundAssumption
<1>5. Slots = {"curr", "next", "prev"}
  BY DEF Slots
<1>6. Indexed(dev, net, lastIndex) /\ Untouched(dev, net, lastIndex) /\ OneEnd(dev)
      /\ NoncesUsed(dev, net) /\ OnceShown(dev, net)
  BY <1>2, <1>3 DEF Indexed, Untouched, OneEnd, NoncesUsed, OnceShown, Confirmed
<1>7. \A d \in Device : InSequence(dev[d]) /\ Pending(dev[d], lastIndex)
                        /\ SlotsConfirmed(dev[d])
  BY <1>3, <1>5 DEF InSequence, Older, Pending, SlotsConfirmed
<1>8. Sound(dev, net, lastIndex)
  BY <1>2, <1>4, <1>6, <1>7 DEF Sound
<1>. QED
  BY <1>2, <1>4, <1>8 DEF SessionInv, TypeOK

-----------------------------------------------------------------------------
(* The theorems.                                                           *)

\* The invariant holds: no slot, handshake or packet of any session is out of
\* step with the others, whatever the network loses, repeats and reorders.
THEOREM SessionInvariant == Spec => []SessionInv
<1>1. SessionInv /\ [Next]_vars => SessionInv'
  <2>1. SUFFICES ASSUME SessionInv, [Next]_vars PROVE SessionInv'
    OBVIOUS
  <2>2. Sound(dev', net', lastIndex')
    BY <2>1, NextSound
  <2>3. due' \subseteq Device /\ repeated' \in BOOLEAN
    BY <2>1, RestTyped
  <2>4. dev' \in [Device -> Peers] /\ net' \subseteq Messages /\ lastIndex' \in 0 .. MaxIndex
    BY <2>2, SoundTyped
  <2>. QED
    BY <2>2, <2>3, <2>4 DEF SessionInv, TypeOK
<1>. QED
  BY InitSound, <1>1, PTL DEF Spec

\* All values stay in their sets: no counter passes its limit, no window its
\* bitmap (wireguardif.c, wireguard.c).
THEOREM SessionTypes == Spec => []TypeOK
<1>1. SessionInv => TypeOK
  BY DEF SessionInv
<1>. QED
  BY <1>1, SessionInvariant, PTL

\* What is in curr is confirmed, and what waits in next is not: so the choice at
\* the head of wireguardif_output_to_peer always falls on curr.
THEOREM CurrentConfirmed == Spec => []CurrentIsConfirmed
<1>1. SessionInv => CurrentIsConfirmed
  BY DEF SessionInv, Sound, SlotsConfirmed, CurrentIsConfirmed
<1>. QED
  BY <1>1, SessionInvariant, PTL

\* No session is in two slots of a peer (add_new_keypair, keypair_update).
THEOREM SlotsDistinct == Spec => []SlotsAreDistinct
<1>1. ASSUME SessionInv PROVE SlotsAreDistinct
  <2>1. \A d \in Device : InSequence(dev[d]) /\ dev[d] \in Peers
    BY <1>1 DEF SessionInv, Sound
  <2>2. ASSUME NEW d \in Device, NEW x \in Slots, NEW y \in Slots,
               dev[d].kp[x].valid, dev[d].kp[y].valid, dev[d].kp[x].key = dev[d].kp[y].key
        PROVE  x = y
    <3>1. dev[d].kp[x].key.r \in Int /\ dev[d].kp[y].key.r = dev[d].kp[x].key.r
      BY <2>1, <2>2 DEF Peers, Keypairs, Keys
    <3>2. \A a, b \in Slots : a = b \/ Older(dev[d], a, b) \/ Older(dev[d], b, a)
      BY <2>1 DEF InSequence, Slots
    <3>. QED
      BY <2>2, <3>1, <3>2 DEF Older
  <2>. QED
    BY <2>2 DEF SlotsAreDistinct
<1>. QED
  BY <1>1, SessionInvariant, PTL

\* No nonce is used twice under one sending key (wireguard_encrypt_packet).
THEOREM NoncesOnce == Spec => []NonceUsedOnce
<1>1. SessionInv => NonceUsedOnce
  BY DEF SessionInv, Sound, NoncesUsed, NonceUsedOnce, IsData
<1>. QED
  BY <1>1, SessionInvariant, PTL

\* A responder sends nothing under a session before its initiator has
\* (keypair_update, the head of wireguardif_output_to_peer).
THEOREM ResponderSecond == Spec => []ResponderWaits
<1>1. SessionInv => ResponderWaits
  BY DEF SessionInv, Sound, OnceShown, Shown, ResponderWaits, IsData
<1>. QED
  BY <1>1, SessionInvariant, PTL

-----------------------------------------------------------------------------
(* No way back: the index of the current session only grows.               *)

NotOlder(s, t) ==
    s.kp["curr"].valid /\ t.kp["curr"].valid => s.kp["curr"].key.r <= t.kp["curr"].key.r

LEMMA KeptNotOlder ==
    ASSUME NEW s \in Peers, NEW t, Kept(s, t)
    PROVE  NotOlder(s, t)
<1>1. "curr" \in Slots
  BY DEF Slots
<1>2. s.kp["curr"].key.r \in Int
  BY <1>1 DEF Peers, Keypairs, Keys
<1>. QED
  BY <1>1, <1>2 DEF Kept, NotOlder

LEMMA ReceiveInitiationOnward ==
    ASSUME SessionInv, NEW d \in Device, NEW m \in net, ReceiveInitiation(d, m)
    PROVE  \E u : dev' = [dev EXCEPT ![d] = u] /\ NotOlder(dev[d], u)
<1> DEFINE key == [i |-> m.i, r |-> lastIndex + 1]
           s == [dev[d] EXCEPT !.greatest = m.i]
           u == StartSession(s, key, FALSE)
<1>1. /\ dev \in [Device -> Peers] /\ net \subseteq Messages /\ lastIndex \in 0 .. MaxIndex
  BY SoundTyped DEF SessionInv
<1>2. m.type = "init" /\ lastIndex < MaxIndex /\ dev' = [dev EXCEPT ![d] = u]
  BY DEF ReceiveInitiation
<1>3. m.i \in 1 .. MaxIndex
  BY <1>1, <1>2 DEF Messages, Packets, Index
<1>4. s \in Peers /\ s.kp = dev[d].kp
  <2>1. dev[d] \in Peers /\ m.i \in 0 .. MaxIndex
    BY <1>1, <1>3
  <2>. QED
    BY <2>1 DEF Peers
<1>5. key \in Keys
  BY <1>1, <1>2, <1>3, BoundAssumption DEF Keys, Unheard
<1> HIDE DEF s, key
<1>6. u.kp["curr"] = dev[d].kp["curr"]
  <2>1. FALSE \in BOOLEAN
    OBVIOUS
  <2>2. u.kp["curr"] = s.kp["curr"]
    BY <1>4, <1>5, <2>1, StartEffect
  <2>. QED
    BY <1>4, <2>2
<1>7. dev[d].kp["curr"].key.r \in Int
  BY <1>1 DEF Peers, Keypairs, Keys, Slots
<1> HIDE DEF u
<1>8. NotOlder(dev[d], u)
  BY <1>6, <1>7 DEF NotOlder
<1>. QED
  BY <1>2, <1>8

\* The response answers a handshake younger than all sessions held.
LEMMA ReceiveResponseOnward ==
    ASSUME SessionInv, NEW d \in Device, NEW m \in net, NEW outcome,
           ReceiveResponse(d, m, outcome)
    PROVE  \E u : dev' = [dev EXCEPT ![d] = u] /\ NotOlder(dev[d], u)
<1> DEFINE s == StartSession(dev[d], m.key, TRUE)
           t == Output(s, outcome)
           u == [t EXCEPT !.linkUp = TRUE]
<1>1. /\ dev \in [Device -> Peers] /\ net \subseteq Messages /\ lastIndex \in 0 .. MaxIndex
      /\ Sound(dev, net, lastIndex)
  BY SoundTyped DEF SessionInv
<1>2. /\ m.type = "resp" /\ dev[d].hs # 0 /\ m.key.i = dev[d].hs
      /\ dev' = [dev EXCEPT ![d] = u]
  BY DEF ReceiveResponse, AnswersHandshake
<1>3. m.key \in Keys /\ Drawn(m.key, lastIndex)
  <2>1. m.key \in Keys
    BY <1>1, <1>2 DEF Messages, Packets
  <2>2. Drawn(m.key, lastIndex)
    BY <1>1, <1>2 DEF Sound, Indexed
  <2>. QED
    BY <2>1, <2>2
<1>4. dev[d] \in Peers
  BY <1>1
<1>5. s \in Peers /\ s.kp["curr"].key = m.key
  <2>1. s \in Peers /\ s.kp["curr"] = NewKeypair(m.key, TRUE)
    BY <1>3, <1>4, StartEffect
  <2>2. NewKeypair(m.key, TRUE).key = m.key
    BY <1>3, NewKeypairShape
  <2>. QED
    BY <2>1, <2>2
<1> HIDE DEF s
<1>6. t \in Peers /\ Kept(s, t)
  BY <1>5, OutputEffect
<1> HIDE DEF t
<1>7. u.kp = t.kp
  BY <1>6, LinkAndWantsWritten
<1> HIDE DEF u
<1>8. u.kp["curr"].valid => u.kp["curr"].key = m.key
  BY <1>5, <1>6, <1>7 DEF Kept, Slots
<1>9. dev[d].kp["curr"].valid => dev[d].kp["curr"].key.r < dev[d].hs
  BY <1>1, <1>2 DEF Sound, Pending, Slots
<1>10. dev[d].kp["curr"].key.r \in Int /\ m.key.i \in Int /\ m.key.r \in Int
       /\ m.key.i < m.key.r
  <2>1. dev[d].kp["curr"].key.r \in Int
    BY <1>4 DEF Peers, Keypairs, Keys, Slots
  <2>. QED
    BY <1>3, <2>1 DEF Keys, Drawn
<1>11. NotOlder(dev[d], u)
  BY <1>2, <1>8, <1>9, <1>10 DEF NotOlder
<1>. QED
  BY <1>2, <1>11

\* A packet makes at most the session in next the current one.
LEMMA ReceiveDataOnward ==
    ASSUME SessionInv, NEW d \in Device, NEW m \in net, ReceiveData(d, m)
    PROVE  \E u : dev' = [dev EXCEPT ![d] = u] /\ NotOlder(dev[d], u)
<1> DEFINE s == dev[d]
           slot == SlotFor(s, Receiver(m))
           t == Authenticated(s, slot)
           c == [s.kp[slot] EXCEPT !.confirmed = TRUE]
           passes == m.payload /\ Accepts(t.kp[slot].win, SeqOf(m.nonce))
           w == Marked(t.kp[slot].win, SeqOf(m.nonce))
           v == [t EXCEPT !.kp[slot].win = w]
           u == IF passes THEN v ELSE t
<1>1. /\ dev \in [Device -> Peers] /\ s \in Peers /\ InSequence(s)
      /\ net \subseteq Messages /\ Sound(dev, net, lastIndex)
  BY SoundTyped DEF SessionInv, Sound
<1>2. IsData(m) /\ Holds(s.kp[slot], Receiver(m)) /\ dev' = [dev EXCEPT ![d] = u]
  BY DEF ReceiveData, IsData
<1>3. slot \in Slots /\ Slots = {"curr", "next", "prev"}
  BY DEF SlotFor, Slots
<1>4. /\ t \in Peers
      /\ slot # "next" => t.kp = [s.kp EXCEPT ![slot] = c]
      /\ slot = "next" => t.kp["curr"] = c
  BY <1>1, <1>3, AuthenticatedEffect
<1>5. s.kp \in [Slots -> Keypairs] /\ s.kp[slot].valid
  BY <1>1, <1>2 DEF Peers, Holds
<1>6. c.key = s.kp[slot].key
  BY <1>3, <1>5, ConfirmedWritten
<1>7. SeqOf(m.nonce) \in 0 .. RejectMessages
  <2>1. m.nonce \in 0 .. RejectMessages
    BY <1>1, <1>2, DataShape
  <2>2. m.nonce < RejectMessages
    BY <1>1, <1>2 DEF Sound, Indexed
  <2>. QED
    BY <2>1, <2>2, SeqTyped
<1> HIDE DEF t, slot, c
<1>8. t.kp["curr"].key = s.kp["curr"].key
      \/ (t.kp["curr"].key = s.kp["next"].key /\ s.kp["next"].valid)
  BY <1>3, <1>4, <1>5, <1>6
<1>9. u.kp["curr"].key = t.kp["curr"].key
  <2>1. CASE passes
    <3>1. t.kp[slot].win \in Windows
      BY <1>3, <1>4 DEF Peers, Keypairs
    <3>2. w \in Windows
      BY <1>7, <2>1, <3>1, MarkedTyped
    <3> HIDE DEF w
    <3>3. v.kp["curr"].key = t.kp["curr"].key
      BY <1>3, <1>4, <3>2, WindowWritten
    <3>. QED
      BY <2>1, <3>3
  <2>2. CASE ~passes
    BY <2>2
  <2>. QED
    BY <2>1, <2>2
<1>10. /\ s.kp["curr"].key.r \in Int /\ s.kp["next"].key.r \in Int
       /\ Older(s, "curr", "next")
  BY <1>1 DEF Peers, Keypairs, Keys, Slots, InSequence
<1> HIDE DEF u
<1>11. NotOlder(s, u)
  BY <1>8, <1>9, <1>10 DEF NotOlder, Older
<1>. QED
  BY <1>2, <1>11

LEMMA TimerOnward ==
    ASSUME SessionInv, NEW d \in Device, NEW outcome, NEW sent \in BOOLEAN,
           Timer(d, outcome, sent)
    PROVE  \E u : dev' = [dev EXCEPT ![d] = u] /\ NotOlder(dev[d], u)
<1> DEFINE s == Swept(dev[d])
           t == IF ShouldKeepalive(s) THEN Output(s, outcome) ELSE s
           u == IF ShouldInitiate(t) THEN Initiated(t, NextIndex, sent) ELSE t
           v == LinkChecked(u)
<1>1. dev[d] \in Peers /\ lastIndex \in 0 .. MaxIndex
  BY SoundTyped DEF SessionInv
<1>2. dev' = [dev EXCEPT ![d] = v]
  BY DEF Timer
<1>3. s \in Peers /\ Kept(dev[d], s)
  BY <1>1, SweptEffect
<1> HIDE DEF s
<1>4. t \in Peers /\ Kept(s, t)
  <2>1. Kept(s, s)
    BY <1>3 DEF Kept, Peers, Keypairs
  <2>. QED
    BY <1>3, <2>1, OutputEffect
<1> HIDE DEF t
<1>5. NextIndex \in 0 .. Unheard
  BY <1>1, BoundAssumption DEF NextIndex, Unheard
<1>6. u \in Peers /\ u.kp = t.kp
  BY <1>4, <1>5, InitiatedEffect
<1> HIDE DEF u
<1>7. v.kp = t.kp
  BY <1>6, LinkCheckedEffect
<1>8. Kept(dev[d], t)
  BY <1>1, <1>3, <1>4, KeptTransitive
<1> HIDE DEF v
<1>9. NotOlder(dev[d], v)
  BY <1>1, <1>7, <1>8, KeptNotOlder DEF NotOlder
<1>. QED
  BY <1>2, <1>9

LEMMA OneDeviceOnward ==
    ASSUME SessionInv, NEW d \in Device, \E u : dev' = [dev EXCEPT ![d] = u] /\ NotOlder(dev[d], u)
    PROVE  \A e \in Device : NotOlder(dev[e], dev'[e])
<1>1. dev \in [Device -> Peers]
  BY SoundTyped DEF SessionInv
<1>2. \A s \in Peers : NotOlder(s, s)
  BY DEF NotOlder, Peers, Keypairs, Keys, Slots
<1>3. PICK u : dev' = [dev EXCEPT ![d] = u] /\ NotOlder(dev[d], u)
  OBVIOUS
<1>. QED
  BY <1>1, <1>2, <1>3

\* A device never goes back to an older session: late initiations, responses and
\* packets of former sessions do not bring them back (add_new_keypair,
\* keypair_update, wireguard_process_handshake_response).
THEOREM NeverBack == Spec => NeverFallsBack
<1>1. ASSUME SessionInv, Next PROVE \A d \in Device : NotOlder(dev[d], dev'[d])
  <2>0. \A d \in Device : dev[d] \in Peers
    BY <1>1, SoundTyped DEF SessionInv
  <2>1. ASSUME NEW d \in Device, NEW outcome, SendData(d, outcome)
        PROVE  \E u : dev' = [dev EXCEPT ![d] = u] /\ NotOlder(dev[d], u)
    <3>1. dev' = [dev EXCEPT ![d] = Output(dev[d], outcome)]
      BY <2>1 DEF SendData
    <3>2. NotOlder(dev[d], Output(dev[d], outcome))
      BY <2>0, OutputEffect, KeptNotOlder
    <3>. QED
      BY <3>1, <3>2
  <2>2. ASSUME NEW d \in Device, NEW m \in net, ReceiveDataTooLate(d, m)
        PROVE  \E u : dev' = [dev EXCEPT ![d] = u] /\ NotOlder(dev[d], u)
    <3> DEFINE slots == {SlotFor(dev[d], Receiver(m))}
    <3>1. dev' = [dev EXCEPT ![d] = Destroy(dev[d], slots)]
      BY <2>2 DEF ReceiveDataTooLate
    <3>2. NotOlder(dev[d], Destroy(dev[d], slots))
      BY <2>0, DestroyEffect, KeptNotOlder
    <3> HIDE DEF slots
    <3>. QED
      BY <3>1, <3>2
  <2>3. ASSUME NEW d \in Device, Connect(d) \/ Disconnect(d)
        PROVE  \E u : dev' = [dev EXCEPT ![d] = u] /\ NotOlder(dev[d], u)
    <3>1. PICK u : dev' = [dev EXCEPT ![d] = u]
                   /\ u \in {Activated(AddedPeer), AddedPeer, BlankPeer("none")}
      BY <2>3 DEF Connect, Disconnect
    <3>2. \A x \in Slots : ~u.kp[x].valid
      BY <3>1, BlankEffect, ActivatedEffect DEF AddedPeer
    <3>3. NotOlder(dev[d], u)
      BY <3>2 DEF NotOlder, Slots
    <3>. QED
      BY <3>1, <3>3
  <2>4. CASE Tick
    <3>1. ASSUME NEW d \in Device PROVE NotOlder(dev[d], dev'[d])
      <4>1. dev'[d] = dev[d] \/ dev'[d] = Aged(dev[d])
        BY <2>4 DEF Tick
      <4>2. NotOlder(dev[d], Aged(dev[d]))
        BY <2>0, AgedEffect, KeptNotOlder
      <4>3. NotOlder(dev[d], dev[d])
        BY <2>0 DEF NotOlder, Peers, Keypairs, Keys, Slots
      <4>. QED
        BY <4>1, <4>2, <4>3
    <3>. QED
      BY <3>1
  <2>5. ASSUME NEW d \in Device, NEW m \in net, Receive(d, m)
        PROVE  \E u : dev' = [dev EXCEPT ![d] = u] /\ NotOlder(dev[d], u)
    BY <1>1, <2>2, <2>5, ReceiveInitiationOnward, ReceiveResponseOnward,
       ReceiveDataOnward DEF Receive
  <2>. QED
    BY <1>1, <2>1, <2>3, <2>4, <2>5, TimerOnward, OneDeviceOnward DEF Next
<1>2. SessionInv /\ [Next]_vars =>
        [\A d \in Device :
            dev[d].kp["curr"].valid /\ dev'[d].kp["curr"].valid =>
                dev[d].kp["curr"].key.r <= dev'[d].kp["curr"].key.r]_vars
  BY <1>1 DEF NotOlder
<1>. QED
  BY <1>2, SessionInvariant, PTL DEF Spec, NeverFallsBack

-----------------------------------------------------------------------------
(* Replays.  A packet an established session has delivered is one its      *)
(* window refuses from then on: it lies behind the counter, and its bit is *)
(* set as long as it lies within the window.  The counters are compared    *)
(* as uint32_t, which is right while no session has carried more packets   *)
(* than that (wireguard.c, wireguard_check_replay).                        *)

FewPacketsIn(N) == \A m \in N : IsData(m) => m.nonce + 1 < DiffMod
FewPackets == FewPacketsIn(net)

\* k is the end of a session at which its packet m arrives.
Expects(k, m) == k.valid /\ k.key = m.key /\ m.init = ~k.init

Blocked(w, q) ==
    /\ q <= w.counter
    /\ w.counter - q < Window => w.counter - q \in w.bitmap

\* Nothing has been delivered from a session that waits in next.
NoneWaiting(D, N, H) ==
    /\ \A how \in H : how[1] \in N /\ IsData(how[1]) /\ how[2] \in BOOLEAN
    /\ \A how \in H, d \in Device : ~Expects(D[d].kp["next"], how[1])

WindowsHold(D, H) ==
    /\ \A d \in Device, x \in Slots :
          D[d].kp[x].valid => D[d].kp[x].win.counter < DiffMod
    /\ \A how \in H, d \in Device, x \in Slots :
          Expects(D[d].kp[x], how[1]) /\ ~how[2] =>
              Blocked(D[d].kp[x].win, how[1].nonce + 1)

ReplayInv ==
    /\ SessionInv
    /\ NoneWaiting(dev, net, delivered)
    /\ FewPackets => WindowsHold(dev, delivered) /\ ~repeated

LEMMA DiffIsExact ==
    ASSUME NEW a \in Nat, NEW b \in Nat, b <= a, a - b < DiffMod
    PROVE  Diff(a, b) = a - b
BY ModAssumption DEF Diff

LEMMA BlockedRefused ==
    ASSUME NEW w \in Windows, NEW q \in 1 .. RejectMessages,
           w.counter < DiffMod, Blocked(w, q)
    PROVE  ~Accepts(w, q)
<1>1. w.counter \in Nat /\ q \in Nat \ {0} /\ q <= w.counter
  BY MessageAssumption DEF Windows, Blocked
<1>2. Diff(w.counter, q) = w.counter - q
  <2>1. w.counter - q < DiffMod
    BY <1>1, ModAssumption
  <2>. QED
    BY <1>1, <2>1, DiffIsExact
<1>. QED
  BY <1>1, <1>2 DEF Accepts, Blocked

\* A window that moves on takes its bits along.
LEMMA MarkedAhead ==
    ASSUME NEW w \in Windows, NEW q \in 1 .. RejectMessages, q < DiffMod, q > w.counter
    PROVE  /\ Marked(w, q).counter = q /\ 0 \in Marked(w, q).bitmap
           /\ \A p \in Positions : p - (q - w.counter) \in w.bitmap => p \in Marked(w, q).bitmap
<1>1. w.counter \in Nat /\ q \in Nat /\ w.bitmap \subseteq Positions
  BY MessageAssumption DEF Windows
<1>2. Diff(q, w.counter) = q - w.counter
  <2>1. q - w.counter < DiffMod
    BY <1>1, ModAssumption
  <2>. QED
    BY <1>1, <2>1, DiffIsExact
<1>3. Marked(w, q) = [counter |-> q,
          bitmap |-> {0} \cup IF q - w.counter < Window
                              THEN Shifted(w.bitmap, q - w.counter) ELSE {}]
  BY <1>2 DEF Marked
<1>4. ASSUME NEW p \in Positions, p - (q - w.counter) \in w.bitmap
      PROVE  p \in Marked(w, q).bitmap
  <2>1. q - w.counter < Window
    BY <1>1, <1>4, WindowAssumption DEF Positions
  <2>2. p \in Shifted(w.bitmap, q - w.counter)
    BY <1>4 DEF Shifted
  <2>. QED
    BY <1>3, <2>1, <2>2
<1>. QED
  BY <1>3, <1>4

LEMMA MarkedBehind ==
    ASSUME NEW w \in Windows, NEW q \in 1 .. RejectMessages, w.counter < DiffMod,
           ~(q > w.counter)
    PROVE  /\ Marked(w, q).counter = w.counter
           /\ Marked(w, q).bitmap = w.bitmap \cup {w.counter - q}
<1>1. w.counter \in Nat /\ q \in Nat \ {0} /\ q <= w.counter
  BY MessageAssumption DEF Windows
<1>2. Diff(w.counter, q) = w.counter - q
  <2>1. w.counter - q < DiffMod
    BY <1>1, ModAssumption
  <2>. QED
    BY <1>1, <2>1, DiffIsExact
<1>3. Marked(w, q) = [w EXCEPT !.bitmap = w.bitmap \cup {w.counter - q}]
  BY <1>2 DEF Marked
<1>. QED
  BY <1>3 DEF Windows

\* A packet that is marked is refused from then on, and so is what was refused
\* before.
LEMMA MarkedBlocks ==
    ASSUME NEW w \in Windows, NEW q \in 1 .. RejectMessages, q < DiffMod,
           w.counter < DiffMod
    PROVE  Marked(w, q).counter < DiffMod /\ Blocked(Marked(w, q), q)
<1>1. CASE q > w.counter
  <2>1. q - q = 0
    OBVIOUS
  <2>. QED
    BY <1>1, <2>1, MarkedAhead DEF Blocked
<1>2. CASE ~(q > w.counter)
  <2>1. q <= w.counter
    BY <1>2 DEF Windows
  <2>. QED
    BY <1>2, <2>1, MarkedBehind DEF Blocked
<1>. QED
  BY <1>1, <1>2

LEMMA MarkedKeeps ==
    ASSUME NEW w \in Windows, NEW q \in 1 .. RejectMessages, q < DiffMod,
           w.counter < DiffMod, NEW p \in 1 .. RejectMessages, Blocked(w, p)
    PROVE  Blocked(Marked(w, q), p)
<1>0. w.counter \in Nat /\ q \in Nat /\ p \in Nat /\ p <= w.counter
  BY MessageAssumption DEF Windows, Blocked
<1>1. CASE q > w.counter
  <2>1. Marked(w, q).counter = q /\ p <= q
    BY <1>0, <1>1, MarkedAhead
  <2>2. ASSUME q - p < Window PROVE q - p \in Marked(w, q).bitmap
    <3>1. q - p \in Positions
      BY <1>0, <2>1, <2>2, WindowAssumption DEF Positions
    <3>2. w.counter - p < Window
      BY <1>0, <1>1, <2>2, WindowAssumption
    <3>3. w.counter - p \in w.bitmap /\ (q - p) - (q - w.counter) = w.counter - p
      BY <1>0, <3>2 DEF Blocked
    <3>. QED
      BY <1>1, <3>1, <3>3, MarkedAhead
  <2>. QED
    BY <2>1, <2>2 DEF Blocked
<1>2. CASE ~(q > w.counter)
  BY <1>0, <1>2, MarkedBehind DEF Blocked
<1>. QED
  BY <1>1, <1>2

\* What t holds comes from s with its window, and nothing moves into next; what
\* is new is an end at which nothing has been sent.
Carries(s, t, N) ==
    \A x \in Slots : t.kp[x].valid =>
        \/ \E y \in Slots :
              /\ s.kp[y].valid /\ t.kp[x].key = s.kp[y].key /\ t.kp[x].init = s.kp[y].init
              /\ t.kp[x].win = s.kp[y].win
              /\ x = "next" => y = "next"
        \/ /\ t.kp[x].win = EmptyWindow
           /\ \A m \in N : IsData(m) => ~Expects(t.kp[x], m)

LEMMA KeptCarries ==
    ASSUME NEW s, NEW t, NEW N, Kept(s, t)
    PROVE  Carries(s, t, N)
BY DEF Kept, Carries

LEMMA CarriesOn ==
    ASSUME NEW s, NEW t, NEW u, NEW N, Carries(s, t, N), Kept(t, u)
    PROVE  Carries(s, u, N)
<1> SUFFICES ASSUME NEW x \in Slots, u.kp[x].valid
             PROVE  \/ \E y \in Slots :
                          /\ s.kp[y].valid /\ u.kp[x].key = s.kp[y].key
                          /\ u.kp[x].init = s.kp[y].init /\ u.kp[x].win = s.kp[y].win
                          /\ x = "next" => y = "next"
                    \/ /\ u.kp[x].win = EmptyWindow
                       /\ \A m \in N : IsData(m) => ~Expects(u.kp[x], m)
  BY DEF Carries
<1>1. /\ t.kp[x].valid /\ u.kp[x].key = t.kp[x].key /\ u.kp[x].init = t.kp[x].init
      /\ u.kp[x].win = t.kp[x].win
  BY DEF Kept
<1>. QED
  BY <1>1 DEF Carries, Expects

LEMMA CarriedReplays ==
    ASSUME NEW D, NEW E, NEW N, NEW P, N \subseteq P, NEW H, NoneWaiting(D, N, H),
           \A d \in Device : Carries(D[d], E[d], N)
    PROVE  /\ NoneWaiting(E, P, H)
           /\ WindowsHold(D, H) => WindowsHold(E, H)
<1>1. \A how \in H : how[1] \in N /\ IsData(how[1]) /\ how[2] \in BOOLEAN
  BY DEF NoneWaiting
<1>2. ASSUME NEW how \in H, NEW d \in Device, NEW x \in Slots, Expects(E[d].kp[x], how[1])
      PROVE  \E y \in Slots :
                /\ Expects(D[d].kp[y], how[1]) /\ E[d].kp[x].win = D[d].kp[y].win
                /\ x = "next" => y = "next"
  BY <1>1, <1>2 DEF Carries, Expects
<1>3. NoneWaiting(E, P, H)
  <2>1. "next" \in Slots
    BY DEF Slots
  <2>2. \A how \in H, d \in Device : ~Expects(E[d].kp["next"], how[1])
    BY <1>2, <2>1 DEF NoneWaiting
  <2>. QED
    BY <1>1, <2>2 DEF NoneWaiting
<1>4. ASSUME WindowsHold(D, H) PROVE WindowsHold(E, H)
  <2>1. ASSUME NEW d \in Device, NEW x \in Slots, E[d].kp[x].valid
        PROVE  E[d].kp[x].win.counter < DiffMod
    <3>1. EmptyWindow.counter < DiffMod
      BY ModAssumption, WindowAssumption DEF EmptyWindow
    <3>. QED
      BY <1>4, <2>1, <3>1 DEF Carries, WindowsHold
  <2>2. ASSUME NEW how \in H, NEW d \in Device, NEW x \in Slots,
               Expects(E[d].kp[x], how[1]), ~how[2]
        PROVE  Blocked(E[d].kp[x].win, how[1].nonce + 1)
    BY <1>2, <1>4, <2>2 DEF WindowsHold
  <2>. QED
    BY <2>1, <2>2 DEF WindowsHold
<1>. QED
  BY <1>3, <1>4

LEMMA CarriedInv ==
    ASSUME ReplayInv, SessionInv', net \subseteq net', UNCHANGED history,
           \A d \in Device : Carries(dev[d], dev'[d], net)
    PROVE  ReplayInv'
<1>1. NoneWaiting(dev', net', delivered) /\ (WindowsHold(dev, delivered) => WindowsHold(dev', delivered))
  <2>1. NoneWaiting(dev, net, delivered)
    BY DEF ReplayInv
  <2>. QED
    BY <2>1, CarriedReplays
<1>2. FewPackets' => FewPackets
  BY DEF FewPackets, FewPacketsIn
<1>3. delivered' = delivered /\ repeated' = repeated
  BY DEF history
<1>. QED
  BY <1>1, <1>2, <1>3 DEF ReplayInv

LEMMA OneCarries ==
    ASSUME ReplayInv, SessionInv', net \subseteq net', UNCHANGED history,
           NEW d \in Device, NEW u, dev' = [dev EXCEPT ![d] = u], Carries(dev[d], u, net)
    PROVE  ReplayInv'
<1>1. dev \in [Device -> Peers]
  BY DEF ReplayInv, SessionInv, TypeOK
<1>2. ASSUME NEW e \in Device PROVE Carries(dev[e], dev'[e], net)
  <2>1. CASE e = d
    BY <1>1, <2>1
  <2>2. CASE e # d
    <3>1. dev'[e] = dev[e]
      BY <1>1, <2>2
    <3>. QED
      BY <3>1 DEF Carries
  <2>. QED
    BY <2>1, <2>2
<1>. QED
  BY <1>2, CarriedInv

\* Nothing has been sent to the end that wireguard_start_session sets up: the
\* responder answers later, the initiator has shown nothing to be answered yet.
LEMMA StartCarries ==
    ASSUME NEW D, NEW N, NEW L, Sound(D, N, L), NEW d \in Device,
           NEW s \in Peers, s.kp = D[d].kp,
           NEW key \in Keys, NEW init \in BOOLEAN,
           init => key.i = D[d].hs, ~init => key.r = L + 1
    PROVE  Carries(D[d], StartSession(s, key, init), N)
<1> DEFINE t == StartSession(s, key, init)
           k == NewKeypair(key, init)
<1>1. /\ Indexed(D, N, L) /\ Untouched(D, N, L) /\ OnceShown(D, N) /\ L \in Int
  BY DEF Sound
<1>2. k.key = key /\ k.init = init /\ k.win = EmptyWindow
  BY NewKeypairShape
<1>3. /\ ~init => /\ t.kp["next"] = k /\ t.kp["curr"] = s.kp["curr"]
                  /\ ~t.kp["prev"].valid
      /\ init => /\ t.kp["curr"] = k /\ ~t.kp["next"].valid
                 /\ t.kp["prev"] = IF s.kp["next"].valid THEN s.kp["next"]
                                   ELSE s.kp["curr"]
  BY StartEffect
<1> HIDE DEF t, k
<1>4. ASSUME NEW m \in N, IsData(m), Expects(k, m) PROVE FALSE
  <2>1. m.key = key /\ m.init = ~init
    BY <1>2, <1>4 DEF Expects
  <2>2. CASE init
    <3>1. PICK p \in N : IsData(p) /\ p.key = key /\ p.init
      BY <1>1, <1>4, <2>1, <2>2 DEF OnceShown, Shown
    <3>. QED
      BY <1>1, <2>2, <3>1 DEF Untouched
  <2>3. CASE ~init
    BY <1>1, <1>4, <2>1, <2>3 DEF Indexed, Drawn, IsData
  <2>. QED
    BY <2>2, <2>3
<1>5. Slots = {"curr", "next", "prev"}
  BY DEF Slots
<1>6. ASSUME NEW x \in Slots, t.kp[x].valid
      PROVE  t.kp[x] = k \/ \E y \in Slots : t.kp[x] = D[d].kp[y] /\ x # "next"
  BY <1>3, <1>5, <1>6
<1>7. Carries(D[d], t, N)
  <2>1. ASSUME NEW x \in Slots, t.kp[x].valid, t.kp[x] # k
        PROVE  \E y \in Slots :
                  /\ D[d].kp[y].valid /\ t.kp[x].key = D[d].kp[y].key
                  /\ t.kp[x].init = D[d].kp[y].init /\ t.kp[x].win = D[d].kp[y].win
                  /\ x = "next" => y = "next"
    BY <1>6, <2>1
  <2>. QED
    BY <1>2, <1>4, <2>1 DEF Carries
<1>. QED
  BY <1>7 DEF t

LEMMA SendDataReplay ==
    ASSUME ReplayInv, SessionInv', NEW d \in Device, NEW outcome, SendData(d, outcome)
    PROVE  ReplayInv'
<1>1. dev[d] \in Peers
  BY DEF ReplayInv, SessionInv, TypeOK
<1>2. Carries(dev[d], Output(dev[d], outcome), net)
  BY <1>1, OutputEffect, KeptCarries
<1>. QED
  BY <1>2, OneCarries DEF SendData

LEMMA ReceiveInitiationReplay ==
    ASSUME ReplayInv, SessionInv', NEW d \in Device, NEW m \in net, ReceiveInitiation(d, m)
    PROVE  ReplayInv'
<1> DEFINE key == [i |-> m.i, r |-> lastIndex + 1]
           s == [dev[d] EXCEPT !.greatest = m.i]
<1>1. Sound(dev, net, lastIndex)
  BY DEF ReplayInv, SessionInv
<1>2. dev \in [Device -> Peers] /\ net \subseteq Messages /\ lastIndex \in 0 .. MaxIndex
  BY <1>1, SoundTyped
<1>3. /\ m.type = "init" /\ lastIndex < MaxIndex /\ UNCHANGED history /\ net \subseteq net'
      /\ dev' = [dev EXCEPT ![d] = StartSession(s, key, FALSE)]
  BY DEF ReceiveInitiation
<1>4. m.i \in 1 .. MaxIndex
  BY <1>2, <1>3 DEF Messages, Packets, Index
<1>5. key \in Keys /\ key.r = lastIndex + 1
  BY <1>2, <1>3, <1>4, BoundAssumption DEF Keys, Unheard
<1>6. s \in Peers /\ s.kp = dev[d].kp
  <2>1. dev[d] \in Peers /\ m.i \in 0 .. MaxIndex
    BY <1>2, <1>4
  <2>. QED
    BY <2>1 DEF Peers
<1> HIDE DEF s, key
<1>7. Carries(dev[d], StartSession(s, key, FALSE), net)
  <2>1. FALSE \in BOOLEAN
    OBVIOUS
  <2>. QED
    BY <1>1, <1>5, <1>6, <2>1, StartCarries
<1>. QED
  BY <1>3, <1>7, OneCarries

LEMMA ReceiveResponseReplay ==
    ASSUME ReplayInv, SessionInv', NEW d \in Device, NEW m \in net, NEW outcome,
           ReceiveResponse(d, m, outcome)
    PROVE  ReplayInv'
<1> DEFINE s == StartSession(dev[d], m.key, TRUE)
           t == Output(s, outcome)
           u == [t EXCEPT !.linkUp = TRUE]
<1>1. Sound(dev, net, lastIndex)
  BY DEF ReplayInv, SessionInv
<1>2. dev[d] \in Peers /\ net \subseteq Messages
  BY <1>1, SoundTyped
<1>3. /\ m.type = "resp" /\ m.key.i = dev[d].hs /\ UNCHANGED history
      /\ dev' = [dev EXCEPT ![d] = u] /\ net \subseteq net'
  BY DEF ReceiveResponse, AnswersHandshake
<1>4. m.key \in Keys
  BY <1>2, <1>3 DEF Messages, Packets
<1>5. s \in Peers
  BY <1>2, <1>4, StartEffect
<1>6. Carries(dev[d], s, net)
  <2>1. TRUE \in BOOLEAN
    OBVIOUS
  <2>. QED
    BY <1>1, <1>2, <1>3, <1>4, <2>1, StartCarries
<1> HIDE DEF s
<1>7. t \in Peers /\ Kept(s, t)
  BY <1>5, OutputEffect
<1> HIDE DEF t
<1>8. Carries(dev[d], t, net) /\ u.kp = t.kp
  BY <1>6, <1>7, CarriesOn, LinkAndWantsWritten
<1> HIDE DEF u
<1>9. Carries(dev[d], u, net)
  BY <1>8 DEF Carries
<1>. QED
  BY <1>3, <1>9, OneCarries

LEMMA ReceiveDataTooLateReplay ==
    ASSUME ReplayInv, SessionInv', NEW d \in Device, NEW m \in net, ReceiveDataTooLate(d, m)
    PROVE  ReplayInv'
<1> DEFINE slots == {SlotFor(dev[d], Receiver(m))}
<1>1. dev[d] \in Peers
  BY DEF ReplayInv, SessionInv, TypeOK
<1>2. dev' = [dev EXCEPT ![d] = Destroy(dev[d], slots)] /\ net \subseteq net'
      /\ UNCHANGED history
  BY DEF ReceiveDataTooLate
<1> HIDE DEF slots
<1>3. Carries(dev[d], Destroy(dev[d], slots), net)
  BY <1>1, DestroyEffect, KeptCarries
<1>. QED
  BY <1>2, <1>3, OneCarries

LEMMA TimerReplay ==
    ASSUME ReplayInv, SessionInv', NEW d \in Device, NEW outcome, NEW sent \in BOOLEAN,
           Timer(d, outcome, sent)
    PROVE  ReplayInv'
<1> DEFINE s == Swept(dev[d])
           t == IF ShouldKeepalive(s) THEN Output(s, outcome) ELSE s
           u == IF ShouldInitiate(t) THEN Initiated(t, NextIndex, sent) ELSE t
           v == LinkChecked(u)
<1>1. dev[d] \in Peers /\ lastIndex \in 0 .. MaxIndex
  BY DEF ReplayInv, SessionInv, TypeOK
<1>2. dev' = [dev EXCEPT ![d] = v] /\ net \subseteq net' /\ UNCHANGED history
  BY DEF Timer
<1>3. s \in Peers /\ Carries(dev[d], s, net)
  BY <1>1, SweptEffect, KeptCarries
<1> HIDE DEF s
<1>4. t \in Peers /\ Carries(dev[d], t, net)
  <2>1. Output(s, outcome) \in Peers /\ Kept(s, Output(s, outcome))
    BY <1>3, OutputEffect
  <2>2. Carries(dev[d], Output(s, outcome), net)
    BY <1>3, <2>1, CarriesOn
  <2>. QED
    BY <1>3, <2>1, <2>2
<1> HIDE DEF t
<1>5. u \in Peers /\ u.kp = t.kp
  <2>1. NextIndex \in 0 .. Unheard
    BY <1>1, BoundAssumption DEF NextIndex, Unheard
  <2>. QED
    BY <1>4, <2>1, InitiatedEffect
<1> HIDE DEF u
<1>6. v.kp = t.kp
  BY <1>5, LinkCheckedEffect
<1> HIDE DEF v
<1>7. Carries(dev[d], v, net)
  BY <1>4, <1>6 DEF Carries
<1>. QED
  BY <1>2, <1>7, OneCarries

LEMMA ConnectReplay ==
    ASSUME ReplayInv, SessionInv', NEW d \in Device, Connect(d) \/ Disconnect(d)
    PROVE  ReplayInv'
<1>1. \A x \in Slots : ~AddedPeer.kp[x].valid /\ ~BlankPeer("none").kp[x].valid
  BY BlankEffect DEF AddedPeer
<1>2. AddedPeer \in Peers
  BY BlankEffect DEF AddedPeer
<1>3. Activated(AddedPeer).kp = AddedPeer.kp
  BY <1>2, ActivatedEffect
<1>4. \E u : /\ dev' = [dev EXCEPT ![d] = u]
             /\ u \in {Activated(AddedPeer), AddedPeer, BlankPeer("none")}
  BY DEF Connect, Disconnect
<1>5. PICK u : dev' = [dev EXCEPT ![d] = u] /\ \A x \in Slots : ~u.kp[x].valid
  BY <1>1, <1>3, <1>4
<1>6. Carries(dev[d], u, net)
  BY <1>5 DEF Carries
<1>7. net \subseteq net' /\ UNCHANGED history
  BY DEF Connect, Disconnect
<1>. QED
  BY <1>5, <1>6, <1>7, OneCarries

LEMMA TickReplay ==
    ASSUME ReplayInv, SessionInv', Tick
    PROVE  ReplayInv'
<1>1. dev \in [Device -> Peers]
  BY DEF ReplayInv, SessionInv, TypeOK
<1>2. /\ net' = net /\ UNCHANGED history
      /\ dev' = [d \in Device |-> IF dev[d].status = "none" THEN dev[d] ELSE Aged(dev[d])]
  BY DEF Tick
<1>3. ASSUME NEW d \in Device PROVE Carries(dev[d], dev'[d], net)
  <2>1. dev[d] \in Peers
    BY <1>1
  <2>2. Carries(dev[d], Aged(dev[d]), net)
    BY <2>1, AgedEffect, KeptCarries
  <2>3. Carries(dev[d], dev[d], net)
    BY DEF Carries
  <2>. QED
    BY <1>2, <2>2, <2>3
<1>. QED
  BY <1>2, <1>3, CarriedInv

\* A packet that decrypts was sent by the other end of its session.
LEMMA OtherEnd ==
    ASSUME NEW D, NEW N, NEW L, Sound(D, N, L), NEW k \in Keypairs,
           NEW m \in N, IsData(m), Holds(k, Receiver(m)), m.key = k.key
    PROVE  Expects(k, m)
<1>1. N \subseteq Messages /\ Indexed(D, N, L)
  BY DEF Sound
<1>2. m.key \in Keys /\ m.init \in BOOLEAN /\ Drawn(m.key, L)
  BY <1>1, DataShape DEF Indexed, IsData
<1>3. k.init \in BOOLEAN /\ m.key.i # m.key.r
  BY <1>2 DEF Keypairs, Keys, Drawn
<1>. QED
  BY <1>2, <1>3 DEF Expects, Holds, LocalIndex, Receiver

\* No two keypairs are the end of a session at which a packet arrives.
LEMMA OneExpects ==
    ASSUME NEW D, NEW N, NEW L, Sound(D, N, L), NEW d \in Device, NEW e \in Device,
           NEW x \in Slots, NEW y \in Slots, NEW m,
           Expects(D[d].kp[x], m), Expects(D[e].kp[y], m)
    PROVE  e = d /\ y = x
<1>1. /\ D \in [Device -> Peers] /\ OneEnd(D) /\ InSequence(D[d])
  BY DEF Sound
<1>2. D[d].kp[x].init \in BOOLEAN /\ D[e].kp[y].init \in BOOLEAN
      /\ \A z \in Slots : D[d].kp[z].key.r \in Int
  BY <1>1 DEF Peers, Keypairs, Keys
<1>3. D[d].kp[x].init = D[e].kp[y].init
  BY <1>2 DEF Expects
<1>4. e = d
  BY <1>1, <1>3 DEF Expects, OneEnd
<1>5. /\ D[d].kp[x].valid /\ D[d].kp[y].valid
      /\ D[d].kp[x].key.r = D[d].kp[y].key.r
  BY <1>4 DEF Expects
<1>6. Slots = {"curr", "next", "prev"}
  BY DEF Slots
<1>. QED
  BY <1>1, <1>2, <1>4, <1>5, <1>6 DEF InSequence, Older

LEMMA ReceiveDataReplay ==
    ASSUME ReplayInv, SessionInv', NEW d \in Device, NEW m \in net, ReceiveData(d, m)
    PROVE  ReplayInv'
<1> DEFINE s == dev[d]
           slot == SlotFor(s, Receiver(m))
           t == Authenticated(s, slot)
           q == SeqOf(m.nonce)
           passes == m.payload /\ Accepts(t.kp[slot].win, q)
           w == Marked(t.kp[slot].win, q)
           v == [t EXCEPT !.kp[slot].win = w]
           u == IF passes THEN v ELSE t
           how == <<m, slot = "next">>
<1>1. Sound(dev, net, lastIndex) /\ NoneWaiting(dev, net, delivered)
  BY DEF ReplayInv, SessionInv
<1>2. dev \in [Device -> Peers] /\ net \subseteq Messages /\ s \in Peers
  BY <1>1, SoundTyped
<1>3. /\ IsData(m) /\ Holds(s.kp[slot], Receiver(m)) /\ m.key = s.kp[slot].key
      /\ dev' = [dev EXCEPT ![d] = u] /\ net' = net
      /\ delivered' = IF passes THEN delivered \cup {how} ELSE delivered
      /\ repeated' = (repeated \/ (passes /\ how \in delivered))
  BY DEF ReceiveData, IsData
<1>4. slot \in Slots
  BY DEF SlotFor, Slots
<1>5. /\ t \in Peers
      /\ slot # "next" => t.kp = [s.kp EXCEPT ![slot] = [s.kp[slot] EXCEPT !.confirmed = TRUE]]
      /\ slot = "next" => /\ t.kp["prev"] = s.kp["curr"]
                          /\ t.kp["curr"] = [s.kp[slot] EXCEPT !.confirmed = TRUE]
                          /\ ~t.kp["next"].valid
  BY <1>2, <1>4, AuthenticatedEffect
<1>6. s.kp \in [Slots -> Keypairs] /\ Slots = {"curr", "next", "prev"} /\ s.kp[slot] \in Keypairs
  BY <1>2, <1>4 DEF Peers, Slots
<1>7. Expects(s.kp[slot], m)
  BY <1>1, <1>3, <1>6, OtherEnd
<1>8. q = m.nonce + 1 /\ q \in 1 .. RejectMessages
  <2>1. m.nonce \in 0 .. RejectMessages
    BY <1>2, <1>3, DataShape
  <2>2. m.nonce < RejectMessages
    BY <1>1, <1>3 DEF Sound, Indexed
  <2>3. q = m.nonce + 1 /\ q \in 0 .. RejectMessages
    BY <2>1, <2>2, SeqTyped
  <2>. QED
    BY <2>1, <2>3, MessageAssumption
<1> HIDE DEF t, q
<1>9. t.kp[slot].win \in Windows
  BY <1>4, <1>5 DEF Peers, Keypairs
<1>10. passes => w \in Windows
  <2>1. q \in 0 .. RejectMessages
    BY <1>8
  <2>. QED
    BY <1>9, <2>1, MarkedTyped
<1>b. w = Marked(t.kp[slot].win, q) /\ (passes => Accepts(t.kp[slot].win, q))
  OBVIOUS
<1> HIDE DEF w, slot, passes
<1>11. passes =>
         \A x \in Slots :
            /\ v.kp[x].valid = t.kp[x].valid /\ v.kp[x].key = t.kp[x].key
            /\ v.kp[x].init = t.kp[x].init
            /\ v.kp[x].win = IF x = slot THEN w ELSE t.kp[x].win
  <2>1. ASSUME passes
        PROVE  \A x \in Slots :
                  /\ v.kp[x].valid = t.kp[x].valid /\ v.kp[x].key = t.kp[x].key
                  /\ v.kp[x].init = t.kp[x].init /\ v.kp[x].sent = t.kp[x].sent
                  /\ v.kp[x].confirmed = t.kp[x].confirmed
                  /\ v.kp[x].win = IF x = slot THEN w ELSE t.kp[x].win
    <3>1. t \in Peers /\ slot \in Slots /\ w \in Windows
      BY <1>4, <1>5, <1>10, <2>1
    <3>. QED
      BY <3>1, WindowWritten
  <2>. QED
    BY <2>1, Zenon
<1> HIDE DEF v
<1>12. \A x \in Slots :
          /\ u.kp[x].valid = t.kp[x].valid /\ u.kp[x].key = t.kp[x].key
          /\ u.kp[x].init = t.kp[x].init
          /\ x # slot \/ ~passes => u.kp[x].win = t.kp[x].win
          /\ x = slot /\ passes => u.kp[x].win = w
  BY <1>11
<1>a. how[1] = m /\ how[2] = (slot = "next") /\ how[2] \in BOOLEAN
  OBVIOUS
<1> HIDE DEF u, how
<1>13. FewPackets' = FewPackets
  BY <1>3 DEF FewPackets, FewPacketsIn
<1>14. dev'[d] = u /\ \A e \in Device : e # d => dev'[e] = dev[e]
  BY <1>2, <1>3
<1>17. \A e \in Device : e # d => Carries(dev[e], dev'[e], net)
  BY <1>14 DEF Carries
<1>18. \A e \in Device : e # d => \A x \in Slots : ~Expects(dev[e].kp[x], m)
  BY <1>1, <1>4, <1>7, OneExpects
<1>15. CASE slot = "next"
  <2>1. /\ t.kp["prev"] = s.kp["curr"] /\ ~t.kp["next"].valid
        /\ t.kp["curr"].valid /\ s.kp["next"].valid
        /\ t.kp["curr"].key = s.kp["next"].key /\ t.kp["curr"].init = s.kp["next"].init
        /\ t.kp["curr"].win = s.kp["next"].win
    BY <1>3, <1>5, <1>6, <1>15 DEF Keypairs, Holds
  <2>2. Carries(s, u, net)
    BY <1>6, <1>12, <1>15, <2>1 DEF Carries
  <2>3. NoneWaiting(dev', net, delivered)
        /\ (WindowsHold(dev, delivered) => WindowsHold(dev', delivered))
    <3>1. \A e \in Device : Carries(dev[e], dev'[e], net)
      BY <1>14, <1>17, <2>2
    <3>. QED
      BY <1>1, <3>1, CarriedReplays
  <2>4. \A e \in Device : ~Expects(dev'[e].kp["next"], m)
    BY <1>6, <1>12, <1>14, <1>18, <2>1 DEF Expects
  <2>5. how \notin delivered
    BY <1>1, <1>7, <1>15, <1>a DEF NoneWaiting
  <2>6. repeated' => repeated
    BY <1>3, <2>5, Zenon
  <2>7. NoneWaiting(dev', net', delivered')
    BY <1>3, <1>a, <2>3, <2>4 DEF NoneWaiting
  <2>8. WindowsHold(dev, delivered) => WindowsHold(dev', delivered')
    BY <1>3, <1>15, <1>a, <2>3 DEF WindowsHold
  <2>. QED
    BY <1>13, <2>6, <2>7, <2>8 DEF ReplayInv
<1>16. CASE slot # "next"
  <2>1. \A x \in Slots :
           /\ t.kp[x].valid = s.kp[x].valid /\ t.kp[x].key = s.kp[x].key
           /\ t.kp[x].init = s.kp[x].init /\ t.kp[x].win = s.kp[x].win
    BY <1>4, <1>5, <1>6, <1>16 DEF Keypairs
  <2>2. \A x \in Slots :
           /\ u.kp[x].valid = s.kp[x].valid /\ u.kp[x].key = s.kp[x].key
           /\ u.kp[x].init = s.kp[x].init
           /\ x # slot \/ ~passes => u.kp[x].win = s.kp[x].win
           /\ x = slot /\ passes => u.kp[x].win = w
    BY <1>12, <2>1
  <2>3. CASE ~passes
    <3>1. Carries(s, u, net)
      BY <2>2, <2>3 DEF Carries
    <3>2. \A e \in Device : Carries(dev[e], dev'[e], net)
      BY <1>14, <1>17, <3>1
    <3>3. NoneWaiting(dev', net, delivered)
          /\ (WindowsHold(dev, delivered) => WindowsHold(dev', delivered))
      BY <1>1, <3>2, CarriedReplays
    <3>4. delivered' = delivered /\ (repeated' => repeated)
      BY <1>3, <2>3, Zenon
    <3>. QED
      BY <1>3, <1>13, <3>3, <3>4 DEF ReplayInv
  <2>4. CASE passes
    <3>1. \A e \in Device, x \in Slots : \A p :
             Expects(dev'[e].kp[x], p) <=> Expects(dev[e].kp[x], p)
      BY <1>14, <2>2 DEF Expects
    <3>2. \A e \in Device, x \in Slots : Expects(dev[e].kp[x], m) => e = d /\ x = slot
      BY <1>1, <1>4, <1>7, OneExpects
    <3>3. delivered' = delivered \cup {how} /\ (repeated' => repeated \/ how \in delivered)
      BY <1>3, <2>4, Zenon
    <3>4. NoneWaiting(dev', net', delivered')
      BY <1>1, <1>3, <1>6, <1>16, <1>a, <3>1, <3>2, <3>3 DEF NoneWaiting
    <3>5. ASSUME FewPackets, WindowsHold(dev, delivered), ~repeated
          PROVE  WindowsHold(dev', delivered') /\ ~repeated'
      <4> DEFINE old == s.kp[slot].win
      <4>1. old \in Windows /\ w = Marked(old, q) /\ Accepts(old, q)
        BY <1>4, <1>9, <1>b, <2>1, <2>4
      <4>2. q < DiffMod /\ old.counter < DiffMod
        BY <1>3, <1>4, <1>8, <3>5 DEF FewPackets, FewPacketsIn, WindowsHold, Holds
      <4> HIDE DEF old
      <4>3. w.counter < DiffMod /\ Blocked(w, q)
        BY <1>8, <4>1, <4>2, MarkedBlocks
      <4>4. ASSUME NEW past \in delivered, ~past[2], Expects(s.kp[slot], past[1])
            PROVE  /\ past[1].nonce + 1 \in 1 .. RejectMessages
                   /\ Blocked(old, past[1].nonce + 1)
        <5>1. past[1] \in net /\ IsData(past[1])
          BY <1>1 DEF NoneWaiting
        <5>2. past[1].nonce \in 0 .. RejectMessages /\ past[1].nonce < RejectMessages
          BY <1>1, <1>2, <5>1, DataShape DEF Sound, Indexed
        <5>3. Blocked(old, past[1].nonce + 1)
          BY <1>4, <3>5, <4>4 DEF WindowsHold, old
        <5>. QED
          BY <5>2, <5>3, MessageAssumption
      <4>5. ASSUME NEW past \in delivered, ~past[2], Expects(s.kp[slot], past[1])
            PROVE  Blocked(w, past[1].nonce + 1)
        BY <1>8, <4>1, <4>2, <4>4, <4>5, MarkedKeeps
      <4>6. ASSUME NEW e \in Device, NEW x \in Slots, dev'[e].kp[x].valid
            PROVE  dev'[e].kp[x].win.counter < DiffMod
        <5>1. CASE e = d /\ x = slot
          BY <1>14, <2>2, <2>4, <4>3, <5>1
        <5>2. CASE ~(e = d /\ x = slot)
          <6>1. dev[e].kp[x].valid /\ dev'[e].kp[x].win = dev[e].kp[x].win
            BY <1>14, <2>2, <4>6, <5>2
          <6>. QED
            BY <3>5, <6>1 DEF WindowsHold
        <5>. QED
          BY <5>1, <5>2
      <4>7. ASSUME NEW past \in delivered', NEW e \in Device, NEW x \in Slots,
                   Expects(dev'[e].kp[x], past[1]), ~past[2]
            PROVE  Blocked(dev'[e].kp[x].win, past[1].nonce + 1)
        <5>1. Expects(dev[e].kp[x], past[1])
          BY <3>1, <4>7
        <5>2. CASE e = d /\ x = slot
          <6>1. dev'[e].kp[x].win = w
            BY <1>14, <2>2, <2>4, <5>2
          <6>2. CASE past \in delivered
            BY <4>5, <4>7, <5>1, <5>2, <6>1, <6>2
          <6>3. CASE past = how
            BY <1>8, <1>a, <4>3, <6>1, <6>3
          <6>. QED
            BY <3>3, <6>2, <6>3
        <5>3. CASE ~(e = d /\ x = slot)
          <6>1. dev'[e].kp[x].win = dev[e].kp[x].win
            BY <1>14, <2>2, <5>3
          <6>2. past # how
            BY <1>a, <3>2, <5>1, <5>3
          <6>. QED
            BY <3>3, <3>5, <4>7, <5>1, <6>1, <6>2 DEF WindowsHold
        <5>. QED
          BY <5>2, <5>3
      <4>8. how \notin delivered
        <5>1. how \in delivered => Blocked(old, m.nonce + 1)
          BY <1>7, <1>16, <1>a, <4>4
        <5>. QED
          BY <1>8, <4>1, <4>2, <5>1, BlockedRefused
      <4>. QED
        BY <3>3, <3>5, <4>6, <4>7, <4>8 DEF WindowsHold
    <3>. QED
      BY <1>13, <3>4, <3>5 DEF ReplayInv
  <2>. QED
    BY <2>3, <2>4
<1>. QED
  BY <1>15, <1>16
LEMMA NextReplay ==
    ASSUME ReplayInv, SessionInv', [Next]_vars
    PROVE  ReplayInv'
<1>1. CASE Next
  <2>1. ASSUME NEW d \in Device, NEW m \in net, Receive(d, m)
        PROVE  ReplayInv'
    BY <2>1, ReceiveInitiationReplay, ReceiveResponseReplay, ReceiveDataReplay,
       ReceiveDataTooLateReplay DEF Receive
  <2>. QED
    BY <1>1, <2>1, SendDataReplay, TimerReplay, ConnectReplay, TickReplay DEF Next
<1>2. CASE UNCHANGED vars
  <2>1. \A d \in Device : Carries(dev[d], dev'[d], net)
    BY <1>2 DEF vars, Carries
  <2>. QED
    BY <1>2, <2>1, CarriedInv DEF vars
<1>. QED
  BY <1>1, <1>2

\* A packet of an established session reaches ip_input at most once, whatever the
\* network repeats and reorders and however the keypairs move between the slots
\* with their windows (wireguardif_process_data_message, wireguard_check_replay):
\* as long as no session has carried 2^32 packets, where the 32-bit difference of
\* wireguard_check_replay would wrap.
THEOREM NoRepeat == Spec => [](FewPackets => NoRepeatOnceEstablished)
<1>1. Init => ReplayInv
  <2>1. SUFFICES ASSUME Init PROVE ReplayInv
    OBVIOUS
  <2>2. \A d \in Device, x \in Slots : ~dev[d].kp[x].valid
    BY <2>1, BlankEffect DEF Init
  <2>3. delivered = {} /\ ~repeated
    BY <2>1 DEF Init
  <2>. QED
    BY <2>1, <2>2, <2>3, InitSound DEF ReplayInv, NoneWaiting, WindowsHold
<1>2. ReplayInv /\ SessionInv' /\ [Next]_vars => ReplayInv'
  BY NextReplay
<1>3. ReplayInv => (FewPackets => NoRepeatOnceEstablished)
  BY DEF ReplayInv, NoRepeatOnceEstablished
<1>. QED
  BY <1>1, <1>2, <1>3, SessionInvariant, PTL DEF Spec
=============================================================================
