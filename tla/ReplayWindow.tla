----------------------------- MODULE ReplayWindow -----------------------------
(***************************************************************************)
(* The replay window of one keypair, fed with packets in any order, some   *)
(* of them again, and compared with the set of all packets it let through. *)
(***************************************************************************)
EXTENDS WgReplay

CONSTANT MaxNonce   \* the largest packet number the sender got to

\* Fewer than 2^32 packets under one keypair: it lives for REJECT_AFTER_TIME,
\* 180 seconds, and nothing here sends 23 million packets a second.
ASSUME NonceAssumption == MaxNonce \in Nat /\ MaxNonce + 1 < DiffMod

VARIABLES
    win,        \* replay_counter and replay_bitmap
    accepted    \* history: the packets that were let through

vars == <<win, accepted>>

\* What the sender used, and the one number that wraps to 0.
Nonces == 0 .. MaxNonce \cup {SeqMod - 1}

TypeOK ==
    /\ win \in [counter : 0 .. MaxNonce + 1, bitmap : SUBSET Positions]
    /\ accepted \subseteq 0 .. MaxNonce

Init == win = EmptyWindow /\ accepted = {}

CheckReplay(nonce) ==
    /\ Accepts(win, SeqOf(nonce))
    /\ win' = Marked(win, SeqOf(nonce))
    /\ accepted' = accepted \cup {nonce}

Next == \E nonce \in Nonces : CheckReplay(nonce)

Spec == Init /\ [][Next]_vars

-----------------------------------------------------------------------------
(* Properties.                                                             *)

\* A packet that was let through is never let through again, however late its
\* duplicate comes (wireguard.c: "already seen" and "too old or wrapped").
NeverTwice == \A n \in accepted : ~Accepts(win, SeqOf(n))

\* A packet that is new is refused only when it is more than a window behind
\* the newest one, or when its number wrapped: no bit of the bitmap is set for
\* a packet that did not come.
FreshPasses ==
    \A n \in Nonces :
        n \notin accepted /\ ~Accepts(win, SeqOf(n)) =>
            n + 1 + Window <= win.counter \/ n = SeqMod - 1
=============================================================================
