------------------------------- MODULE WgReplay -------------------------------
(***************************************************************************)
(* wireguard_check_replay of wireguard.c: the window of packet numbers a   *)
(* keypair has seen.  A window is a record [counter, bitmap]; the bitmap   *)
(* is the set of positions whose bit is set, position 0 being counter.     *)
(*                                                                         *)
(* The code subtracts 64-bit numbers into a uint32_t, so a difference is   *)
(* taken modulo DiffMod (2^32).                                            *)
(***************************************************************************)
EXTENDS Integers

CONSTANTS
    Window,     \* bits of the bitmap (32)
    DiffMod,    \* values of the variable `diff' (2^32)
    SeqMod      \* values of a packet number (2^64)

ASSUME WindowAssumption == Window \in Nat \ {0}
ASSUME ModAssumption ==
    DiffMod \in Nat /\ SeqMod \in Nat /\ Window < DiffMod /\ DiffMod <= SeqMod

Positions == 0 .. Window - 1
EmptyWindow == [counter |-> 0, bitmap |-> {}]

\* Packet numbers start from 0, the algorithm's from 1; the last one wraps.
SeqOf(nonce) == (nonce + 1) % SeqMod

Diff(a, b) == (a - b) % DiffMod

\* Faulty variant: the window is one wider than the bitmap.
AcceptsWider(win, seq) ==
    /\ seq # 0
    /\ \/ seq > win.counter
       \/ /\ Diff(win.counter, seq) <= Window
          /\ Diff(win.counter, seq) \notin win.bitmap

\* Faulty variant: the oldest position of the window is given up.
AcceptsNarrower(win, seq) ==
    /\ seq # 0
    /\ \/ seq > win.counter
       \/ /\ Diff(win.counter, seq) < Window - 1
          /\ Diff(win.counter, seq) \notin win.bitmap

\* wireguard_check_replay returns true.
Accepts(win, seq) ==
    /\ seq # 0
    /\ \/ seq > win.counter
       \/ /\ Diff(win.counter, seq) < Window
          /\ Diff(win.counter, seq) \notin win.bitmap

\* bitmap <<= diff
Shifted(bitmap, diff) == {p \in Positions : p - diff \in bitmap}

\* Faulty variant: only the newest packet is marked.
MarkedIfNewest(win, seq) ==
    IF seq > win.counter
    THEN LET diff == Diff(seq, win.counter)
         IN  [counter |-> seq,
              bitmap |-> {0} \cup IF diff < Window
                                  THEN Shifted(win.bitmap, diff) ELSE {}]
    ELSE win

\* The window after an accepted packet.
Marked(win, seq) ==
    IF seq > win.counter
    THEN LET diff == Diff(seq, win.counter)
         IN  [counter |-> seq,
              bitmap |-> {0} \cup IF diff < Window
                                  THEN Shifted(win.bitmap, diff) ELSE {}]
    ELSE [win EXCEPT !.bitmap = @ \cup {Diff(win.counter, seq)}]
=============================================================================
