-------------------------- MODULE ReplayWindowProofs --------------------------
(***************************************************************************)
(* Proofs about ReplayWindow, for every size of the window and every       *)
(* largest packet number below DiffMod - 1.                                *)
(***************************************************************************)
EXTENDS ReplayWindow, TLAPS

USE WindowAssumption, ModAssumption, NonceAssumption

\* The bitmap is exactly the trace the accepted packets left in the window.
BitmapIsTrace ==
    \A p \in Positions : p \in win.bitmap <=> win.counter - p - 1 \in accepted

NothingNewer == \A n \in accepted : n + 1 <= win.counter

IInv == TypeOK /\ BitmapIsTrace /\ NothingNewer

\* Below its modulus the truncation of a difference is the difference.
LEMMA DiffIsExact ==
    ASSUME NEW a \in Nat, NEW b \in Nat, b <= a, a < DiffMod
    PROVE  Diff(a, b) = a - b
  BY DEF Diff

\* Only the largest packet number wraps.
LEMMA SeqIsExact ==
    ASSUME NEW n \in 0 .. MaxNonce
    PROVE  SeqOf(n) = n + 1
  BY DEF SeqOf

LEMMA LastSeqWraps == SeqOf(SeqMod - 1) = 0
  BY DEF SeqOf
\* A packet below the newest one is looked up at its own position.
LEMMA BehindIsLookedUp ==
    ASSUME IInv, NEW n \in 0 .. MaxNonce, n + 1 <= win.counter
    PROVE  Accepts(win, SeqOf(n)) <=>
               /\ win.counter - (n + 1) < Window
               /\ n \notin accepted
<1>1. win.counter \in 0 .. MaxNonce + 1
  BY DEF IInv, TypeOK
<1>2. SeqOf(n) = n + 1
  BY SeqIsExact
<1>3. Diff(win.counter, n + 1) = win.counter - (n + 1)
  BY <1>1, DiffIsExact
<1>4. Accepts(win, SeqOf(n)) <=>
          /\ win.counter - (n + 1) < Window
          /\ win.counter - (n + 1) \notin win.bitmap
  BY <1>1, <1>2, <1>3 DEF Accepts
<1>5. ASSUME win.counter - (n + 1) < Window
      PROVE  win.counter - (n + 1) \in win.bitmap <=> n \in accepted
  <2>1. win.counter - (n + 1) \in Positions
    BY <1>1, <1>5 DEF Positions
  <2>2. win.counter - (win.counter - (n + 1)) - 1 = n
    BY <1>1
  <2> QED
    BY <2>1, <2>2 DEF IInv, BitmapIsTrace
<1> QED
  BY <1>4, <1>5

\* A packet beyond the newest one is accepted.
LEMMA AheadIsAccepted ==
    ASSUME IInv, NEW n \in 0 .. MaxNonce, n + 1 > win.counter
    PROVE  Accepts(win, SeqOf(n))
  BY SeqIsExact DEF Accepts, IInv, TypeOK

LEMMA InitHolds == Init => IInv
  BY DEF Init, IInv, TypeOK, BitmapIsTrace, NothingNewer, EmptyWindow

\* The window moves on: the trace of the older packets moves with it, or
\* leaves it altogether.
LEMMA AheadKeeps ==
    ASSUME IInv, NEW n \in 0 .. MaxNonce, CheckReplay(n), n + 1 > win.counter
    PROVE  IInv'
<1>1. win.counter \in 0 .. MaxNonce + 1 /\ SeqOf(n) = n + 1
  BY SeqIsExact DEF IInv, TypeOK
<1> DEFINE d == n + 1 - win.counter
<1>2. Diff(n + 1, win.counter) = d
  BY <1>1, DiffIsExact
<1>3. /\ win' = [counter |-> n + 1,
                bitmap |-> {0} \cup IF d < Window THEN Shifted(win.bitmap, d) ELSE {}]
      /\ accepted' = accepted \cup {n}
  BY <1>1, <1>2 DEF CheckReplay, Marked
<1>4. TypeOK'
  BY <1>1, <1>3 DEF IInv, TypeOK, Positions, Shifted
<1>5. NothingNewer'
  BY <1>1, <1>3 DEF IInv, TypeOK, NothingNewer
<1>6. ASSUME NEW p \in Positions
      PROVE  (p \in win.bitmap <=> win.counter - p - 1 \in accepted)'
  <2>1. CASE p = 0
    BY <1>1, <1>3, <2>1
  <2>2. CASE p # 0 /\ d < Window
    <3>1. p \in win'.bitmap <=> p - d \in win.bitmap
      BY <1>3, <2>2, <1>6 DEF Shifted
    <3>2. win'.counter - p - 1 = win.counter - (p - d) - 1
      BY <1>1, <1>3, <1>6 DEF Positions
    <3>3. win'.counter - p - 1 \in accepted' <=> win'.counter - p - 1 \in accepted
      BY <1>1, <1>3, <1>6, <2>2 DEF Positions
    <3>4. CASE p - d \in Positions
      BY <3>1, <3>2, <3>3, <3>4 DEF IInv, BitmapIsTrace
    <3>5. CASE p - d \notin Positions
      <4>1. p - d < 0
        BY <1>1, <1>6, <3>5 DEF Positions
      <4>2. p - d \notin win.bitmap
        BY <3>5 DEF IInv, TypeOK
      <4>3. win.counter - (p - d) - 1 \notin accepted
        BY <1>1, <1>6, <4>1 DEF IInv, NothingNewer, TypeOK, Positions
      <4> QED
        BY <3>1, <3>2, <3>3, <4>2, <4>3
    <3> QED
      BY <3>4, <3>5
  <2>3. CASE p # 0 /\ ~(d < Window)
    <3>1. p \notin win'.bitmap
      BY <1>3, <2>3
    <3>2. win'.counter - p - 1 = n - p
      BY <1>1, <1>3, <1>6 DEF Positions
    <3>3. n - p >= win.counter /\ n - p # n
      BY <1>1, <1>6, <2>3 DEF Positions
    <3>4. n - p \notin accepted
      BY <1>1, <1>6, <3>3 DEF IInv, NothingNewer, TypeOK, Positions
    <3> QED
      BY <1>3, <3>1, <3>2, <3>3, <3>4
  <2> QED
    BY <2>1, <2>2, <2>3
<1> QED
  BY <1>4, <1>5, <1>6 DEF IInv, BitmapIsTrace

\* A packet inside the window sets its own bit.
LEMMA BehindKeeps ==
    ASSUME IInv, NEW n \in 0 .. MaxNonce, CheckReplay(n), n + 1 <= win.counter
    PROVE  IInv'
<1>1. win.counter \in 0 .. MaxNonce + 1 /\ SeqOf(n) = n + 1
  BY SeqIsExact DEF IInv, TypeOK
<1> DEFINE d == win.counter - (n + 1)
<1>2. Diff(win.counter, n + 1) = d
  BY <1>1, DiffIsExact
<1>3. d < Window /\ d \in Positions
  BY <1>1, BehindIsLookedUp DEF CheckReplay, Positions
<1>4. /\ win' = [win EXCEPT !.bitmap = @ \cup {d}]
      /\ accepted' = accepted \cup {n}
  <2>1. ~(SeqOf(n) > win.counter)
    BY <1>1
  <2>2. Marked(win, SeqOf(n))
            = [win EXCEPT !.bitmap = @ \cup {Diff(win.counter, SeqOf(n))}]
    BY <2>1, Zenon DEF Marked
  <2>3. Diff(win.counter, SeqOf(n)) = d
    BY <1>1, <1>2
  <2> QED
    BY <2>2, <2>3, Zenon DEF CheckReplay
<1>5. win'.counter = win.counter /\ win'.bitmap = win.bitmap \cup {d}
  BY <1>4 DEF IInv, TypeOK
<1>6. TypeOK'
  BY <1>3, <1>4 DEF IInv, TypeOK
<1>7. NothingNewer'
  BY <1>1, <1>4, <1>5 DEF IInv, NothingNewer
<1>8. ASSUME NEW p \in Positions
      PROVE  (p \in win.bitmap <=> win.counter - p - 1 \in accepted)'
  <2>1. p = d <=> win.counter - p - 1 = n
    BY <1>1, <1>8 DEF Positions
  <2> QED
    BY <1>4, <1>5, <1>8, <2>1 DEF IInv, BitmapIsTrace
<1> QED
  BY <1>6, <1>7, <1>8 DEF IInv, BitmapIsTrace

LEMMA StepKeeps == IInv /\ [Next]_vars => IInv'
<1> SUFFICES ASSUME IInv, [Next]_vars
             PROVE  IInv'
  OBVIOUS
<1>1. CASE UNCHANGED vars
  BY <1>1 DEF vars, IInv, TypeOK, BitmapIsTrace, NothingNewer
<1>2. ASSUME NEW n \in Nonces, CheckReplay(n)
      PROVE  IInv'
  <2>1. n # SeqMod - 1
    BY <1>2, LastSeqWraps DEF CheckReplay, Accepts
  <2>2. n \in 0 .. MaxNonce
    BY <2>1 DEF Nonces
  <2>3. n + 1 > win.counter \/ n + 1 <= win.counter
    BY <2>2 DEF IInv, TypeOK
  <2> QED
    BY <1>2, <2>2, <2>3, AheadKeeps, BehindKeeps
<1> QED
  BY <1>1, <1>2 DEF Next

LEMMA AlwaysIInv == Spec => []IInv
  BY InitHolds, StepKeeps, PTL DEF Spec

\* The counter never passes what the sender used and the bitmap keeps to its
\* width, whatever order packets come in.
THEOREM TypeCorrect == Spec => []TypeOK
<1>1. IInv => TypeOK
  BY DEF IInv
<1> QED
  BY <1>1, AlwaysIInv, PTL

\* wireguard_check_replay lets no packet through twice.
THEOREM NoDuplicate == Spec => []NeverTwice
<1>1. IInv => NeverTwice
  <2> SUFFICES ASSUME IInv, NEW n \in accepted
               PROVE  ~Accepts(win, SeqOf(n))
    BY DEF NeverTwice
  <2>1. n \in 0 .. MaxNonce /\ n + 1 <= win.counter
    BY DEF IInv, TypeOK, NothingNewer
  <2> QED
    BY <2>1, BehindIsLookedUp
<1> QED
  BY <1>1, AlwaysIInv, PTL

\* wireguard_check_replay refuses no new packet that is inside its window.
THEOREM NoFalseAlarm == Spec => []FreshPasses
<1>1. IInv => FreshPasses
  <2> SUFFICES ASSUME IInv, NEW n \in 0 .. MaxNonce, n \notin accepted,
                      ~Accepts(win, SeqOf(n))
               PROVE  n + 1 + Window <= win.counter
    BY DEF FreshPasses, Nonces
  <2>1. win.counter \in 0 .. MaxNonce + 1
    BY DEF IInv, TypeOK
  <2>2. n + 1 <= win.counter
    BY <2>1, AheadIsAccepted
  <2>3. ~(win.counter - (n + 1) < Window)
    BY <2>2, BehindIsLookedUp
  <2> QED
    BY <2>1, <2>3
<1> QED
  BY <1>1, AlwaysIInv, PTL
=============================================================================
