----------------------------- MODULE NewtWsRxProofs -----------------------------
(***************************************************************************)
(* Proofs about NewtWsRx, for any number of frames of any length, pieces   *)
(* of any length, any limit on what is put together and any backoff.       *)
(***************************************************************************)
EXTENDS NewtWsRx, SequenceTheorems, TLAPS

-----------------------------------------------------------------------------
(* The invariant.                                                          *)

\* The frame under way is the last one the server began.
Underway ==
    /\ frame.off <= frame.size
    /\ Len(sizes) = frame.id
    /\ frame.id > 0 => sizes[frame.id] = frame.size
    /\ frame.id = 0 => frame.size = 0

\* Within a frame the assembly holds exactly what came of it, in a buffer for
\* the whole; or there is no assembly, and the frame may be dropped.
Assembled ==
    0 < frame.off /\ frame.off < frame.size =>
        IF up THEN cap = frame.size /\ assembly = Bytes(frame.id, 0, frame.off)
        ELSE excused

RxInv == TypeOK /\ Underway /\ Assembled /\ DeliversWholeFrames

-----------------------------------------------------------------------------
(* The bytes of a frame.                                                   *)

LEMMA BytesTyped ==
    ASSUME NEW id \in 0 .. MaxFrames, NEW first \in Nat, NEW last \in 0 .. MaxPayload,
           first <= last
    PROVE  /\ Bytes(id, first, last) \in Seq(AllBytes)
           /\ Len(Bytes(id, first, last)) = last - first
           /\ \A i \in 1 .. last - first : Bytes(id, first, last)[i] = <<id, first + i>>
<1>1. last - first \in Nat /\ last \in Nat
  BY FramesAssumption
<1>2. ASSUME NEW i \in 1 .. last - first PROVE <<id, first + i>> \in AllBytes
  <2>1. first + i \in 1 .. MaxPayload
    BY FramesAssumption
  <2>. QED
    BY <2>1 DEF AllBytes
<1>3. Bytes(id, first, last) \in [1 .. last - first -> AllBytes]
  BY <1>2 DEF Bytes
<1>4. Bytes(id, first, last) \in Seq(AllBytes)
  BY <1>1, <1>3, SeqDef
<1>5. Len(Bytes(id, first, last)) = last - first
  BY <1>1, <1>3, <1>4, LenProperties
<1>. QED
  BY <1>4, <1>5 DEF Bytes

\* Two pieces that follow each other are one.
LEMMA BytesJoined ==
    ASSUME NEW id \in 0 .. MaxFrames, NEW a \in Nat, NEW b \in Nat, NEW c \in 0 .. MaxPayload,
           a <= b, b <= c
    PROVE  Bytes(id, a, b) \o Bytes(id, b, c) = Bytes(id, a, c)
<1> DEFINE s == Bytes(id, a, b)
           t == Bytes(id, b, c)
           u == Bytes(id, a, c)
<1>1. b \in 0 .. MaxPayload /\ a <= c
  BY FramesAssumption
<1>2. s \in Seq(AllBytes) /\ Len(s) = b - a /\ \A i \in 1 .. b - a : s[i] = <<id, a + i>>
  BY <1>1, BytesTyped
<1>3. t \in Seq(AllBytes) /\ Len(t) = c - b /\ \A i \in 1 .. c - b : t[i] = <<id, b + i>>
  BY BytesTyped
<1>4. u \in Seq(AllBytes) /\ Len(u) = c - a /\ \A i \in 1 .. c - a : u[i] = <<id, a + i>>
  BY <1>1, BytesTyped
<1> HIDE DEF s, t, u
<1>5. /\ s \o t \in Seq(AllBytes) /\ Len(s \o t) = (b - a) + (c - b)
      /\ \A i \in 1 .. (b - a) + (c - b) :
            (s \o t)[i] = IF i <= b - a THEN s[i] ELSE t[i - (b - a)]
  <2>1. /\ s \o t \in Seq(AllBytes) /\ Len(s \o t) = Len(s) + Len(t)
        /\ \A i \in 1 .. Len(s) + Len(t) :
              (s \o t)[i] = IF i <= Len(s) THEN s[i] ELSE t[i - Len(s)]
    BY <1>2, <1>3, ConcatProperties, Zenon
  <2>. QED
    BY <1>2, <1>3, <2>1, Zenon
<1>6. c \in Nat /\ (b - a) + (c - b) = c - a
  BY FramesAssumption
<1>7. ASSUME NEW i \in 1 .. c - a PROVE (s \o t)[i] = u[i]
  <2>1. u[i] = <<id, a + i>>
    BY <1>4
  <2>2. CASE i <= b - a
    <3>1. i \in 1 .. b - a /\ (s \o t)[i] = s[i]
      BY <1>5, <1>6, <2>2
    <3>. QED
      BY <1>2, <2>1, <3>1
  <2>3. CASE ~(i <= b - a)
    <3>1. /\ i - (b - a) \in 1 .. c - b /\ b + (i - (b - a)) = a + i
          /\ (s \o t)[i] = t[i - (b - a)]
      BY <1>5, <1>6, <2>3
    <3>. QED
      BY <1>3, <2>1, <3>1
  <2>. QED
    BY <2>2, <2>3
<1>8. s \o t = u
  BY <1>4, <1>5, <1>6, <1>7, SeqEqual
<1>. QED
  BY <1>8 DEF s, t, u

-----------------------------------------------------------------------------
(* The steps.                                                              *)

FrameRecords == [id : 0..MaxFrames, size : 0..MaxPayload, off : 0..MaxPayload]

LEMMA FrameTyped ==
    ASSUME RxInv
    PROVE  /\ frame \in FrameRecords /\ frame.id \in Nat /\ frame.size \in Nat
           /\ frame.off \in Nat /\ frame.off <= frame.size
           /\ sizes \in Seq(1..MaxPayload) /\ Len(sizes) = frame.id
           /\ MaxPayload \in Nat /\ RxMax \in Nat /\ BufferSize \in Nat
BY FramesAssumption, BufferAssumption DEF RxInv, TypeOK, Underway, FrameRecords

\* One event's bytes.
LEMMA PieceEffect ==
    ASSUME RxInv, NEW d, Piece(d)
    PROVE  /\ frame' \in FrameRecords /\ frame'.id = frame.id /\ frame'.size = frame.size
           /\ frame'.off = frame.off + d /\ frame'.off <= frame.size
           /\ d \in Nat /\ d > 0 /\ frame.off < frame.size /\ frame.id > 0
           /\ Data(d) \in Seq(AllBytes) /\ Len(Data(d)) = d
<1>1. /\ frame \in FrameRecords /\ frame.id \in Nat /\ frame.size \in Nat
      /\ frame.off \in Nat /\ frame.off <= frame.size /\ MaxPayload \in Nat
  BY FrameTyped
<1>2. /\ frame.off # frame.size /\ d \in Nat /\ d > 0 /\ frame.off + d <= frame.size
      /\ frame' = [frame EXCEPT !.off = frame.off + d]
  BY BufferAssumption DEF Piece, FrameDone
<1>3. frame.size \in 0 .. MaxPayload /\ frame.id \in 0 .. MaxFrames
  BY <1>1 DEF FrameRecords
<1>4. frame.off + d \in 0 .. MaxPayload
  BY <1>1, <1>2, <1>3
<1>5. /\ frame' \in FrameRecords /\ frame'.id = frame.id /\ frame'.size = frame.size
      /\ frame'.off = frame.off + d
  BY <1>1, <1>2, <1>4 DEF FrameRecords
<1>6. frame.off < frame.size /\ frame.id > 0
  BY <1>1, <1>2 DEF RxInv, Underway
<1>7. /\ Bytes(frame.id, frame.off, frame.off + d) \in Seq(AllBytes)
      /\ Len(Bytes(frame.id, frame.off, frame.off + d)) = (frame.off + d) - frame.off
  BY <1>1, <1>2, <1>3, <1>4, BytesTyped
<1>8. (frame.off + d) - frame.off = d
  BY <1>1, <1>2
<1>. QED
  BY <1>2, <1>5, <1>6, <1>7, <1>8 DEF Data

LEMMA UnderwayKept ==
    ASSUME RxInv, frame'.id = frame.id, frame'.size = frame.size,
           frame'.off <= frame.size, sizes' = sizes
    PROVE  Underway'
BY DEF RxInv, Underway

\* What was delivered before is still whole when only more frames have begun.
LEMMA WholeKept ==
    ASSUME RxInv, out' = out, sizes' = sizes
    PROVE  DeliversWholeFrames'
BY DEF RxInv, DeliversWholeFrames

LEMMA WholeDelivered ==
    ASSUME RxInv, frame.id > 0, out' = Bytes(frame.id, 0, frame.size), sizes' = sizes
    PROVE  DeliversWholeFrames'
<1>1. frame.id \in 1 .. Len(sizes) /\ sizes[frame.id] = frame.size
  BY FrameTyped DEF RxInv, Underway
<1>2. DOMAIN sizes = 1 .. Len(sizes)
  BY FrameTyped, LenProperties
<1>. QED
  BY <1>1, <1>2 DEF DeliversWholeFrames

LEMMA NextFrameHolds == ASSUME RxInv, NextFrame PROVE RxInv'
<1>1. /\ frame \in FrameRecords /\ frame.id \in Nat /\ sizes \in Seq(1..MaxPayload)
      /\ Len(sizes) = frame.id /\ MaxPayload \in Nat
  BY FrameTyped
<1>2. PICK s \in 1..MaxPayload :
         /\ frame' = [id |-> frame.id + 1, size |-> s, off |-> 0]
         /\ sizes' = Append(sizes, s)
  BY DEF NextFrame
<1>3. /\ frame.id < MaxFrames /\ excused' = FALSE
      /\ UNCHANGED <<assembly, cap, up, out, attempt, timeout>>
  BY DEF NextFrame, rx, backoff
<1>4. /\ sizes' \in Seq(1..MaxPayload) /\ Len(sizes') = frame.id + 1
      /\ sizes'[frame.id + 1] = s
      /\ \A i \in 1 .. Len(sizes) : sizes'[i] = sizes[i]
  BY <1>1, <1>2, AppendProperties
<1>5. frame'.id = frame.id + 1 /\ frame'.size = s /\ frame'.off = 0
  BY <1>2
<1>6. frame' \in FrameRecords
  BY <1>1, <1>2, <1>3, FramesAssumption DEF FrameRecords
<1>7. TypeOK'
  BY <1>3, <1>4, <1>6 DEF RxInv, TypeOK, FrameRecords
<1>8. Underway'
  BY <1>1, <1>4, <1>5 DEF Underway
<1>9. Assembled'
  BY <1>5 DEF Assembled
<1>10. DeliversWholeFrames'
  <2>1. DOMAIN sizes = 1 .. Len(sizes) /\ DOMAIN sizes' = 1 .. Len(sizes')
    BY <1>1, <1>4, LenProperties
  <2>2. \A id \in DOMAIN sizes : id \in DOMAIN sizes' /\ sizes'[id] = sizes[id]
    BY <1>1, <1>4, <2>1
  <2>. QED
    BY <1>3, <2>2 DEF RxInv, DeliversWholeFrames
<1>. QED
  BY <1>7, <1>8, <1>9, <1>10 DEF RxInv

LEMMA WholeFrameHolds ==
    ASSUME RxInv, NEW d, WholeFrame(d)
    PROVE  RxInv' /\ frame.off = 0 /\ out' = Whole(frame)
<1>1. /\ frame' \in FrameRecords /\ frame'.id = frame.id /\ frame'.size = frame.size
      /\ frame'.off = frame.off + d /\ frame'.off <= frame.size
      /\ d \in Nat /\ frame.id > 0
      /\ Data(d) \in Seq(AllBytes)
  BY PieceEffect DEF WholeFrame
<1>2. d = frame.size /\ out' = Data(d)
      /\ UNCHANGED <<assembly, cap, up, attempt, timeout, sizes, excused>>
  BY DEF WholeFrame, rx, backoff, history
<1>3. frame.off = 0 /\ frame'.off = frame.size
  BY <1>1, <1>2, FrameTyped
<1>4. out' = Bytes(frame.id, 0, frame.size)
  BY <1>1, <1>2, <1>3 DEF Data
<1>5. TypeOK'
  BY <1>1, <1>2 DEF RxInv, TypeOK, FrameRecords
<1>6. Underway' /\ DeliversWholeFrames'
  BY <1>1, <1>2, <1>4, UnderwayKept, WholeDelivered
<1>7. Assembled'
  BY <1>1, <1>3, FrameTyped DEF Assembled
<1>. QED
  BY <1>3, <1>4, <1>5, <1>6, <1>7 DEF RxInv, Whole

\* The copy into the assembly, and its delivery when it is full.
LEMMA AppendEffect ==
    ASSUME NEW old, NEW c, NEW data, NEW joined, joined = old \o data,
           AppendPiece(old, c, data), Len(old) + Len(data) <= c
    PROVE  /\ Len(joined) >= c => /\ assembly' = <<>> /\ cap' = 0 /\ up' = FALSE
                                  /\ out' = joined
           /\ ~(Len(joined) >= c) => /\ assembly' = joined /\ cap' = c /\ up' = TRUE
                                     /\ out' = out
<1>1. CASE Len(joined) >= c
  BY <1>1, Zenon DEF AppendPiece
<1>2. CASE ~(Len(joined) >= c)
  BY <1>2, Zenon DEF AppendPiece
<1>. QED
  BY <1>1, <1>2

LEMMA FirstPieceHolds ==
    ASSUME RxInv, NEW d, FirstPiece(d)
    PROVE  RxInv' /\ frame'.off < frame'.size
<1>1. /\ frame' \in FrameRecords /\ frame'.id = frame.id /\ frame'.size = frame.size
      /\ frame'.off = frame.off + d /\ frame'.off <= frame.size
      /\ d \in Nat /\ d > 0 /\ frame.id > 0 /\ frame.size \in Nat
      /\ Data(d) \in Seq(AllBytes) /\ Len(Data(d)) = d
  BY PieceEffect, FrameTyped DEF FirstPiece
<1>2. d < frame.size /\ frame.off = 0 /\ UNCHANGED <<attempt, timeout, sizes>>
  BY DEF FirstPiece, backoff
<1>3. frame'.off = d /\ frame'.off < frame'.size
  BY <1>1, <1>2
<1>4. Underway'
  BY <1>1, <1>2, UnderwayKept
<1>5. CASE /\ frame.size <= RxMax
           /\ AppendPiece(<<>>, frame.size, Data(d))
           /\ UNCHANGED excused
  <2>1. <<>> \o Data(d) = Data(d) /\ Len(<<>>) + Len(Data(d)) <= frame.size
    <3>1. <<>> \o Data(d) = Data(d) /\ Len(<<>>) = 0
      BY <1>1, ConcatEmptySeq, EmptySeq
    <3>. QED
      BY <1>1, <1>2, <3>1
  <2>2. /\ assembly' = Data(d) /\ cap' = frame.size /\ up' = TRUE /\ out' = out
        /\ excused' = excused
    <3>1. Len(<<>>) + Len(Data(d)) <= frame.size /\ Data(d) = <<>> \o Data(d)
          /\ ~(Len(Data(d)) >= frame.size)
      BY <1>1, <1>2, <2>1
    <3>. QED
      BY <1>5, <3>1, AppendEffect, Zenon
  <2>3. Data(d) = Bytes(frame.id, 0, d)
    BY <1>1, <1>2 DEF Data
  <2>4. TypeOK'
    <3>1. cap' \in 0 .. RxMax /\ Len(assembly') <= cap' /\ up' \in BOOLEAN
      BY <1>1, <1>2, <1>5, <2>2, BufferAssumption
    <3>. QED
      BY <1>1, <1>2, <2>2, <3>1 DEF RxInv, TypeOK, FrameRecords
  <2>5. Assembled'
    BY <1>1, <1>3, <2>2, <2>3 DEF Assembled
  <2>6. DeliversWholeFrames'
    BY <1>2, <2>2, WholeKept
  <2>. QED
    BY <1>3, <1>4, <2>4, <2>5, <2>6 DEF RxInv
<1>6. CASE /\ assembly' = <<>> /\ cap' = 0 /\ up' = FALSE
           /\ excused' = TRUE /\ UNCHANGED out
  <2>1. TypeOK'
    <3>1. assembly' \in Seq(AllBytes) /\ Len(assembly') <= cap' /\ cap' \in 0 .. RxMax
      BY <1>6, EmptySeq, BufferAssumption
    <3>. QED
      BY <1>1, <1>2, <1>6, <3>1 DEF RxInv, TypeOK, FrameRecords
  <2>2. Assembled' /\ DeliversWholeFrames'
    BY <1>2, <1>6, WholeKept DEF Assembled
  <2>. QED
    BY <1>3, <1>4, <2>1, <2>2 DEF RxInv
<1>. QED
  BY <1>5, <1>6 DEF FirstPiece

\* The piece that completes the assembly delivers the frame.
LEMMA LaterPieceHolds ==
    ASSUME RxInv, NEW d, LaterPiece(d)
    PROVE  RxInv' /\ (frame'.off = frame'.size => out' = Whole(frame) \/ excused')
<1>1. /\ frame' \in FrameRecords /\ frame'.id = frame.id /\ frame'.size = frame.size
      /\ frame'.off = frame.off + d /\ frame'.off <= frame.size
      /\ d \in Nat /\ d > 0 /\ frame.id > 0 /\ frame.size \in Nat /\ frame.off \in Nat
      /\ frame.off < frame.size
      /\ Data(d) \in Seq(AllBytes) /\ Len(Data(d)) = d
  BY PieceEffect, FrameTyped DEF LaterPiece
<1>2. frame.off > 0 /\ UNCHANGED <<attempt, timeout, sizes, excused>>
  BY DEF LaterPiece, backoff, history
<1>3. Underway'
  BY <1>1, <1>2, UnderwayKept
<1>4. CASE ~up
  <2>1. UNCHANGED <<assembly, cap, up, out>>
    BY <1>4 DEF LaterPiece, rx
  <2>2. excused
    BY <1>1, <1>2, <1>4 DEF RxInv, Assembled
  <2>3. TypeOK'
    BY <1>1, <1>2, <2>1 DEF RxInv, TypeOK, FrameRecords
  <2>4. Assembled' /\ DeliversWholeFrames'
    BY <1>2, <1>4, <2>1, <2>2, WholeKept DEF Assembled
  <2>. QED
    BY <1>2, <1>3, <2>2, <2>3, <2>4 DEF RxInv
<1>5. CASE up
  <2> DEFINE n == frame.off + d
             joined == Bytes(frame.id, 0, n)
  <2>1. cap = frame.size /\ assembly = Bytes(frame.id, 0, frame.off)
    BY <1>1, <1>2, <1>5 DEF RxInv, Assembled
  <2>2. /\ frame.id \in 0 .. MaxFrames /\ frame.off \in 0 .. MaxPayload /\ n \in 0 .. MaxPayload
        /\ n \in Nat /\ frame.off <= n /\ n <= frame.size /\ 0 \in Nat
    <3>1. frame.id \in 0 .. MaxFrames /\ frame.size \in 0 .. MaxPayload /\ MaxPayload \in Nat
      BY FrameTyped DEF FrameRecords
    <3>. QED
      BY <1>1, <3>1
  <2>3. assembly \o Data(d) = joined
    <3>1. Bytes(frame.id, 0, frame.off) \o Bytes(frame.id, frame.off, n) = Bytes(frame.id, 0, n)
      <4>1. 0 <= frame.off
        BY <1>1
      <4> HIDE DEF n
      <4>. QED
        BY <1>1, <2>2, <4>1, BytesJoined, Zenon
    <3>. QED
      BY <2>1, <3>1 DEF Data
  <2>4. joined \in Seq(AllBytes) /\ Len(joined) = n
    <3>1. 0 <= n /\ n - 0 = n
      BY <2>2
    <3> HIDE DEF n
    <3>2. Bytes(frame.id, 0, n) \in Seq(AllBytes) /\ Len(Bytes(frame.id, 0, n)) = n - 0
      BY <2>2, <3>1, BytesTyped
    <3>. QED
      BY <3>1, <3>2
  <2>5. Len(assembly) = frame.off
    <3>1. 0 <= frame.off
      BY <1>1
    <3> HIDE DEF n
    <3>2. Len(Bytes(frame.id, 0, frame.off)) = frame.off - 0
      BY <2>2, <3>1, BytesTyped, Zenon
    <3>. QED
      BY <1>1, <2>1, <3>2
  <2> HIDE DEF joined
  <2>6. AppendPiece(assembly, frame.size, Data(d))
    BY <1>5, <2>1 DEF LaterPiece
  <2>7. Len(assembly) + Len(Data(d)) <= frame.size
    BY <1>1, <2>2, <2>5
  <2>8. CASE n = frame.size
    <3>1. assembly' = <<>> /\ cap' = 0 /\ up' = FALSE /\ out' = joined
      <4>1. Len(joined) >= frame.size
        BY <1>1, <2>4, <2>8
      <4>. QED
        BY <2>3, <2>6, <2>7, <4>1, AppendEffect, Zenon
    <3>2. joined = Bytes(frame.id, 0, frame.size)
      BY <2>8 DEF joined
    <3>3. TypeOK'
      <4>1. assembly' \in Seq(AllBytes) /\ Len(assembly') <= cap' /\ cap' \in 0 .. RxMax
        BY <3>1, EmptySeq, BufferAssumption
      <4>. QED
        BY <1>1, <1>2, <2>4, <3>1, <4>1 DEF RxInv, TypeOK, FrameRecords
    <3>4. Assembled'
      BY <1>1, <2>8 DEF Assembled
    <3>5. DeliversWholeFrames'
      BY <1>1, <1>2, <3>1, <3>2, WholeDelivered
    <3>. QED
      BY <1>3, <3>1, <3>2, <3>3, <3>4, <3>5 DEF RxInv, Whole
  <2>9. CASE n # frame.size
    <3>1. ~(n >= frame.size)
      BY <1>1, <2>2, <2>9
    <3>2. assembly' = joined /\ cap' = frame.size /\ up' = TRUE /\ out' = out
      <4>1. ~(Len(joined) >= frame.size)
        BY <2>4, <3>1
      <4>. QED
        BY <2>3, <2>6, <2>7, <4>1, AppendEffect, Zenon
    <3>3. TypeOK'
      <4>1. Len(assembly') <= cap' /\ cap' \in 0 .. RxMax
        BY <2>1, <2>2, <2>4, <3>2 DEF RxInv, TypeOK
      <4>. QED
        BY <1>1, <1>2, <2>4, <3>2, <4>1 DEF RxInv, TypeOK, FrameRecords
    <3>4. Assembled'
      BY <1>1, <3>2 DEF Assembled, joined
    <3>5. DeliversWholeFrames'
      BY <1>2, <3>2, WholeKept
    <3>. QED
      BY <1>1, <1>3, <2>9, <3>3, <3>4, <3>5 DEF RxInv
  <2>. QED
    BY <2>8, <2>9
<1>. QED
  BY <1>4, <1>5

LEMMA BackoffHolds ==
    ASSUME RxInv
    PROVE  /\ ApplyBackoff => attempt' \in 0 .. (Len(Backoff) - 1)
                              /\ timeout' \in {Backoff[i] : i \in DOMAIN Backoff}
           /\ 0 \in 0 .. (Len(Backoff) - 1)
           /\ Backoff[1] \in {Backoff[i] : i \in DOMAIN Backoff}
<1>1. Len(Backoff) \in Nat \ {0} /\ DOMAIN Backoff = 1 .. Len(Backoff)
  BY BackoffAssumption, LenProperties, EmptySeq
<1>2. attempt \in 0 .. (Len(Backoff) - 1)
  BY DEF RxInv, TypeOK
<1>3. attempt + 1 \in DOMAIN Backoff /\ 1 \in DOMAIN Backoff
  BY <1>1, <1>2
<1>. QED
  BY <1>1, <1>2, <1>3 DEF ApplyBackoff

LEMMA LinkHolds == ASSUME RxInv, Disconnected \/ Connected PROVE RxInv'
<1>1. attempt' \in 0 .. (Len(Backoff) - 1) /\ timeout' \in {Backoff[i] : i \in DOMAIN Backoff}
  BY BackoffHolds DEF Disconnected, Connected
<1>2. UNCHANGED <<assembly, cap, up, out, sizes>>
  BY DEF Disconnected, Connected, rx, history
<1>3. /\ frame' \in FrameRecords /\ frame'.id = frame.id /\ frame'.size = frame.size
      /\ (frame'.off = frame.size \/ (frame'.off = frame.off /\ excused' = excused))
      /\ excused' \in BOOLEAN
  <2>1. frame \in FrameRecords /\ excused \in BOOLEAN
    BY FrameTyped DEF RxInv, TypeOK
  <2>. QED
    BY <2>1 DEF Disconnected, Connected, history, FrameRecords
<1>4. TypeOK'
  BY <1>1, <1>2, <1>3 DEF RxInv, TypeOK, FrameRecords
<1>5. Underway'
  <2>1. frame'.off <= frame.size
    BY <1>3, FrameTyped
  <2>. QED
    BY <1>2, <1>3, <2>1, UnderwayKept
<1>6. Assembled'
  BY <1>2, <1>3, FrameTyped DEF RxInv, Assembled
<1>7. DeliversWholeFrames'
  BY <1>2, WholeKept
<1>. QED
  BY <1>4, <1>5, <1>6, <1>7 DEF RxInv

LEMMA InitHolds == Init => RxInv
<1>1. SUFFICES ASSUME Init PROVE RxInv
  OBVIOUS
<1>2. /\ Len(Backoff) \in Nat \ {0} /\ DOMAIN Backoff = 1 .. Len(Backoff)
      /\ <<>> \in Seq(AllBytes) /\ <<>> \in Seq(1..MaxPayload) /\ Len(<<>>) = 0
  BY BackoffAssumption, LenProperties, EmptySeq
<1>3. 1 \in DOMAIN Backoff
  BY <1>2
<1>4. TypeOK
  <2>1. 0 \in 0 .. MaxFrames /\ 0 \in 0 .. MaxPayload /\ 0 \in 0 .. RxMax
        /\ 0 \in 0 .. (Len(Backoff) - 1)
    BY <1>2, FramesAssumption, BufferAssumption
  <2>2. timeout \in {Backoff[i] : i \in DOMAIN Backoff}
    BY <1>1, <1>3 DEF Init
  <2>3. frame \in FrameRecords
    BY <1>1, <2>1 DEF Init, FrameRecords
  <2>4. Len(assembly) <= cap
    BY <1>1, <1>2 DEF Init
  <2>. QED
    BY <1>1, <1>2, <2>1, <2>2, <2>3, <2>4 DEF Init, TypeOK, FrameRecords
<1>. QED
  BY <1>1, <1>2, <1>4 DEF Init, RxInv, Underway, Assembled, DeliversWholeFrames

LEMMA NextHolds == RxInv /\ [Next]_vars => RxInv'
<1>1. SUFFICES ASSUME RxInv, [Next]_vars PROVE RxInv'
  OBVIOUS
<1>2. CASE UNCHANGED vars
  BY <1>1, <1>2 DEF vars, RxInv, TypeOK, Underway, Assembled, DeliversWholeFrames
<1>3. CASE Next
  BY <1>1, <1>3, NextFrameHolds, WholeFrameHolds, FirstPieceHolds, LaterPieceHolds, LinkHolds
     DEF Next
<1>. QED
  BY <1>1, <1>2, <1>3

-----------------------------------------------------------------------------
(* The theorems.                                                           *)

\* The invariant of the reception holds.
THEOREM RxInvariant == Spec => []RxInv
BY InitHolds, NextHolds, PTL DEF Spec

\* What is put together never exceeds its buffer, nor the buffer WS_RX_MAX; the
\* index into the backoff table never leaves it (handle_text_frame).
THEOREM RxTypes == Spec => []TypeOK
<1>1. RxInv => TypeOK
  BY DEF RxInv
<1>. QED
  BY <1>1, RxInvariant, PTL

\* The worker gets whole frames only, whatever a lost connection, a failed malloc
\* or the size limit left behind (newt_ws.c:151-183).
THEOREM WholeFramesOnly == Spec => []DeliversWholeFrames
<1>1. RxInv => DeliversWholeFrames
  BY DEF RxInv
<1>. QED
  BY <1>1, RxInvariant, PTL

\* The last piece of a frame delivers it, unless it may be dropped
\* (handle_text_frame).
THEOREM LastPieceDelivers == Spec => NoFrameVanishes
<1>1. RxInv /\ [Next]_vars =>
        [ ~FrameDone /\ frame'.id = frame.id /\ frame'.off = frame'.size
            => out' = Whole(frame) \/ excused' ]_vars
  <2>1. SUFFICES ASSUME RxInv, Next, ~FrameDone, frame'.id = frame.id,
                        frame'.off = frame'.size
                 PROVE  out' = Whole(frame) \/ excused'
    OBVIOUS
  <2>2. CASE NextFrame
    BY <2>1, <2>2 DEF NextFrame
  <2>3. ASSUME NEW d, FirstPiece(d) PROVE FALSE
    <3>1. frame'.off < frame'.size /\ RxInv'
      BY <2>1, <2>3, FirstPieceHolds
    <3>. QED
      BY <2>1, <3>1 DEF RxInv, TypeOK
  <2>4. CASE Disconnected
    BY <2>4 DEF Disconnected
  <2>5. CASE Connected
    <3>1. frame' = frame
      BY <2>5 DEF Connected
    <3>. QED
      BY <2>1, <3>1 DEF FrameDone
  <2>. QED
    BY <2>1, <2>2, <2>3, <2>4, <2>5, WholeFrameHolds, LaterPieceHolds DEF Next
<1>. QED
  BY <1>1, RxInvariant, PTL DEF Spec, NoFrameVanishes
=============================================================================
