---------------------------- MODULE NewtAuthProofs ----------------------------
(***************************************************************************)
(* Proofs about NewtAuth, for every capacity, chunk and output size.       *)
(***************************************************************************)
EXTENDS NewtAuth, TLAPS

\* What the phases say of the buffer and the outputs: bytes gathered never
\* exceed bytes sent and fall behind only when a chunk was dropped, and every
\* field copied fits where it went.
Gathered == oom = FALSE => len = received
FieldsFit == \A i \in 1..Len(copied) : copied[i] + 1 <= OutSizes[i]
NothingDropped == phase \in {"copy", "ok"} => ~oom
CopyingInOrder ==
    /\ phase = "copy" => Len(copied) < Len(OutSizes)
    /\ phase = "ok" => Len(copied) = Len(OutSizes)
    /\ phase = "perform" => copied = <<>>

IInv ==
    /\ TypeOK
    /\ BufferHoldsResponse
    /\ Gathered
    /\ FieldsFit
    /\ NothingDropped
    /\ CopyingInOrder

\* A grown buffer holds what it was grown for and never passes RESP_MAX_CAP
\* (resp_append, newt_auth.c:31-36).
LEMMA GrowthHolds ==
    ASSUME TypeOK, NEW need \in Nat, need <= MaxCap, Grows(need)
    PROVE  need <= cap' /\ cap' \in 0..MaxCap
BY CapAssumption DEF TypeOK, Grows, Doubled

LEMMA InitHolds == Init => IInv
<1> SUFFICES ASSUME Init PROVE IInv
  OBVIOUS
<1>1. copied = <<>> /\ copied \in Seq(Nat) /\ Len(copied) = 0
  BY DEF Init
<1>2. Len(OutSizes) \in Nat
  BY OutAssumption
<1>3. cap \in 0..MaxCap /\ Len(copied) <= Len(OutSizes)
  BY <1>1, <1>2, CapAssumption DEF Init
<1>4. oom \in BOOLEAN /\ phase \in {"idle", "perform", "copy", "ok", "err"}
  BY Zenon DEF Init
<1>5. TypeOK
  BY <1>1, <1>3, <1>4 DEF Init, TypeOK
<1>. QED
  BY <1>1, <1>5
     DEF Init, IInv, BufferHoldsResponse, Gathered, FieldsFit, NothingDropped,
         CopyingInOrder

LEMMA ChunkKeeps == ASSUME IInv, Chunk PROVE IInv'
<1>1. PICK n \in 1..MaxChunk : received' = received + n /\ (ChunkFits(n) \/ ChunkDropped(n))
  BY DEF Chunk
<1>2. n \in Nat /\ n > 0
  BY ChunkAssumption
<1>3. len \in Nat /\ received \in Nat /\ cap \in 0..MaxCap
  BY DEF IInv, TypeOK
<1>4. CASE ChunkFits(n)
  <2>1. len + n + 1 \in Nat /\ len + n + 1 <= MaxCap /\ Grows(len + n + 1)
    BY <1>2, <1>3, <1>4 DEF ChunkFits
  <2>2. len + n + 1 <= cap' /\ cap' \in 0..MaxCap
    BY <2>1, GrowthHolds DEF IInv
  <2>3. len' = len + n /\ oom' = oom
    BY <1>4 DEF ChunkFits
  <2>. QED
    BY <1>1, <1>2, <1>3, <2>2, <2>3
       DEF IInv, TypeOK, BufferHoldsResponse, Gathered, FieldsFit,
           NothingDropped, CopyingInOrder, Chunk
<1>5. CASE ChunkDropped(n)
  BY <1>1, <1>2, <1>3, <1>5
     DEF IInv, TypeOK, BufferHoldsResponse, Gathered, FieldsFit,
         NothingDropped, CopyingInOrder, Chunk, ChunkDropped
<1>. QED
  BY <1>1, <1>4, <1>5

LEMMA CopyFieldKeeps == ASSUME IInv, CopyField PROVE IInv'
<1>1. PICK n \in 0..len : n + 1 <= OutSizes[Len(copied) + 1] /\ copied' = Append(copied, n)
  BY DEF CopyField
<1>2. n \in Nat /\ copied \in Seq(Nat)
  BY DEF IInv, TypeOK
<1>3. /\ copied' \in Seq(Nat)
      /\ Len(copied') = Len(copied) + 1
      /\ \A i \in 1..Len(copied') : copied'[i] = IF i <= Len(copied) THEN copied[i] ELSE n
  BY <1>1, <1>2
<1>4. Len(copied') <= Len(OutSizes) /\ Len(OutSizes) \in Nat
  BY <1>2, <1>3, OutAssumption DEF IInv, CopyingInOrder, CopyField
<1>5. FieldsFit'
  BY <1>1, <1>2, <1>3 DEF IInv, FieldsFit
<1>. QED
  BY <1>2, <1>3, <1>4, <1>5
     DEF IInv, TypeOK, BufferHoldsResponse, Gathered, NothingDropped,
         CopyingInOrder, CopyField

LEMMA StepKeeps == IInv /\ [Next]_vars => IInv'
<1> SUFFICES ASSUME IInv, [Next]_vars PROVE IInv'
  OBVIOUS
<1> USE DEF IInv, TypeOK, BufferHoldsResponse, Gathered, FieldsFit,
            NothingDropped, CopyingInOrder
<1>1. CASE Request
  <2>1. copied' = <<>> /\ copied' \in Seq(Nat) /\ Len(copied') = 0
    BY <1>1 DEF Request
  <2>2. cap' \in 0..MaxCap /\ Len(copied') <= Len(OutSizes)
    BY <1>1, <2>1, CapAssumption, OutAssumption DEF Request
  <2>3. oom' \in BOOLEAN
    BY <1>1, Zenon DEF Request
  <2>. QED
    BY <1>1, <2>1, <2>2, <2>3 DEF Request
<1>2. CASE Chunk
  BY <1>2, ChunkKeeps
<1>3. CASE PerformFails
  BY <1>3 DEF PerformFails
<1>4. CASE Parsed
  BY <1>4, OutAssumption DEF Parsed
<1>5. CASE CopyField
  BY <1>5, CopyFieldKeeps
<1>6. CASE CopyFails
  BY <1>6 DEF CopyFails
<1>7. CASE UNCHANGED vars
  BY <1>7 DEF vars
<1>. QED
  BY <1>1, <1>2, <1>3, <1>4, <1>5, <1>6, <1>7 DEF Next

LEMMA Invariance == Spec => []IInv
BY InitHolds, StepKeeps, PTL DEF Spec

\* The variables of a request keep their types and bounds (newt_auth.c:18-23).
THEOREM TypeCorrect == Spec => []TypeOK
BY Invariance, PTL DEF IInv

\* The terminating NUL always lies inside the buffer (newt_auth.c:26-45).
THEOREM BufferSafe == Spec => []BufferHoldsResponse
BY Invariance, PTL DEF IInv

\* A response with a dropped chunk is never parsed (newt_auth.c:27-30, 83-86).
THEOREM WholeResponse == Spec => []ParsesWholeResponse
<1>1. IInv => ParsesWholeResponse
  BY DEF IInv, ParsesWholeResponse, Gathered, NothingDropped, TypeOK
<1>. QED
  BY <1>1, Invariance, PTL

\* Success means that every output was written within its buffer
\* (newt_auth.c:90-99, 236-247).
THEOREM CompleteSuccess == Spec => []SuccessIsComplete
<1>1. IInv => SuccessIsComplete
  BY OutAssumption DEF IInv, SuccessIsComplete, FieldsFit, CopyingInOrder, TypeOK
<1>. QED
  BY <1>1, Invariance, PTL
=============================================================================
