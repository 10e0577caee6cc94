------------------------------- MODULE NewtAuth -------------------------------
(***************************************************************************)
(* One HTTP request of src/src/newt_auth.c: the response is gathered chunk *)
(* by chunk in a buffer that doubles up to a limit, and after a good       *)
(* status the wanted fields are copied out one after the other.  A request *)
(* for a token has one field, a registration two.                          *)
(*                                                                         *)
(* Abstractions: a chunk is its length; a field of the parsed JSON is its  *)
(* length, or missing.                                                     *)
(***************************************************************************)
EXTENDS Integers, Sequences

CONSTANTS
    InitCap,    \* RESP_INIT_CAP
    MaxCap,     \* RESP_MAX_CAP
    MaxChunk,   \* bound on the length of one chunk
    MaxReceived,\* bound on the length of the response
    OutSizes    \* sizes of the caller's buffers, one for each wanted field

ASSUME CapAssumption ==
    InitCap \in Nat \ {0} /\ MaxCap \in Nat /\ InitCap <= MaxCap
ASSUME ChunkAssumption == MaxChunk \in Nat \ {0} /\ MaxReceived \in Nat
ASSUME OutAssumption == OutSizes \in Seq(Nat \ {0})

VARIABLES
    phase,      \* "idle", "perform", "copy", "ok" or "err"
    len,        \* r.len
    cap,        \* r.cap, 0 when r.buf is NULL
    oom,        \* r.oom
    received,   \* history: bytes the server has sent
    copied      \* lengths of the fields copied so far

vars == <<phase, len, cap, oom, received, copied>>

TypeOK ==
    /\ phase \in {"idle", "perform", "copy", "ok", "err"}
    /\ len \in Nat
    /\ cap \in 0..MaxCap
    /\ oom \in BOOLEAN
    /\ received \in Nat
    /\ copied \in Seq(Nat)
    /\ Len(copied) <= Len(OutSizes)

Init ==
    /\ phase = "idle"
    /\ len = 0
    /\ cap = 0
    /\ oom = FALSE
    /\ received = 0
    /\ copied = <<>>

\* newt_auth_get_token or newt_auth_register_with_provisioning_key is called,
\* again after a failure.
Request ==
    /\ phase \in {"idle", "ok", "err"}
    /\ phase' = "perform"
    /\ len' = 0
    /\ cap' = 0
    /\ oom' = FALSE
    /\ received' = 0
    /\ copied' = <<>>

Base == IF cap = 0 THEN InitCap ELSE cap

\* Where doubling the capacity stops, no more often than needed.
Doubled(need, c) ==
    /\ \E i \in 0..MaxCap : c = Base * 2^i
    /\ need <= c
    /\ c = Base \/ c < 2 * need

\* Faulty variant: the doubled capacity is not cut to the limit.
GrowsUncut(need) ==
    IF need <= cap THEN UNCHANGED cap
    ELSE \E c \in 1..(2 * MaxCap) : Doubled(need, c) /\ cap' = c

\* The buffer doubles from what it is, or from RESP_INIT_CAP, until it holds
\* `need', and is then cut to the limit.
Grows(need) ==
    IF need <= cap THEN UNCHANGED cap
    ELSE \E c \in 1..(2 * MaxCap) :
            /\ Doubled(need, c)
            /\ cap' = IF c > MaxCap THEN MaxCap ELSE c

\* Faulty variant: no room is kept for the NUL.
ChunkFitsWithoutNul(n) ==
    /\ len + n <= MaxCap
    /\ Grows(len + n)
    /\ len' = len + n
    /\ UNCHANGED oom

\* resp_append: a chunk that would pass the limit is dropped and remembered;
\* a later, shorter one may still be appended.
ChunkFits(n) ==
    /\ len + n + 1 <= MaxCap
    /\ Grows(len + n + 1)
    /\ len' = len + n
    /\ UNCHANGED oom

ChunkDropped(n) ==
    /\ \/ len + n + 1 > MaxCap
       \/ len + n + 1 > cap                 \* realloc failed
    /\ oom' = TRUE
    /\ UNCHANGED <<len, cap>>

Chunk ==
    /\ phase = "perform"
    /\ \E n \in 1..MaxChunk :
          /\ received + n <= MaxReceived
          /\ received' = received + n
          /\ ChunkFits(n) \/ ChunkDropped(n)
    /\ UNCHANGED <<phase, copied>>

\* esp_http_client_perform fails, the status is not good, the response was too
\* large, or it does not parse.
PerformFails ==
    /\ phase = "perform"
    /\ phase' = "err"
    /\ UNCHANGED <<len, cap, oom, received, copied>>

\* Faulty variant: the dropped chunk is forgotten.
ParsedDespiteDrop ==
    /\ phase = "perform"
    /\ len > 0
    /\ phase' = IF OutSizes = <<>> THEN "ok" ELSE "copy"
    /\ UNCHANGED <<len, cap, oom, received, copied>>

Parsed ==
    /\ phase = "perform"
    /\ ~oom
    /\ len > 0
    /\ phase' = IF OutSizes = <<>> THEN "ok" ELSE "copy"
    /\ UNCHANGED <<len, cap, oom, received, copied>>

\* Faulty variant: the terminating NUL is not counted.
CopyFieldWithoutNul ==
    /\ phase = "copy"
    /\ \E n \in 0..len :
          /\ n <= OutSizes[Len(copied) + 1]
          /\ copied' = Append(copied, n)
    /\ phase' = IF Len(copied') = Len(OutSizes) THEN "ok" ELSE "copy"
    /\ UNCHANGED <<len, cap, oom, received>>

\* copy_field with its terminating NUL.
CopyField ==
    /\ phase = "copy"
    /\ \E n \in 0..len :
          /\ n + 1 <= OutSizes[Len(copied) + 1]
          /\ copied' = Append(copied, n)
    /\ phase' = IF Len(copied') = Len(OutSizes) THEN "ok" ELSE "copy"
    /\ UNCHANGED <<len, cap, oom, received>>

\* The field is missing or too long; fields copied before stay written.
CopyFails ==
    /\ phase = "copy"
    /\ phase' = "err"
    /\ UNCHANGED <<len, cap, oom, received, copied>>

Next == Request \/ Chunk \/ PerformFails \/ Parsed \/ CopyField \/ CopyFails

Spec == Init /\ [][Next]_vars

-----------------------------------------------------------------------------
(* Properties.                                                             *)

\* However the response is cut into chunks, the bytes gathered and their
\* terminating NUL lie inside the buffer (newt_auth.c:26-45).
BufferHoldsResponse == len = 0 \/ len + 1 <= cap

\* What is parsed is the whole response: a chunk that did not fit is never
\* papered over by later ones that did (newt_auth.c:27-30, 83-86).
ParsesWholeResponse == phase \in {"copy", "ok"} => len = received

\* A request that succeeds has written every output, each within its buffer
\* (newt_auth.c:90-99, 237-243).
SuccessIsComplete ==
    phase = "ok" =>
        /\ Len(copied) = Len(OutSizes)
        /\ \A i \in DOMAIN OutSizes : copied[i] + 1 <= OutSizes[i]
=============================================================================
