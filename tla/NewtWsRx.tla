------------------------------- MODULE NewtWsRx -------------------------------
(***************************************************************************)
(* ws_event_handler of src/src/newt_ws.c: putting text frames together     *)
(* from the pieces the WebSocket client delivers, and the reconnect        *)
(* backoff.  The client (external) hands over the bytes of one frame in    *)
(* order, in pieces of any length up to its buffer, and starts with a new  *)
(* frame after a connection was lost in the middle of one.                 *)
(*                                                                         *)
(* Abstractions: lengths are counted in units of the client's choice; a    *)
(* byte is its frame's number and its place in it, so that bytes of two    *)
(* frames can be told apart.                                               *)
(***************************************************************************)
EXTENDS Integers, Sequences

CONSTANTS
    MaxFrames,      \* bound on the number of frames the server sends
    MaxPayload,     \* longest frame the server sends
    BufferSize,     \* WS_BUFFER_SIZE: longest piece of one event
    RxMax,          \* WS_RX_MAX: longest frame that is put together
    Backoff         \* s_backoff_ms, numbered from 1

ASSUME FramesAssumption == MaxFrames \in Nat /\ MaxPayload \in Nat
ASSUME BufferAssumption == BufferSize \in Nat \ {0} /\ RxMax \in Nat
ASSUME BackoffAssumption == Backoff \in Seq(Nat) /\ Backoff # <<>>

VARIABLES
    frame,      \* external: the frame under way, [id, size, off]
    assembly,   \* s_rx_assembly[0 .. s_rx_assembly_len), <<>> when NULL
    cap,        \* s_rx_assembly_cap
    up,         \* s_rx_assembly # NULL
    out,        \* the payload enqueue_payload was called with last
    attempt,    \* s_attempt
    timeout,    \* the client's reconnect timeout
    sizes,      \* history: the size of every frame sent
    excused     \* history: the frame under way may be dropped

rx == <<assembly, cap, up>>
backoff == <<attempt, timeout>>
history == <<sizes, excused>>
vars == <<frame, assembly, cap, up, out, attempt, timeout, sizes, excused>>

Bytes(id, first, last) == [i \in 1..(last - first) |-> <<id, first + i>>]
Whole(f) == Bytes(f.id, 0, f.size)
AllBytes == (0..MaxFrames) \X (1..MaxPayload)

TypeOK ==
    /\ frame \in [id : 0..MaxFrames, size : 0..MaxPayload, off : 0..MaxPayload]
    /\ assembly \in Seq(AllBytes)
    /\ Len(assembly) <= cap
    /\ cap \in 0..RxMax
    /\ up \in BOOLEAN
    /\ out \in Seq(AllBytes)
    /\ attempt \in 0..(Len(Backoff) - 1)
    /\ timeout \in {Backoff[i] : i \in DOMAIN Backoff}
    /\ sizes \in Seq(1..MaxPayload)
    /\ excused \in BOOLEAN

\* After newt_ws_init and newt_ws_start.
Init ==
    /\ frame = [id |-> 0, size |-> 0, off |-> 0]
    /\ assembly = <<>>
    /\ cap = 0
    /\ up = FALSE
    /\ out = <<>>
    /\ attempt = 0
    /\ timeout = Backoff[1]
    /\ sizes = <<>>
    /\ excused = FALSE

FrameDone == frame.off = frame.size

\* External: the server's next frame starts to arrive.
NextFrame ==
    /\ FrameDone
    /\ frame.id < MaxFrames
    /\ \E s \in 1..MaxPayload :
          /\ frame' = [id |-> frame.id + 1, size |-> s, off |-> 0]
          /\ sizes' = Append(sizes, s)
    /\ excused' = FALSE
    /\ UNCHANGED <<rx, out, backoff>>

\* One WEBSOCKET_EVENT_DATA carries the next d bytes of the frame.
Piece(d) ==
    /\ ~FrameDone
    /\ d \in 1..BufferSize
    /\ frame.off + d <= frame.size
    /\ frame' = [frame EXCEPT !.off = @ + d]

Data(d) == Bytes(frame.id, frame.off, frame.off + d)

\* handle_text_frame: payload_len = data_len, the frame came in one piece.
WholeFrame(d) ==
    /\ Piece(d)
    /\ d = frame.size
    /\ out' = Data(d)
    /\ UNCHANGED <<rx, backoff, history>>

\* Faulty variant: a full assembly is not recognised.
AppendPieceBeyond(old, c, data) ==
    LET joined == IF Len(old) + Len(data) <= c THEN old \o data ELSE old
    IN /\ assembly' = joined
       /\ cap' = c
       /\ up' = TRUE
       /\ UNCHANGED out

\* The copy into the assembly, and its delivery when it is full.
AppendPiece(old, c, data) ==
    LET joined == IF Len(old) + Len(data) <= c THEN old \o data ELSE old
        full == Len(joined) >= c
    IN /\ assembly' = IF full THEN <<>> ELSE joined
       /\ cap' = IF full THEN 0 ELSE c
       /\ up' = ~full
       /\ out' = IF full THEN joined ELSE out

\* Faulty variant: what is left of an earlier frame is kept.
FirstPieceKeepsOld(d) ==
    /\ Piece(d)
    /\ d < frame.size
    /\ frame.off = 0
    /\ frame.size <= RxMax
    /\ AppendPiece(assembly, frame.size, Data(d))
    /\ UNCHANGED <<backoff, history>>

\* payload_offset = 0 frees what was there; the new assembly is refused when
\* it is too large, and may not be had.
FirstPiece(d) ==
    /\ Piece(d)
    /\ d < frame.size
    /\ frame.off = 0
    /\ \/ /\ frame.size <= RxMax
          /\ AppendPiece(<<>>, frame.size, Data(d))
          /\ UNCHANGED excused
       \/ /\ assembly' = <<>>
          /\ cap' = 0
          /\ up' = FALSE
          /\ excused' = TRUE
          /\ UNCHANGED out
    /\ UNCHANGED <<backoff, sizes>>

LaterPiece(d) ==
    /\ Piece(d)
    /\ frame.off > 0
    /\ IF up THEN AppendPiece(assembly, cap, Data(d))
             ELSE UNCHANGED <<rx, out>>
    /\ UNCHANGED <<backoff, history>>

\* The connection is lost, perhaps inside a frame whose rest never comes:
\* WEBSOCKET_EVENT_DISCONNECTED or WEBSOCKET_EVENT_ERROR.
ApplyBackoff ==
    /\ timeout' = Backoff[attempt + 1]
    /\ attempt' = IF attempt < Len(Backoff) - 1 THEN attempt + 1 ELSE attempt

Disconnected ==
    /\ ApplyBackoff
    /\ frame' = [frame EXCEPT !.off = frame.size]
    /\ excused' = TRUE
    /\ UNCHANGED <<rx, out, sizes>>

Connected ==
    /\ attempt' = 0
    /\ timeout' = Backoff[1]
    /\ UNCHANGED <<frame, rx, out, history>>

Next ==
    \/ NextFrame
    \/ \E d \in 1..BufferSize : WholeFrame(d) \/ FirstPiece(d) \/ LaterPiece(d)
    \/ Disconnected
    \/ Connected

Spec == Init /\ [][Next]_vars

-----------------------------------------------------------------------------
(* Properties.                                                             *)

\* What the worker gets is always one whole frame, never bytes of two frames
\* or a part of one, whatever was left over from a frame that a lost
\* connection, a failed malloc or the size limit cut short (newt_ws.c:151-183).
DeliversWholeFrames ==
    out = <<>> \/ \E id \in DOMAIN sizes : out = Bytes(id, 0, sizes[id])

\* A frame whose last piece arrives has been enqueued, unless the connection
\* was lost, it was too large or no memory could be had for it.
NoFrameVanishes ==
    [][ ~FrameDone /\ frame'.id = frame.id /\ frame'.off = frame'.size
        => out' = Whole(frame) \/ excused' ]_vars
=============================================================================
