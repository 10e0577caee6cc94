-------------------------------- MODULE WsInbox --------------------------------
(***************************************************************************)
(* What the WebSocket receive path promises its user, without tasks,       *)
(* queue handles or semaphores: a bounded inbox in arrival order, one      *)
(* message being handled at a time, each accepted message handled at most  *)
(* once, nothing taken once closing has begun, and no handler running when *)
(* the inbox has closed.                                                   *)
(***************************************************************************)
EXTENDS Naturals, Sequences

CONSTANTS Msgs, NULL, Capacity

VARIABLES
    phase,      \* "down", "up" or "closing"
    pending,    \* accepted and not yet taken, oldest first
    taken,      \* the message being handled, NULL when there is none
    running     \* on_msg has been called for it

vars == <<phase, pending, taken, running>>

Init ==
    /\ phase = "down"
    /\ pending = <<>>
    /\ taken = NULL
    /\ running = FALSE

Open ==
    /\ phase = "down"
    /\ phase' = "up"
    /\ UNCHANGED <<pending, taken, running>>

Accept ==
    /\ phase = "up"
    /\ Len(pending) < Capacity
    /\ \E m \in Msgs :
          /\ m # taken
          /\ \A i \in DOMAIN pending : pending[i] # m
          /\ pending' = Append(pending, m)
    /\ UNCHANGED <<phase, taken, running>>

Take ==
    /\ phase = "up"
    /\ taken = NULL
    /\ pending # <<>>
    /\ taken' = Head(pending)
    /\ pending' = Tail(pending)
    /\ UNCHANGED <<phase, running>>

Call ==
    /\ taken # NULL
    /\ ~running
    /\ running' = TRUE
    /\ UNCHANGED <<phase, pending, taken>>

\* on_msg returned, or the message was dropped without a call
Finish ==
    /\ taken # NULL
    /\ taken' = NULL
    /\ running' = FALSE
    /\ UNCHANGED <<phase, pending>>

BeginClose ==
    /\ phase = "up"
    /\ phase' = "closing"
    /\ pending' = <<>>
    /\ UNCHANGED <<taken, running>>

Close ==
    /\ phase = "closing"
    /\ taken = NULL
    /\ phase' = "down"
    /\ UNCHANGED <<pending, taken, running>>

Next == Open \/ Accept \/ Take \/ Call \/ Finish \/ BeginClose \/ Close

\* A message is not left waiting while the inbox is up, a handler ends, and a
\* closing inbox closes.
Spec ==
    /\ Init
    /\ [][Next]_vars
    /\ WF_vars(Take)
    /\ WF_vars(Finish)
    /\ WF_vars(Close)
=============================================================================
