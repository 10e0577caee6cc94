----------------------------- MODULE MCNewtConfig -----------------------------
(* Instance of NewtConfig, and of NewtProto inside it, for TLC: the         *)
(* supervisor and a reconnect task that may run again.                       *)
EXTENDS NewtConfig

CONSTANTS reconn

MCSenders == {Sup, reconn}
MCNodes == {1}

\* The history variables never go back to FALSE; a state needs no successors
\* where neither property of the configuration can fail any more, or where the
\* chain ids are garbled.
UntilSettled == ~raced /\ ~(overwrites /\ (unasked \/ early))
=============================================================================
