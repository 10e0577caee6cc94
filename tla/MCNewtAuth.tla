------------------------------ MODULE MCNewtAuth ------------------------------
(* Instance of NewtAuth for TLC: a buffer of 2 that grows to at most 9, a    *)
(* limit that is no power-of-two multiple of it, and a registration.         *)
EXTENDS NewtAuth

MCOutSizes == <<3, 5>>
=============================================================================
