------------------------------ MODULE MCWgSession ------------------------------
(* Instances of WgSession for TLC: the device, which connects, and the       *)
(* server, which answers; time in units of REKEY_TIMEOUT, shortened so that  *)
(* its limits keep their order.                                              *)
EXTENDS WgSession

CONSTANTS newt, server

MCDevice == {newt, server}
MCActive == {newt}
=============================================================================
