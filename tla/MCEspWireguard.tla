---------------------------- MODULE MCEspWireguard ----------------------------
(* Instance of EspWireguard, and of WgLegal inside it, for TLC: one caller, *)
(* two poll tasks, so that a poll task that outlived an expired stop can     *)
(* meet the next one, and two servers.                                       *)
EXTENDS EspWireguard

CONSTANTS t1, p1, p2, h1, h2

MCTasks == {t1}
MCPollers == {p1, p2}
MCHosts == {h1, h2}
=============================================================================
