---------------------------- MODULE MCReplayWindow ----------------------------
(* Instance of ReplayWindow for TLC: a window of 4 bits and packets to 9, so *)
(* that packets fall out of the window singly and all at once.               *)
EXTENDS ReplayWindow
=============================================================================
