------------------------------ MODULE MCNewtWsRx ------------------------------
(* Instance of NewtWsRx for TLC: three frames of up to five units, pieces of *)
(* up to two, and a limit of four, so that frames come in up to five pieces, *)
(* exceed the limit, and follow one that was cut short.                      *)
EXTENDS NewtWsRx

MCBackoff == <<1, 2, 5, 10, 30>>
=============================================================================
