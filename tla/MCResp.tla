------------------------------- MODULE MCResp -------------------------------
(* The instance of Resp for TLC. *)
EXTENDS Resp

\* Null, empty, within, at and past both limits.
SmallLengths == -1 .. 3
=============================================================================
