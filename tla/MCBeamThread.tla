---- MODULE MCBeamThread ----
(* Finite instance of BeamThread: a unit of time is a poll period, and a   *)
(* second is exactly two sounding breaks long.  Two notes in proportions   *)
(* of NOTE_DATA, where the duty cycle of C4 is the period of C5.           *)
EXTENDS BeamThread, TLC

MCPeriods == 0 :> 4 @@ 1 :> 2
MCDuties == 0 :> 2 @@ 1 :> 1
====
