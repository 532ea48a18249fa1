------------------------------- MODULE MCTimer ------------------------------
(* Instances of Timer for TLC: two timers and an interval time of three bits. *)
EXTENDS Timer, TLC

CONSTANTS a, b
TimerSymmetry == Permutations(Timers)
==============================================================================
