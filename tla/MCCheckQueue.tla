---------------------------- MODULE MCCheckQueue ----------------------------
(* CheckQueue for TLC: four checks of which one fails, two workers, and batches of up to two. *)
EXTENDS CheckQueue, TLC

==============================================================================
