---------------------------- MODULE MCCoinsCache ----------------------------
(* CoinsCache for TLC: two outpoints, two coins and two blocks. *)
EXTENDS CoinsCache, TLC

==============================================================================
