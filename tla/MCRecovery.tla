----------------------------- MODULE MCRecovery -----------------------------
(***************************************************************************)
(* Fork: two branches of one and two blocks.  The same transaction creates *)
(* t in a and in bb, at different heights; a spends its own coin s, bb the *)
(* s of b.                                                                 *)
(* Pair: two blocks, the second spends the coin of the first.              *)
(***************************************************************************)
EXTENDS Recovery

ForkBlocks == {"g", "a", "b", "bb"}
Forkpprev == [b \in ForkBlocks \ {"g"} |-> IF b = "bb" THEN "b" ELSE "g"]
ForkAnc[b \in ForkBlocks] == IF b = "g" THEN {"g"} ELSE {b} \cup ForkAnc[Forkpprev[b]]
ForkOutpoints == {"t", "s"}
ForkCreated == [b \in ForkBlocks |-> CASE b = "a" -> {"t", "s"} [] b = "b" -> {"s"} [] b = "bb" -> {"t"}
                                       [] OTHER -> {}]
ForkSpentBy == [b \in ForkBlocks |-> IF b \in {"a", "bb"} THEN {"s"} ELSE {}]
ForkUtxo[b \in ForkBlocks] ==
    [o \in ForkOutpoints |-> IF b = "g" \/ o \in ForkSpentBy[b] THEN None
                             ELSE IF o \in ForkCreated[b] THEN b ELSE ForkUtxo[Forkpprev[b]][o]]

PairBlocks == {"g", "p", "a"}
Pairpprev == [b \in {"p", "a"} |-> IF b = "p" THEN "g" ELSE "p"]
PairAnc == [b \in PairBlocks |-> CASE b = "g" -> {"g"} [] b = "p" -> {"g", "p"} [] OTHER -> PairBlocks]
PairCreated == [b \in PairBlocks |-> IF b = "p" THEN {"c"} ELSE {}]
PairSpentBy == [b \in PairBlocks |-> IF b = "a" THEN {"c"} ELSE {}]
PairUtxo == [b \in PairBlocks |-> [o \in {"c"} |-> IF b = "p" THEN "p" ELSE None]]

==============================================================================
