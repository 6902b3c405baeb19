--------------------------- MODULE MCBlockDownload ---------------------------
(***************************************************************************)
(* A chain a1, a2, a3 and a block b2 beside a2.  The peer s is at a2; r is *)
(* at b2 and reorganises to a3.  Block a2 spends an output of a1, and is   *)
(* dropped as long as a1 is not connected.                                 *)
(* Fork: a block a1, where s is, and beside it b1, b2, where r is; b2      *)
(* spends an output of b1.                                                 *)
(***************************************************************************)
EXTENDS BlockDownload

MCBlocks == {"g", "a1", "a2", "a3", "b2"}

MCParent == [b \in MCBlocks \ {"g"} |->
    CASE b = "a1" -> "g" [] b \in {"a2", "b2"} -> "a1" [] b = "a3" -> "a2"]

Ancestors(blocks, parent) ==
    LET up[b \in blocks] == IF b = Genesis THEN {b} ELSE {b} \cup up[parent[b]] IN up

MCUpto == Ancestors(MCBlocks, MCParent)

MCViews == [p \in Peers |-> IF p = "s" THEN <<"a2">> ELSE <<"b2", "a3">>]

MCSpends == [b \in MCBlocks |-> IF b = "a2" THEN {"a1"} ELSE {}]

ForkBlocks == {"g", "a1", "b1", "b2"}
ForkParent == [b \in ForkBlocks \ {"g"} |-> IF b = "b2" THEN "b1" ELSE "g"]
ForkUpto == Ancestors(ForkBlocks, ForkParent)
ForkViews == [p \in Peers |-> IF p = "s" THEN <<"a1">> ELSE <<"b2">>]
ForkSpends == [b \in ForkBlocks |-> IF b = "b2" THEN {"b1"} ELSE {}]
=============================================================================
