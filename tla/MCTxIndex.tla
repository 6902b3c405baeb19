----------------------------- MODULE MCTxIndex -----------------------------
(* A chain of two blocks a, aa and a rival b of the first, on the genesis block. *)
EXTENDS TxIndex

ForkBlocks == {"g", "a", "aa", "b"}
Forkpprev == [x \in ForkBlocks \ {"g"} |-> IF x = "aa" THEN "a" ELSE "g"]
ForkAnc[x \in ForkBlocks] == IF x = "g" THEN {"g"} ELSE {x} \cup ForkAnc[Forkpprev[x]]

=============================================================================
