------------------------------ MODULE MCMempool ------------------------------
(***************************************************************************)
(* A chain a1 to a4 and a branch b2, b3 from a1.  Transaction o spends    *)
(* the coinbase of the genesis block, and so does f; p and d both spend an *)
(* output of o, and are mined in a3 and b3; c spends outputs of p and of   *)
(* o; r spends the same output of o, for more; e spends an output of d and *)
(* the coinbase of a1.                                                     *)
(***************************************************************************)
EXTENDS Mempool

MCBlocks == {"g", "a1", "a2", "a3", "a4", "b2", "b3"}

MCParent == [b \in MCBlocks \ {"g"} |->
    CASE b = "a1" -> "g" [] b \in {"a2", "b2"} -> "a1" [] b = "a3" -> "a2"
      [] b = "a4" -> "a3" [] b = "b3" -> "b2"]

MCCoinbases == {"kg", "ka1", "ka2", "ka3", "ka4", "kb2", "kb3"}

MCTxs == MCCoinbases \cup {"o", "p", "c", "d", "e", "f", "r"}

MCVtx == [b \in MCBlocks |->
    CASE b = "g" -> <<"kg">> [] b = "a1" -> <<"ka1">> [] b = "a2" -> <<"ka2", "o">>
      [] b = "a3" -> <<"ka3", "p">> [] b = "a4" -> <<"ka4", "c", "f">>
      [] b = "b2" -> <<"kb2", "o">> [] b = "b3" -> <<"kb3", "d">>]

MCVin == [t \in MCTxs |->
    CASE t = "o" -> <<<<"kg", 0>>>>
      [] t \in {"p", "d"} -> <<<<"o", 0>>>>
      [] t = "c" -> <<<<"p", 0>>, <<"o", 1>>>>
      [] t = "r" -> <<<<"o", 1>>>>
      [] t = "e" -> <<<<"d", 0>>, <<"ka1", 0>>>>
      [] t = "f" -> <<<<"kg", 1>>>>
      [] OTHER -> <<>>]

MCFee == [t \in MCTxs |-> CASE t = "r" -> 6 [] t \in {"p", "f"} -> 1 [] t = "o" -> 2 [] OTHER -> 3]

MCLockHeight == [t \in MCTxs |-> IF t = "r" THEN 2 ELSE 0]
=============================================================================
