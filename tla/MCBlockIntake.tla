---------------------------- MODULE MCBlockIntake ----------------------------
(* Two branches that compete for a name and for an address, a name given by *)
(* the master key, and an output that is spent in its own branch only.      *)
EXTENDS BlockIntake

Out(c, v) == [currency |-> c, nValueBitCash |-> v, nValue |-> 0]
Reg(n, a, m) == [nick |-> n, address |-> a, master |-> m]
Coinbase == [coinbase |-> TRUE, regs |-> <<>>, input |-> None, outs |-> <<Out(BitCash, 5)>>]
Tx(regs, input, outs) ==
    [coinbase |-> FALSE, regs |-> regs, input |-> input, outs |-> outs]
From(b, t, o) == [block |-> b, tx |-> t, out |-> o]

MCBlocks == {"base", "a1", "a2", "b1"}
MCParent == [b \in MCBlocks \ {"base"} |-> IF b = "a2" THEN "a1" ELSE "base"]
MCUpto[b \in MCBlocks] == IF b = "base" THEN {} ELSE MCUpto[MCParent[b]] \cup {b}
MCContents == [b \in MCBlocks |-> <<Coinbase,
    CASE b = "base" -> Tx(<<>>, None, <<Out(Dollar, 3)>>)
      [] b = "a1" -> Tx(<<Reg("m", "x", FALSE)>>, From("base", 2, 1), <<Out(BitCash, 5)>>)
      [] b = "a2" -> Tx(<<Reg("n", "x", TRUE)>>, From("a1", 1, 1),
                        <<Out(Dollar, 3), Out(BitCash, 2)>>)
      [] b = "b1" -> Tx(<<Reg("m", "y", FALSE)>>, From("base", 2, 1),
                        <<Out(BitCash, 5), Out(BitCash, 2)>>)>>]
\* One of the three prices is far off, each time another one.
MCInfos == [b \in MCBlocks |-> [k \in 1..3 |-> [c \in Currencies |->
    IF k = (CASE b = "base" -> 3 [] b = "a1" -> 1 [] b = "a2" -> 2 [] b = "b1" -> 3)
      THEN 13 - 5 * c ELSE 3 - c + k]]]
=============================================================================
