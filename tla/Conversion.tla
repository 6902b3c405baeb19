----------------------------- MODULE Conversion -----------------------------
(***************************************************************************)
(* The two currencies of BitCash.  An output states its amount in the      *)
(* currency of the inputs (nValueBitCash) and in its own (nValue).  nValue *)
(* is not covered by the hash of the transaction: the miner fills it in    *)
(* from the price information in the block, ProcessNewBlock fills it in    *)
(* again on arrival and ConnectBlock checks it.  All forks are over: every *)
(* transaction states its currencies, and a price information holds two    *)
(* prices.                                                                 *)
(* Amounts and prices are below 2^63 and their products are formed with    *)
(* 128 bits, so that nothing overflows.                                    *)
(***************************************************************************)
EXTENDS Integers, Sequences, FiniteSetsExt

CONSTANT COIN

ASSUME CoinIsPositive == COIN \in Nat \ {0}

BitCash == 0
Dollar == 1
Currencies == {BitCash, Dollar}

\* Division of C++, which rounds towards zero (for a positive divisor).
Quotient(a, b) == IF a >= 0 THEN a \div b ELSE -((-a) \div b)

Distance(x, y) == IF x >= y THEN x - y ELSE y - x

\* The mean of two prices, as the code forms it.
Middle(x, y) == Quotient(x - y, 2) + y

\* GetPriceinCurrency: the mean of those two of the three prices that are nearest to each other.
GetPriceinCurrency(p) ==
    LET d1 == Distance(p[1], p[2])
        d2 == Distance(p[2], p[3])
        d3 == Distance(p[1], p[3])
    IN  IF d1 <= d2 /\ d1 <= d3 THEN Middle(p[1], p[2])
        ELSE IF d2 <= d1 /\ d2 <= d3 THEN Middle(p[2], p[3])
        ELSE Middle(p[1], p[3])

\* The rates of a block: infos[k][c] is price c of its k-th price information.
Rates(infos) == [c \in Currencies |-> GetPriceinCurrency([k \in 1..3 |-> infos[k][c]])]

\* What CheckBlock demands of each price information.
PricesAccepted(infos) ==
    \A k \in 1..3 : infos[k][BitCash] >= infos[k][Dollar] /\ infos[k][Dollar] > 0

\* The amount an output must have in its own currency.
Amount(o, input, rates) ==
    IF o.currency = input THEN o.nValueBitCash
    ELSE IF input = BitCash
      THEN Quotient(o.nValueBitCash * rates[Dollar], COIN)
      ELSE Quotient(o.nValueBitCash * COIN, rates[BitCash])

\* A coinbase once created with a wrong nValueBitCash, which is let through.
Excepted(tx, o) ==
    /\ tx.coinbase /\ o.currency = BitCash
    /\ o.nValueBitCash = -1 /\ 100 * o.nValue = 215 * COIN

\* The outputs whose amount is wrong.
Wrong(tx, input, rates) ==
    {j \in DOMAIN tx.outs : /\ tx.outs[j].nValue # Amount(tx.outs[j], input, rates)
                            /\ ~Excepted(tx, tx.outs[j])}

SetAmounts(tx, J, input, rates) ==
    [tx EXCEPT !.outs = [j \in DOMAIN @ |-> IF j \in J
        THEN [@[j] EXCEPT !.nValue = Amount(tx.outs[j], input, rates)] ELSE @[j]]]

\* ConvertCurrenciesForBlockTemplate, for one transaction: every output.
ConvertForTemplate(tx, input, rates) == SetAmounts(tx, DOMAIN tx.outs, input, rates)

\* The loop of ProcessNewBlock over the outputs of one transaction.  The transaction is moved
\* into the block with the first amount that is put right, which leaves the loop no outputs.
\* The first is a variant that does not look at outputs in the currency of the inputs.
PutCrossRight(tx, input, rates) ==
    LET w == {j \in Wrong(tx, input, rates) : tx.outs[j].currency # input}
    IN  IF w = {} THEN tx ELSE SetAmounts(tx, {Min(w)}, input, rates)

PutRight(tx, input, rates) ==
    LET w == Wrong(tx, input, rates)
    IN  IF w = {} THEN tx ELSE SetAmounts(tx, {Min(w)}, input, rates)

-----------------------------------------------------------------------------
(* What the conversion promises.                                           *)

\* One source that is wrong cannot move the price far: whichever two of the three are right, the
\* result is at most half their distance away from the range between them.
NearTwo(p) ==
    \A i, j \in 1..3 : i # j /\ p[i] <= p[j] =>
        /\ 2 * GetPriceinCurrency(p) >= 2 * p[i] - (p[j] - p[i]) - 1
        /\ 2 * GetPriceinCurrency(p) <= 2 * p[j] + (p[j] - p[i]) + 1

\* An amount that is changed into Dollars and back has not increased: both conversions round down.
NoGain(v, rates) ==
    LET there == Amount([currency |-> Dollar, nValueBitCash |-> v], BitCash, rates)
    IN  Amount([currency |-> BitCash, nValueBitCash |-> there], Dollar, rates) <= v

=============================================================================
