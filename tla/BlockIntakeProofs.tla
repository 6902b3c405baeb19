------------------------- MODULE BlockIntakeProofs -------------------------
(* What the conversion of currencies guarantees, and why the amounts of     *)
(* stored blocks are right, for any tree of blocks, contents and prices.    *)
EXTENDS BlockIntake, TLAPS

-----------------------------------------------------------------------------
(* The conversion, for all prices and amounts.                             *)

\* The mean the code forms lies between its arguments, at most half a unit off the middle.
LEMMA MiddleIsBetween ==
    ASSUME NEW x \in Int, NEW y \in Int
    PROVE  /\ Middle(x, y) \in Int
           /\ 2 * Middle(x, y) - (x + y) \in {-1, 0, 1}
           /\ x <= y => x <= Middle(x, y) /\ Middle(x, y) <= y
           /\ y <= x => y <= Middle(x, y) /\ Middle(x, y) <= x
  BY DEF Middle, Quotient

\* GetPriceinCurrency: whichever two of the three prices are right, the result is at most half
\* their distance away from the range between them.
THEOREM OneWrongPrice == \A p \in [1..3 -> Int] : NearTwo(p)
  <1> SUFFICES ASSUME NEW p \in [1..3 -> Int], NEW i \in 1..3, NEW j \in 1..3,
                      i # j, p[i] <= p[j]
               PROVE  /\ 2 * GetPriceinCurrency(p) >= 2 * p[i] - (p[j] - p[i]) - 1
                      /\ 2 * GetPriceinCurrency(p) <= 2 * p[j] + (p[j] - p[i]) + 1
    BY DEF NearTwo
  <1>1. p[1] \in Int /\ p[2] \in Int /\ p[3] \in Int
    OBVIOUS
  <1> DEFINE a == p[1]  b == p[2]  c == p[3]
             m12 == Middle(a, b)  m23 == Middle(b, c)  m13 == Middle(a, c)
  <1>2. m12 \in Int /\ 2 * m12 - (a + b) \in {-1, 0, 1}
    BY Zenon, <1>1, MiddleIsBetween
  <1>3. m23 \in Int /\ 2 * m23 - (b + c) \in {-1, 0, 1}
    BY Zenon, <1>1, MiddleIsBetween
  <1>4. m13 \in Int /\ 2 * m13 - (a + c) \in {-1, 0, 1}
    BY Zenon, <1>1, MiddleIsBetween
  <1>5. GetPriceinCurrency(p) =
          IF Distance(a, b) <= Distance(b, c) /\ Distance(a, b) <= Distance(a, c) THEN m12
          ELSE IF Distance(b, c) <= Distance(a, b) /\ Distance(b, c) <= Distance(a, c) THEN m23
          ELSE m13
    BY DEF GetPriceinCurrency
  <1>6. a \in Int /\ b \in Int /\ c \in Int
    BY <1>1
  <1>7. \/ (p[i] = a /\ p[j] = b) \/ (p[i] = b /\ p[j] = a)
        \/ (p[i] = b /\ p[j] = c) \/ (p[i] = c /\ p[j] = b)
        \/ (p[i] = a /\ p[j] = c) \/ (p[i] = c /\ p[j] = a)
    <2> i \in {1, 2, 3} /\ j \in {1, 2, 3}
      OBVIOUS
    <2> QED OBVIOUS
  <1> HIDE DEF a, b, c, m12, m23, m13
  <1>8. QED
    BY <1>2, <1>3, <1>4, <1>5, <1>6, <1>7 DEF Distance

\* Division by a positive number, rounded down, and what it leaves.
LEMMA DivisionRoundsDown ==
    ASSUME NEW x \in Nat, NEW y \in Nat \ {0}
    PROVE  Quotient(x, y) \in Nat /\ Quotient(x, y) * y <= x
  BY DEF Quotient

\* The amounts ConnectBlock demands: changing an amount into Dollars and back in a block whose
\* first rate is not below its second never increases it.
THEOREM NoGainFromChanging ==
    ASSUME NEW v \in Nat, NEW rates \in [Currencies -> Nat \ {0}],
           rates[Dollar] <= rates[BitCash]
    PROVE  NoGain(v, rates)
  <1> DEFINE there == Amount([currency |-> Dollar, nValueBitCash |-> v], BitCash, rates)
             high == rates[BitCash]  low == rates[Dollar]
  <1>1. /\ v \in Nat /\ high \in Nat \ {0} /\ low \in Nat \ {0} /\ COIN \in Nat \ {0}
        /\ low <= high
    BY CoinIsPositive DEF Currencies
  <1>2. there = Quotient(v * low, COIN)
    BY DEF Amount, BitCash, Dollar
  <1>3. Amount([currency |-> BitCash, nValueBitCash |-> there], Dollar, rates)
          = Quotient(there * COIN, high)
    BY DEF Amount, BitCash, Dollar
  <1> HIDE DEF there, high, low
  <1> DEFINE back == Quotient(there * COIN, high)
  <1>4. v * low \in Nat /\ v * low <= v * high
    BY <1>1
  <1>5. there \in Nat /\ there * COIN <= v * low
    BY <1>1, <1>2, <1>4, DivisionRoundsDown
  <1>6. there * COIN \in Nat
    BY <1>1, <1>5
  <1>7. back \in Nat /\ back * high <= there * COIN
    BY <1>1, <1>6, DivisionRoundsDown
  <1>8. back * high <= v * high
    <2> v * low \in Int /\ v * high \in Int /\ there * COIN \in Int /\ back * high \in Int
      BY <1>1, <1>6, <1>7
    <2> QED BY <1>4, <1>5, <1>7
  <1>9. back <= v
    <2> HIDE DEF back
    <2> SUFFICES ASSUME v + 1 <= back PROVE FALSE
      BY <1>1, <1>7
    <2>1. (v + 1) * high <= back * high
      BY <1>1, <1>7
    <2>2. (v + 1) * high = v * high + high
      BY <1>1
    <2> QED BY <2>1, <2>2, <1>1, <1>7, <1>8
  <1> QED BY <1>3, <1>9 DEF NoGain, there

\* The rates of a block whose prices CheckBlock accepts are positive, so that ConnectBlock, which
\* comes after it, does not divide by zero.
THEOREM RatesArePositive ==
    ASSUME NEW infos \in [1..3 -> [Currencies -> Nat]], PricesAccepted(infos)
    PROVE  Rates(infos) \in [Currencies -> Nat \ {0}]
  <1> SUFFICES ASSUME NEW c \in Currencies
               PROVE  GetPriceinCurrency([k \in 1..3 |-> infos[k][c]]) \in Nat \ {0}
    BY DEF Rates
  <1> DEFINE p == [k \in 1..3 |-> infos[k][c]]
  <1>1. /\ p[1] = infos[1][c] /\ p[2] = infos[2][c] /\ p[3] = infos[3][c]
        /\ p[1] \in Nat /\ p[2] \in Nat /\ p[3] \in Nat
    OBVIOUS
  <1>2. p[1] > 0 /\ p[2] > 0 /\ p[3] > 0
    <2>1. \A k \in 1..3 : infos[k][BitCash] \in Nat /\ infos[k][Dollar] \in Nat
      BY DEF Currencies
    <2>2. \A k \in 1..3 : infos[k][BitCash] > 0 /\ infos[k][Dollar] > 0
      BY <2>1 DEF PricesAccepted
    <2> QED BY <1>1, <2>2 DEF Currencies
  <1> HIDE DEF p
  <1>3. ASSUME NEW x \in Nat, NEW y \in Nat, x > 0, y > 0
        PROVE  Middle(x, y) \in Nat \ {0}
    <2>0. x \in Int /\ y \in Int
      OBVIOUS
    <2>1. /\ Middle(x, y) \in Int
          /\ x <= y => x <= Middle(x, y)
          /\ y <= x => y <= Middle(x, y)
      BY Zenon, <2>0, MiddleIsBetween
    <2> QED BY <1>3, <2>1
  <1>4. Middle(p[1], p[2]) \in Nat \ {0} /\ Middle(p[2], p[3]) \in Nat \ {0}
        /\ Middle(p[1], p[3]) \in Nat \ {0}
    BY <1>1, <1>2, <1>3
  <1>5. GetPriceinCurrency(p) \in Nat \ {0}
    BY <1>4 DEF GetPriceinCurrency
  <1> QED BY <1>5 DEF p

-----------------------------------------------------------------------------
(* The amounts of stored blocks.                                           *)

\* The amount an output must have is a number: the rates of a block are positive.
LEMMA AmountIsNumber ==
    ASSUME NEW o \in Outputs, NEW input \in Currencies, NEW rates \in [Currencies -> Nat \ {0}]
    PROVE  Amount(o, input, rates) \in Int
  <1>1. rates[BitCash] \in Nat \ {0} /\ rates[Dollar] \in Nat \ {0} /\ o.nValueBitCash \in Int
    BY DEF Outputs, Currencies
  <1>2. ASSUME NEW x \in Int, NEW y \in Nat \ {0}
        PROVE  Quotient(x, y) \in Int
    BY DEF Quotient
  <1>3. o.nValueBitCash * rates[Dollar] \in Int /\ o.nValueBitCash * COIN \in Int
    BY <1>1, CoinIsPositive
  <1> QED BY <1>1, <1>2, <1>3, CoinIsPositive DEF Amount

\* SetAmounts changes the amounts of the outputs J and nothing else.
LEMMA SetAmountsSets ==
    ASSUME NEW tx \in Transactions, NEW J, NEW input, NEW rates
    PROVE  LET r == SetAmounts(tx, J, input, rates)
           IN  /\ r.coinbase = tx.coinbase /\ r.input = tx.input /\ r.regs = tx.regs
               /\ DOMAIN r = DOMAIN tx
               /\ DOMAIN r.outs = DOMAIN tx.outs
               /\ \A j \in DOMAIN tx.outs \ J : r.outs[j] = tx.outs[j]
               /\ \A j \in DOMAIN tx.outs \cap J :
                     /\ r.outs[j].currency = tx.outs[j].currency
                     /\ r.outs[j].nValueBitCash = tx.outs[j].nValueBitCash
                     /\ r.outs[j].nValue = Amount(tx.outs[j], input, rates)
  <1>1. \A j \in DOMAIN tx.outs : tx.outs[j] \in Outputs
    BY DEF Transactions
  <1> DEFINE outs == [j \in DOMAIN tx.outs |-> IF j \in J
                        THEN [tx.outs[j] EXCEPT !.nValue = Amount(tx.outs[j], input, rates)]
                        ELSE tx.outs[j]]
  <1>2. SetAmounts(tx, J, input, rates) = [tx EXCEPT !.outs = outs]
    BY DEF SetAmounts
  <1> DEFINE r == [tx EXCEPT !.outs = outs]
  <1>3. /\ r.coinbase = tx.coinbase /\ r.input = tx.input /\ r.regs = tx.regs
        /\ DOMAIN r = DOMAIN tx /\ r.outs = outs
    BY DEF Transactions
  <1>4. \A j \in DOMAIN tx.outs \cap J :
            /\ outs[j].currency = tx.outs[j].currency
            /\ outs[j].nValueBitCash = tx.outs[j].nValueBitCash
            /\ outs[j].nValue = Amount(tx.outs[j], input, rates)
    BY <1>1 DEF Outputs
  <1>5. \A j \in DOMAIN tx.outs \ J : outs[j] = tx.outs[j]
    OBVIOUS
  <1> HIDE DEF outs, r
  <1>6. DOMAIN outs = DOMAIN tx.outs
    BY DEF outs
  <1> QED BY <1>2, <1>3, <1>4, <1>5, <1>6 DEF r

\* The loop of ProcessNewBlock leaves no wrong amount in a transaction that had at most one.
LEMMA OneWrongIsPutRight ==
    ASSUME NEW tx \in Transactions, NEW input, NEW rates,
           \A i, j \in Wrong(tx, input, rates) : i = j
    PROVE  /\ Wrong(PutRight(tx, input, rates), input, rates) = {}
           /\ PutRight(tx, input, rates).input = tx.input
  <1> DEFINE w == Wrong(tx, input, rates)
  <1>1. CASE w = {}
    BY Zenon, <1>1 DEF PutRight
  <1>2. CASE w # {}
    <2>1. PICK j0 \in w : w = {j0}
      BY <1>2
    <2>2. j0 \in DOMAIN tx.outs /\ j0 <= j0
      BY <2>1 DEF Wrong, Transactions
    <2>3. Min(w) = j0
      BY <2>1, <2>2 DEF Min
    <2> DEFINE r == SetAmounts(tx, {j0}, input, rates)
    <2>4. PutRight(tx, input, rates) = r
      BY <1>2, <2>1, <2>3 DEF PutRight
    <2>5. /\ r.coinbase = tx.coinbase /\ r.input = tx.input
          /\ DOMAIN r.outs = DOMAIN tx.outs
          /\ \A j \in DOMAIN tx.outs \ {j0} : r.outs[j] = tx.outs[j]
          /\ r.outs[j0].currency = tx.outs[j0].currency
          /\ r.outs[j0].nValueBitCash = tx.outs[j0].nValueBitCash
          /\ r.outs[j0].nValue = Amount(tx.outs[j0], input, rates)
      BY <2>2, SetAmountsSets
    <2> HIDE DEF r
    <2>6. r.outs[j0].nValue = Amount(r.outs[j0], input, rates)
      BY <2>5 DEF Amount
    <2>7. ASSUME NEW j \in DOMAIN r.outs PROVE j \notin Wrong(r, input, rates)
      <3>1. CASE j = j0
        BY <2>6, <3>1 DEF Wrong
      <3>2. CASE j # j0
        <4>1. j \in DOMAIN tx.outs /\ j \notin w /\ r.outs[j] = tx.outs[j]
          BY <2>1, <2>5, <2>7, <3>2
        <4> QED BY Zenon, <2>5, <4>1 DEF Wrong, Excepted
      <3> QED BY <3>1, <3>2
    <2>8. Wrong(r, input, rates) = {}
      BY <2>7 DEF Wrong
    <2> QED BY <2>4, <2>5, <2>8
  <1> QED BY <1>1, <1>2

\* The transactions of a block, and their outputs.
LEMMA ContentsTyped ==
    ASSUME NEW b \in Blocks, NEW i \in DOMAIN Contents[b]
    PROVE  /\ Contents[b][i] \in Transactions
           /\ \A j \in DOMAIN Contents[b][i].outs : Contents[b][i].outs[j] \in Outputs
  <1>1. Contents[b] \in Seq(Transactions)
    BY ContentsAssumption
  <1>2. Contents[b][i] \in Transactions
    BY <1>1
  <1>3. Contents[b][i].outs \in Seq(Outputs)
    BY <1>2 DEF Transactions
  <1> QED BY <1>2, <1>3

\* ProcessNewBlock takes an input for what it is, wherever its coin is found, unless a coinbase
\* pays Dollars.
LEMMA CurrencyIsSeen ==
    ASSUME ~PaysDollars, NEW b \in Blocks, NEW i \in DOMAIN Contents[b], NEW t
    PROVE  /\ SeenCurrency(Contents[b][i], t) = InputCurrency(Contents[b][i])
           /\ InputCurrency(Contents[b][i]) \in Currencies
  <1> DEFINE o == Contents[b][i].input
             direct == Creator(o).outs[o.out]
  <1>1. /\ SeenCurrency(Contents[b][i], t) = IF o = None THEN BitCash
               ELSE IF HaveCoin(o, t) THEN CoinCurrency(o) ELSE direct.currency
        /\ InputCurrency(Contents[b][i]) = IF o = None THEN BitCash ELSE CoinCurrency(o)
    BY Zenon DEF SeenCurrency, InputCurrency
  <1>2. o = None \/ (/\ o.block \in Blocks /\ o.tx \in DOMAIN Contents[o.block]
                     /\ o.out \in DOMAIN Contents[o.block][o.tx].outs)
    BY ContentsAssumption DEF Outpoints
  <1>3. /\ CoinCurrency(o) = IF Creator(o).coinbase THEN BitCash ELSE direct.currency
        /\ Creator(o) = Contents[o.block][o.tx] /\ direct = Creator(o).outs[o.out]
    BY Zenon DEF CoinCurrency, Creator
  <1> HIDE DEF o, direct
  <1>4. CASE o = None
    BY Zenon, <1>1, <1>4 DEF Currencies
  <1>5. CASE o # None
    <2>1. direct \in Outputs
      BY Zenon, <1>2, <1>3, <1>5, ContentsTyped
    <2>2. direct.currency \in Currencies
      BY <2>1 DEF Outputs
    <2>3. Creator(o).coinbase => direct.currency # Dollar
      BY Zenon, <1>2, <1>3, <1>5 DEF PaysDollars
    <2>4. CoinCurrency(o) = direct.currency
      BY Zenon, <1>3, <2>2, <2>3 DEF Currencies
    <2> QED BY Zenon, <1>1, <1>5, <2>2, <2>4
  <1> QED BY <1>4, <1>5

\* The miner's block has no wrong amount.  When the amounts at W are changed on the way, those are
\* the only ones that can be wrong.
LEMMA ChangedAmountsOnly ==
    ASSUME ~PaysDollars, NEW b \in Blocks, NEW i \in DOMAIN Contents[b], NEW W
    PROVE  LET tx == Sent(b, W)[i]
           IN  /\ tx \in Transactions /\ tx.input = Contents[b][i].input
               /\ \A j \in Wrong(tx, InputCurrency(Contents[b][i]), Rates(Infos[b])) : <<i, j>> \in W
  <1> DEFINE c == Contents[b][i]
             input == InputCurrency(c)
             rates == Rates(Infos[b])
             m == Mined[b][i]
             tx == Sent(b, W)[i]
  <1>1. c \in Transactions /\ input \in Currencies
    BY ContentsTyped, CurrencyIsSeen
  <1>2. rates \in [Currencies -> Nat \ {0}]
    BY Zenon, RatesArePositive, ContentsAssumption, TreeAssumption
  <1>3. m = SetAmounts(c, DOMAIN c.outs, input, rates)
    BY DEF Mined, ConvertForTemplate
  <1>4. tx = [m EXCEPT !.outs = [j \in DOMAIN m.outs |->
                IF <<i, j>> \in W THEN [m.outs[j] EXCEPT !.nValue = m.outs[j].nValue + 1]
                                  ELSE m.outs[j]]]
    BY DEF Sent
  <1> HIDE DEF c, input, rates, m, tx
  <1>5. \A j \in DOMAIN c.outs : c.outs[j] \in Outputs /\ Amount(c.outs[j], input, rates) \in Int
    BY <1>1, <1>2, AmountIsNumber DEF Transactions
  <1>6. m = [c EXCEPT !.outs = [j \in DOMAIN c.outs |->
                [c.outs[j] EXCEPT !.nValue = Amount(c.outs[j], input, rates)]]]
    BY <1>3 DEF SetAmounts
  <1>7. \A j \in DOMAIN c.outs :
            [c.outs[j] EXCEPT !.nValue = Amount(c.outs[j], input, rates)] \in Outputs
    BY <1>5 DEF Outputs
  <1>8. [j \in DOMAIN c.outs |->
            [c.outs[j] EXCEPT !.nValue = Amount(c.outs[j], input, rates)]] \in Seq(Outputs)
    BY <1>1, <1>7 DEF Transactions
  <1>9. /\ m \in Transactions /\ m.input = c.input /\ m.coinbase = c.coinbase
        /\ DOMAIN m.outs = DOMAIN c.outs
    BY Zenon, <1>1, <1>6, <1>8 DEF Transactions
  <1>10. \A j \in DOMAIN m.outs : m.outs[j].nValue = Amount(m.outs[j], input, rates)
    BY <1>1, <1>3, SetAmountsSets DEF Amount
  <1> DEFINE outs == [j \in DOMAIN m.outs |->
                IF <<i, j>> \in W THEN [m.outs[j] EXCEPT !.nValue = m.outs[j].nValue + 1]
                                  ELSE m.outs[j]]
  <1>11. \A j \in DOMAIN m.outs : m.outs[j] \in Outputs
    BY <1>9 DEF Transactions
  <1>12. \A j \in DOMAIN m.outs : outs[j] \in Outputs
    BY <1>11 DEF Outputs
  <1>13. outs \in Seq(Outputs)
    <2>1. m.outs \in Seq(Outputs)
      BY <1>9 DEF Transactions
    <2>2. Len(m.outs) \in Nat /\ DOMAIN m.outs = 1..Len(m.outs)
      BY <2>1
    <2> HIDE DEF outs
    <2>3. outs = [j \in 1..Len(m.outs) |-> outs[j]]
      BY <2>2 DEF outs
    <2> QED BY <1>12, <2>2, <2>3
  <1>14. tx \in Transactions /\ tx.input = c.input /\ tx.outs = outs
    BY Zenon, <1>4, <1>9, <1>13 DEF Transactions
  <1>15. ASSUME NEW j \in Wrong(tx, input, rates) PROVE <<i, j>> \in W
    <2> SUFFICES ASSUME <<i, j>> \notin W PROVE FALSE
      OBVIOUS
    <2>1. j \in DOMAIN m.outs /\ tx.outs[j] # m.outs[j]
      BY <1>10, <1>14 DEF Wrong
    <2> QED BY <1>14, <2>1
  <1> QED BY <1>14, <1>15 DEF c, input, rates, tx

\* Whatever the active chain is when a block comes, ProcessNewBlock puts its amounts right unless
\* two were wrong in one transaction.
LEMMA ReceivedIsRight ==
    ASSUME ~PaysDollars, NEW b \in Blocks, NEW r \in Received[b], ~r.twice
    PROVE  AmountsRight(b, r.txs)
  <1>1. PICK W \in SUBSET Places(b), t \in Blocks :
            r = ReceivedAt(b, W, t)
    BY DEF Received
  <1>2. ASSUME NEW i \in DOMAIN r.txs
        PROVE  Wrong(r.txs[i], InputCurrency(r.txs[i]), Rates(Infos[b])) = {}
    <2> DEFINE tx == Sent(b, W)[i]
               input == InputCurrency(Contents[b][i])
               rates == Rates(Infos[b])
    <2>1. i \in DOMAIN Contents[b]
      BY <1>1 DEF ReceivedAt
    <2>2. SeenCurrency(Contents[b][i], t) = input
      BY <2>1, CurrencyIsSeen
    <2>3. r.txs[i] = PutRight(tx, input, rates)
      BY <1>1, <2>1, <2>2 DEF ReceivedAt
    <2>4. /\ tx \in Transactions /\ tx.input = Contents[b][i].input
          /\ \A j \in Wrong(tx, input, rates) : <<i, j>> \in W
      BY <2>1, ChangedAmountsOnly
    <2>5. ASSUME NEW j \in Wrong(tx, input, rates), NEW k \in Wrong(tx, input, rates)
          PROVE  j = k
      <3>1. ~(\E p, q \in W : p[1] = q[1] /\ p # q)
        BY Zenon, <1>1 DEF ReceivedAt
      <3>2. <<i, j>> \in W /\ <<i, k>> \in W
        BY <2>4
      <3> QED BY <3>1, <3>2
    <2>6. /\ Wrong(r.txs[i], input, rates) = {}
          /\ r.txs[i].input = Contents[b][i].input
      BY <2>3, <2>4, <2>5, OneWrongIsPutRight
    <2>7. InputCurrency(r.txs[i]) = input
      BY <2>6 DEF InputCurrency
    <2> QED BY <2>6, <2>7
  <1> QED BY <1>2 DEF AmountsRight

\* The amounts the miner sets are the ones ConnectBlock demands.
LEMMA MinedIsRight ==
    ASSUME NEW b \in Blocks
    PROVE  AmountsRight(b, Mined[b])
  <1>1. ASSUME NEW i \in DOMAIN Mined[b]
        PROVE  Wrong(Mined[b][i], InputCurrency(Mined[b][i]), Rates(Infos[b])) = {}
    <2> DEFINE c == Contents[b][i]
               input == InputCurrency(c)
               rates == Rates(Infos[b])
               m == Mined[b][i]
    <2>1. i \in DOMAIN Contents[b] /\ m = SetAmounts(c, DOMAIN c.outs, input, rates)
      BY DEF Mined, ConvertForTemplate
    <2>2. c \in Transactions
      BY <2>1, ContentsTyped
    <2> HIDE DEF c, input, rates, m
    <2>3. /\ m.input = c.input /\ DOMAIN m.outs = DOMAIN c.outs
          /\ \A j \in DOMAIN c.outs : /\ m.outs[j].currency = c.outs[j].currency
                                     /\ m.outs[j].nValueBitCash = c.outs[j].nValueBitCash
                                     /\ m.outs[j].nValue = Amount(c.outs[j], input, rates)
      BY <2>1, <2>2, SetAmountsSets
    <2>4. \A j \in DOMAIN m.outs : m.outs[j].nValue = Amount(m.outs[j], input, rates)
      BY <2>3 DEF Amount
    <2>5. Wrong(m, input, rates) = {}
      BY <2>4 DEF Wrong
    <2>6. InputCurrency(m) = input
      BY <2>3 DEF InputCurrency, input
    <2> QED BY <2>5, <2>6 DEF rates, m
  <1> QED BY <1>1 DEF AmountsRight

AllRight(data) == \A b \in Blocks : data[b] # None => AmountsRight(b, data[b])

\* The inductive invariant: what is on disk comes back after a crash, so it has to be right too.
IInv ==
    /\ stored = [b \in Blocks |-> stored[b]]
    /\ disk.stored = [b \in Blocks |-> disk.stored[b]]
    /\ disk = [tip |-> disk.tip, stored |-> disk.stored, failed |-> disk.failed]
    /\ "twice" \in marred \/ PaysDollars \/ (AllRight(stored) /\ AllRight(disk.stored))

\* The node starts with the last block before the first name, as its miner made it.
LEMMA InitRight == Init => IInv
  <1> SUFFICES ASSUME Init PROVE IInv
    OBVIOUS
  <1>1. /\ disk = [tip |-> tip, stored |-> stored, failed |-> failed]
        /\ stored = [b \in Blocks |-> IF b = Base THEN Mined[b] ELSE None]
    BY DEF Init, OnDisk
  <1>2. disk.stored = stored /\ disk.tip = tip /\ disk.failed = failed
    BY <1>1
  <1>3. AllRight(stored)
    BY <1>1, MinedIsRight DEF AllRight
  <1>4. stored = [b \in Blocks |-> stored[b]]
    BY <1>1
  <1> QED BY Zenon, <1>1, <1>2, <1>3, <1>4 DEF IInv

\* When the process ends, the data of the last flush is what remains.
LEMMA StoppedRight ==
    ASSUME IInv, NEW bk, NEW d, NEW h, NEW m, Stopped(bk, d, h, m),
           d = [tip |-> d.tip, stored |-> d.stored, failed |-> d.failed],
           d.stored = stored \/ d.stored = disk.stored,
           "twice" \in marred => "twice" \in m
    PROVE  IInv'
  <1>1. disk' = d /\ stored' = d.stored /\ marred' = m
    BY DEF Stopped
  <1>2. d.stored = [b \in Blocks |-> d.stored[b]]
    BY Zenon DEF IInv
  <1>3. AllRight(stored) /\ AllRight(disk.stored) => AllRight(d.stored)
    BY Zenon
  <1>4. "twice" \in m \/ PaysDollars \/ AllRight(d.stored)
    BY Zenon, <1>3 DEF IInv
  <1>5. AllRight(stored)' = AllRight(d.stored) /\ AllRight(disk.stored)' = AllRight(d.stored)
    BY Zenon, <1>1 DEF AllRight
  <1>6. (disk.stored)' = d.stored /\ (disk.tip)' = d.tip /\ (disk.failed)' = d.failed
    BY <1>1
  <1> QED BY Zenon, <1>1, <1>2, <1>4, <1>5, <1>6 DEF IInv

\* Steps that leave the data alone.
LEMMA DataKept ==
    ASSUME IInv, stored' = stored, disk' = disk, "twice" \in marred => "twice" \in marred'
    PROVE  IInv'
  BY Zenon DEF IInv, AllRight

\* A block comes: ReceivedIsRight says what is stored for it.
LEMMA ProcessNewBlockRight ==
    ASSUME IInv, NEW b \in Blocks, ProcessNewBlock(b)
    PROVE  IInv'
  <1>1. PICK r \in Received[b] :
            /\ stored' = [stored EXCEPT ![b] = r.txs]
            /\ marred' = marred \cup (IF r.twice THEN {"twice"} ELSE {})
    BY Zenon DEF ProcessNewBlock
  <1>2. disk' = disk
    BY DEF ProcessNewBlock
  <1>3. /\ stored' = [c \in Blocks |-> stored'[c]] /\ stored'[b] = r.txs
        /\ \A c \in Blocks \ {b} : stored'[c] = stored[c]
    BY <1>1 DEF IInv
  <1>4. CASE r.twice
    <2>1. "twice" \in marred'
      BY <1>1, <1>4
    <2> QED BY Zenon, <1>2, <1>3, <2>1 DEF IInv
  <1>5. CASE ~r.twice
    <2>1. marred' = marred
      BY <1>1, <1>5
    <2>2. PaysDollars \/ AmountsRight(b, r.txs)
      BY <1>5, ReceivedIsRight
    <2>3. AllRight(stored) => PaysDollars \/ AllRight(stored')
      BY Zenon, <1>3, <2>2 DEF AllRight
    <2>4. AllRight(disk.stored)' = AllRight(disk.stored)
      BY Zenon, <1>2 DEF AllRight
    <2>5. AllRight(stored)' = AllRight(stored')
      BY Zenon DEF AllRight
    <2> QED BY Zenon, <1>2, <1>3, <2>1, <2>3, <2>4, <2>5 DEF IInv
  <1> QED BY <1>4, <1>5

\* Every step keeps the invariant.
LEMMA NextRight == IInv /\ [Next]_vars => IInv'
  <1> SUFFICES ASSUME IInv, [Next]_vars PROVE IInv'
    OBVIOUS
  <1>0. disk = [tip |-> disk.tip, stored |-> disk.stored, failed |-> disk.failed]
    BY DEF IInv
  <1>1. ASSUME NEW b \in Blocks, ProcessNewBlock(b) PROVE IInv'
    BY <1>1, ProcessNewBlockRight
  <1>2. ASSUME NEW b \in Blocks, ConnectTip(b) PROVE IInv'
    BY <1>2, DataKept DEF ConnectTip
  <1>3. ASSUME NEW b \in Blocks, RefuseNames(b) PROVE IInv'
    BY <1>3, DataKept DEF RefuseNames
  <1>4. ASSUME NEW b \in Blocks, RefuseAmounts(b) PROVE IInv'
    BY <1>4, DataKept DEF RefuseAmounts
  <1>5. ASSUME DisconnectTip PROVE IInv'
    BY <1>5, DataKept DEF DisconnectTip
  <1>6. ASSUME NEW writes, CrashInWrites(writes) PROVE IInv'
    <2>1. PICK w \in Begun(writes) :
              Stopped(Written(book, w), disk, None,
                      marred \cup {"ahead"} \cup (IF w = writes THEN {} ELSE {"torn"}))
      BY <1>6 DEF CrashInWrites
    <2> QED BY <1>0, <2>1, StoppedRight
  <1>7. ASSUME Flush PROVE IInv'
    <2>1. /\ disk' = [tip |-> tip, stored |-> stored, failed |-> failed]
          /\ stored' = stored /\ marred' = marred
      BY <1>7 DEF Flush, OnDisk
    <2>2. (disk.stored)' = stored /\ (disk.tip)' = tip /\ (disk.failed)' = failed
      BY <2>1
    <2>3. AllRight(stored)' = AllRight(stored) /\ AllRight(disk.stored)' = AllRight(stored)
      BY Zenon, <2>1, <2>2 DEF AllRight
    <2> QED BY Zenon, <2>1, <2>2, <2>3 DEF IInv
  <1>8. ASSUME Crash PROVE IInv'
    BY <1>0, <1>8, StoppedRight DEF Crash
  <1>9. ASSUME CrashInFlush PROVE IInv'
    <2> DEFINE d == [tip |-> disk.tip, stored |-> stored, failed |-> failed]
    <2>1. [OnDisk EXCEPT !.tip = disk.tip] = d
      BY DEF OnDisk
    <2>2. CASE Stopped(book, OnDisk, <<disk.tip, tip>>, marred)
      BY <2>2, StoppedRight DEF OnDisk
    <2>3. CASE Stopped(book, d, None, marred \cup {"ahead"})
      BY <2>3, StoppedRight
    <2> QED BY <1>9, <2>1, <2>2, <2>3 DEF CrashInFlush
  <1>10. ASSUME Restart PROVE IInv'
    <2>1. /\ stored' = stored /\ disk' = disk
          /\ marred' = (marred \ {"replay"}) \cup Undone
      BY <1>10 DEF Restart
    <2>2. "twice" \in marred => "twice" \in marred'
      BY <2>1
    <2> QED BY <2>1, <2>2, DataKept
  <1>11. ASSUME CrashInReplay PROVE IInv'
    <2>1. PICK w \in Begun(ReplayWrites(book, heads[1], heads[2])) :
              Stopped(Written(book, w), disk, heads, marred \cup {"replay"} \cup Undone)
      BY <1>11 DEF CrashInReplay
    <2> QED BY <1>0, <2>1, StoppedRight
  <1>12. ASSUME Reindex PROVE IInv'
    <2>1. stored' = stored /\ disk' = [disk EXCEPT !.tip = Base]
      BY <1>12 DEF Reindex
    <2>2. "twice" \in marred => "twice" \in marred'
      BY <1>12 DEF Reindex
    <2>3. /\ disk' = [tip |-> Base, stored |-> disk.stored, failed |-> disk.failed]
      BY <1>0, <2>1
    <2>4. (disk.stored)' = disk.stored /\ (disk.tip)' = Base /\ (disk.failed)' = disk.failed
      BY <2>3
    <2>5. /\ AllRight(stored)' = AllRight(stored)
          /\ AllRight(disk.stored)' = AllRight(disk.stored)
      BY Zenon, <2>1, <2>4 DEF AllRight
    <2> QED BY Zenon, <2>1, <2>2, <2>3, <2>4, <2>5 DEF IInv
  <1>13. ASSUME CrashInReindex PROVE IInv'
    <2>1. PICK w \in Begun(DeleteAllNicknames(book)) :
              Stopped(Written(book, w), disk, heads, marred \cup {"torn"})
      BY <1>13 DEF CrashInReindex
    <2> QED BY <1>0, <2>1, StoppedRight
  <1>14. CASE UNCHANGED vars
    BY <1>14, DataKept DEF vars
  <1> QED
    BY Zenon, <1>1, <1>2, <1>3, <1>4, <1>5, <1>6, <1>7, <1>8, <1>9, <1>10, <1>11, <1>12, <1>13,
       <1>14 DEF Next, CrashInConnect, CrashInDisconnect

\* For every tree of blocks, contents and prices, whatever order blocks come in, and whatever
\* reorganisations, crashes and restarts occur: ConnectBlock never refuses a stored block for its
\* amounts, unless a block has come with two wrong amounts in one transaction or a coinbase pays
\* Dollars.
THEOREM StoredStaysRight == Spec => []StoredRight
  <1>1. IInv => StoredRight
    BY Zenon DEF IInv, StoredRight, AllRight
  <1> QED BY <1>1, InitRight, NextRight, PTL DEF Spec

=============================================================================
