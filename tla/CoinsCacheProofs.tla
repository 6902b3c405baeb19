-------------------------- MODULE CoinsCacheProofs --------------------------
(***************************************************************************)
(* The flags of the coins caches mean what they say, and the caches        *)
(* implement the maps without caches, for every set of outpoints, coins    *)
(* and blocks.                                                             *)
(***************************************************************************)
EXTENDS CoinsCache, TLAPS

IInv == TypeOK /\ FlagsMean /\ NeverThrows

\* A lookup changes neither what the cache shows nor the meaning of its flags.
LEMMA FetchShowsSame ==
    ASSUME NEW cache \in Caches, NEW base \in [Outpoints -> Coins \cup {Spent}],
           NEW o \in Outpoints, FlagsRight(cache, base)
    PROVE  /\ FetchCoin(cache, base, o) \in Caches
           /\ Seen(FetchCoin(cache, base, o), base) = Seen(cache, base)
           /\ FlagsRight(FetchCoin(cache, base, o), base)
  BY CoinAssumption DEF FetchCoin, Caches, Entries, Seen, FlagsRight

\* What a cache shows is a map of coins.
LEMMA SeenType ==
    ASSUME NEW cache \in Caches, NEW base \in [Outpoints -> Coins \cup {Spent}]
    PROVE  Seen(cache, base) \in [Outpoints -> Coins \cup {Spent}]
  BY CoinAssumption DEF Caches, Entries, Seen

\* An empty cache shows its base.
LEMMA EmptyShowsBase ==
    ASSUME NEW base \in [Outpoints -> Coins \cup {Spent}]
    PROVE  Empty \in Caches /\ Seen(Empty, base) = base /\ FlagsRight(Empty, base)
  BY CoinAssumption DEF Empty, Caches, Seen, FlagsRight

\* The flags of one entry over the coin its base shows; FlagsRight for one outpoint.
EntryRight(entry, coin) ==
    entry # None =>
        /\ ~entry.dirty => entry.coin = coin /\ ~entry.fresh
        /\ entry.fresh => coin = Spent
        /\ entry.coin = Spent => entry.dirty /\ ~entry.fresh

\* The coin one entry shows.
EntryCoin(entry, coin) == IF entry = None THEN coin ELSE entry.coin

\* BatchWrite of one entry.
LEMMA MergeEntry ==
    ASSUME NEW child \in Entries \cup {None}, NEW parent \in Entries \cup {None},
           NEW coin \in Coins \cup {Spent},
           EntryRight(parent, coin), EntryRight(child, EntryCoin(parent, coin))
    PROVE  /\ Merged(child, parent) \in Entries \cup {None}
           /\ EntryCoin(Merged(child, parent), coin) = EntryCoin(child, EntryCoin(parent, coin))
           /\ EntryRight(Merged(child, parent), coin)
           /\ ~MergeThrows(child, parent)
  <1>1. CASE child = None \/ ~child.dirty
    BY <1>1 DEF Merged, MergeThrows, EntryRight, EntryCoin
  <1>2. CASE child \in Entries /\ child.dirty /\ parent = None
    <2>1. CASE child.coin = Spent /\ child.fresh
      BY <1>2, <2>1, CoinAssumption DEF EntryRight
    <2>2. CASE ~(child.coin = Spent /\ child.fresh)
      <3>1. Merged(child, parent) = [coin |-> child.coin, dirty |-> TRUE, fresh |-> child.fresh]
        BY <1>2, <2>2, CoinAssumption DEF Merged
      <3> QED
        BY Zenon, <1>2, <2>2, <3>1, CoinAssumption DEF MergeThrows, EntryRight, EntryCoin, Entries
    <2> QED
      BY <2>1, <2>2
  <1>3. CASE child \in Entries /\ child.dirty /\ parent \in Entries
    <2>1. ~MergeThrows(child, parent)
      BY <1>3, CoinAssumption DEF MergeThrows, EntryRight, EntryCoin
    <2>2. CASE child.coin = Spent /\ parent.fresh
      BY Zenon, <1>3, <2>1, <2>2, CoinAssumption DEF Merged, EntryRight, EntryCoin
    <2>3. CASE ~(child.coin = Spent /\ parent.fresh)
      <3>1. Merged(child, parent) = [coin |-> child.coin, dirty |-> TRUE, fresh |-> parent.fresh]
        BY Zenon, <1>3, <2>3, CoinAssumption DEF Merged
      <3> QED
        <4> DEFINE m == [coin |-> child.coin, dirty |-> TRUE, fresh |-> parent.fresh]
        <4>1. m \in Entries /\ m # None
          <5>1. child.coin \in Coins \cup {Spent} /\ parent.fresh \in BOOLEAN
            BY <1>3 DEF Entries
          <5>2. m \in Entries
            BY <5>1 DEF Entries
          <5> QED
            BY Zenon, <5>2, CoinAssumption
        <4>2. EntryRight(m, coin)
          BY <1>3, <2>3, <4>1, CoinAssumption DEF EntryRight
        <4>3. EntryCoin(m, coin) = EntryCoin(child, EntryCoin(parent, coin))
          BY <1>3, <4>1, CoinAssumption DEF EntryCoin
        <4> QED
          BY <2>1, <3>1, <4>1, <4>2, <4>3
    <2> QED
      BY <2>2, <2>3
  <1> QED
    BY <1>1, <1>2, <1>3

\* A flush moves what the view shows into the parent and leaves its flags right.
LEMMA MergeShowsView ==
    ASSUME NEW child \in Caches, NEW parent \in Caches,
           NEW base \in [Outpoints -> Coins \cup {Spent}],
           FlagsRight(parent, base), FlagsRight(child, Seen(parent, base)),
           NEW merged, merged = [o \in Outpoints |-> Merged(child[o], parent[o])]
    PROVE  /\ merged \in Caches
           /\ Seen(merged, base) = Seen(child, Seen(parent, base))
           /\ FlagsRight(merged, base)
           /\ \A o \in Outpoints : ~MergeThrows(child[o], parent[o])
  <1>1. ASSUME NEW o \in Outpoints
        PROVE  /\ merged[o] \in Entries \cup {None}
               /\ EntryCoin(merged[o], base[o]) = EntryCoin(child[o], EntryCoin(parent[o], base[o]))
               /\ EntryRight(merged[o], base[o])
               /\ ~MergeThrows(child[o], parent[o])
    <2>1. /\ child[o] \in Entries \cup {None} /\ parent[o] \in Entries \cup {None}
          /\ base[o] \in Coins \cup {Spent}
      BY DEF Caches
    <2>2. EntryRight(parent[o], base[o])
      BY DEF EntryRight, FlagsRight
    <2>3. EntryRight(child[o], EntryCoin(parent[o], base[o]))
      BY DEF EntryRight, EntryCoin, FlagsRight, Seen
    <2> QED
      BY <2>1, <2>2, <2>3, MergeEntry
  <1>2. merged \in Caches
    BY <1>1 DEF Caches
  <1>3. Seen(merged, base) = Seen(child, Seen(parent, base))
    BY <1>1 DEF Seen, EntryCoin
  <1>4. FlagsRight(merged, base)
    BY <1>1 DEF FlagsRight, EntryRight
  <1> QED
    BY <1>1, <1>2, <1>3, <1>4

-----------------------------------------------------------------------------
(* One lemma per kind of operation: the invariant is kept and the step is  *)
(* one of UtxoSet, or none.                                                *)

Kept == IInv' /\ [Utxo!Next]_(Utxo!vars)

\* What both layers show are maps of coins.
LEMMA Shown ==
    ASSUME IInv
    PROVE  /\ TipCoins \in [Outpoints -> Coins \cup {Spent}]
           /\ ViewCoins \in [Outpoints -> Coins \cup {Spent}]
  BY SeenType DEF IInv, TypeOK, TipCoins, ViewCoins

\* A lookup in pcoinsTip and an eviction from it change nothing that can be seen.
LEMMA TipStepKeeps ==
    ASSUME IInv, NEW o \in Outpoints, FetchTip(o) \/ Uncache(o)
    PROVE  Kept
  <1> USE DEF IInv
  <1>1. /\ tip' \in Caches /\ Seen(tip', db) = Seen(tip, db) /\ FlagsRight(tip', db)
        /\ UNCHANGED <<db, dbBest, tipHash, view, viewHash, open, thrown>>
    <2>1. CASE FetchTip(o)
      BY <2>1, FetchShowsSame DEF FetchTip, TypeOK, FlagsMean
    <2>2. CASE Uncache(o)
      <3>1. tip[o] \in Entries /\ tip[o].coin = db[o]
        BY <2>2 DEF Uncache, TypeOK, Caches, FlagsMean, FlagsRight
      <3> QED
        BY <2>2, <3>1 DEF Uncache, TypeOK, Caches, FlagsMean, FlagsRight, Seen
    <2> QED
      BY <2>1, <2>2
  <1>2. TipCoins' = TipCoins /\ ViewCoins' = ViewCoins
    BY <1>1 DEF TipCoins, ViewCoins, Seen
  <1>3. IInv'
    BY <1>1, <1>2 DEF TypeOK, FlagsMean, NeverThrows, FlagsRight, Empty
  <1> QED
    BY <1>1, <1>2, <1>3 DEF Kept, Utxo!vars, BestBlock

\* The lookup that precedes an operation on the view leaves what pcoinsTip shows.
LEMMA FetchedShowsSame ==
    ASSUME IInv, NEW o \in Outpoints, Fetched(o), db' = db
    PROVE  tip' \in Caches /\ TipCoins' = TipCoins /\ FlagsRight(tip', db)
  BY FetchShowsSame DEF IInv, Fetched, TypeOK, FlagsMean, TipCoins

\* A lookup in the view.
LEMMA FetchViewKeeps ==
    ASSUME IInv, NEW o \in Outpoints, FetchView(o)
    PROVE  Kept
  <1> USE DEF IInv
  <1>1. /\ tip' \in Caches /\ TipCoins' = TipCoins /\ FlagsRight(tip', db)
        /\ UNCHANGED <<db, dbBest, tipHash, viewHash, open, thrown>> /\ open
        /\ view' = FetchCoin(view, TipCoins, o)
    BY FetchedShowsSame DEF FetchView
  <1>2. /\ view' \in Caches /\ Seen(view', TipCoins) = Seen(view, TipCoins)
        /\ FlagsRight(view', TipCoins)
    BY <1>1, FetchShowsSame, Shown DEF TypeOK, FlagsMean
  <1>3. ViewCoins' = ViewCoins
    BY <1>1, <1>2 DEF ViewCoins
  <1>4. IInv'
    BY <1>1, <1>2 DEF TypeOK, FlagsMean, NeverThrows
  <1> QED
    BY <1>1, <1>3, <1>4 DEF Kept, Utxo!vars, BestBlock

\* A coin that changes in the view changes in no other layer.
LEMMA PutKeeps ==
    ASSUME IInv, NEW o \in Outpoints, NEW c \in Coins \cup {Spent}, open,
           tip' \in Caches, TipCoins' = TipCoins, FlagsRight(tip', db),
           UNCHANGED <<db, dbBest, tipHash, viewHash, open, thrown>>,
           NEW e \in Entries \cup {None}, view' = [view EXCEPT ![o] = e],
           EntryRight(e, TipCoins[o]), EntryCoin(e, TipCoins[o]) = c
    PROVE  Kept /\ Utxo!Put(o, c)
  <1> USE DEF IInv
  <1>1. view' \in Caches
    BY DEF TypeOK, Caches
  <1>2. FlagsRight(view', TipCoins)
    BY DEF TypeOK, Caches, FlagsMean, FlagsRight, EntryRight
  <1>3. ViewCoins' = [ViewCoins EXCEPT ![o] = c]
    <2>1. ASSUME NEW p \in Outpoints
          PROVE  ViewCoins'[p] = [ViewCoins EXCEPT ![o] = c][p]
      BY Shown DEF ViewCoins, Seen, EntryCoin, TypeOK, Caches
    <2> QED
      BY Zenon, <2>1 DEF ViewCoins, Seen
  <1>4. IInv'
    BY <1>1, <1>2 DEF TypeOK, FlagsMean, NeverThrows
  <1>5. Utxo!Put(o, c)
    BY <1>3 DEF Utxo!Put, BestBlock
  <1> QED
    BY <1>4, <1>5 DEF Kept, Utxo!Next

\* AddCoin, by a caller that vouches for overwrite, does not throw and gives the right flags.
LEMMA AddCoinKeeps ==
    ASSUME IInv, NEW o \in Outpoints, NEW c \in Coins, NEW overwrite \in BOOLEAN,
           AddCoin(o, c, overwrite)
    PROVE  Kept /\ Utxo!Put(o, c)
  <1> USE DEF IInv
  <1> DEFINE e == [coin |-> c, dirty |-> TRUE, fresh |-> Fresh(view[o], overwrite)]
  <1>1. view[o] \in Entries \cup {None} /\ EntryRight(view[o], TipCoins[o])
    BY DEF TypeOK, Caches, FlagsMean, FlagsRight, EntryRight
  <1>2. overwrite \/ EntryCoin(view[o], TipCoins[o]) = Spent
    BY DEF AddCoin, ViewCoins, Seen, EntryCoin
  <1>3. ~AddCoinThrows(view[o], overwrite)
    BY <1>2 DEF AddCoinThrows, EntryCoin
  <1>4. Fresh(view[o], overwrite) \in BOOLEAN
    BY <1>1 DEF Fresh, Entries
  <1>5. e \in Entries
    BY <1>4 DEF Entries
  <1>6. Fresh(view[o], overwrite) => TipCoins[o] = Spent
    BY <1>1, <1>2 DEF Fresh, EntryRight, EntryCoin
  <1>7. EntryRight(e, TipCoins[o]) /\ EntryCoin(e, TipCoins[o]) = c
    BY Zenon, <1>5, <1>6, CoinAssumption DEF EntryRight, EntryCoin
  <1>8. /\ view' = [view EXCEPT ![o] = e]
        /\ open /\ UNCHANGED <<db, dbBest, tip, tipHash, viewHash, open, thrown>>
    BY <1>3 DEF AddCoin
  <1>9. tip' \in Caches /\ TipCoins' = TipCoins /\ FlagsRight(tip', db)
    BY <1>8 DEF TypeOK, TipCoins, FlagsMean
  <1> HIDE DEF e
  <1> QED
    BY Zenon, <1>5, <1>7, <1>8, <1>9, PutKeeps

\* SpendCoin, which erases an entry the base does not know of.
LEMMA SpendCoinKeeps ==
    ASSUME IInv, NEW o \in Outpoints, SpendCoin(o)
    PROVE  Kept /\ Utxo!Put(o, Spent)
  <1> USE DEF IInv
  <1> DEFINE f == FetchCoin(view, TipCoins, o)[o]
             e == SpentEntry(f)
  <1>1. f \in Entries \cup {None} /\ EntryRight(f, TipCoins[o]) /\ (f = None => TipCoins[o] = Spent)
    <2>1. FetchCoin(view, TipCoins, o) \in Caches /\ FlagsRight(FetchCoin(view, TipCoins, o), TipCoins)
      BY FetchShowsSame, Shown DEF TypeOK, FlagsMean
    <2>2. f = None => TipCoins[o] = Spent
      <3>1. [coin |-> TipCoins[o], dirty |-> FALSE, fresh |-> FALSE] \in Entries
        BY Shown DEF Entries
      <3> QED
        BY Zenon, <3>1, CoinAssumption DEF FetchCoin, TypeOK, Caches
    <2> QED
      BY <2>1, <2>2 DEF Caches, FlagsRight, EntryRight
  <1> HIDE DEF f
  <1>2. e \in Entries \cup {None}
    BY DEF SpentEntry, Entries
  <1>3. EntryRight(e, TipCoins[o]) /\ EntryCoin(e, TipCoins[o]) = Spent
    <2>1. CASE f = None \/ f.fresh
      BY <1>1, <2>1 DEF SpentEntry, EntryRight, EntryCoin
    <2>2. CASE ~(f = None \/ f.fresh)
      <3>1. e = [coin |-> Spent, dirty |-> TRUE, fresh |-> FALSE]
        BY <2>2 DEF SpentEntry
      <3>2. e \in Entries
        BY <3>1 DEF Entries
      <3>3. e # None
        BY <3>2, CoinAssumption
      <3> QED
        BY <3>1, <3>3 DEF EntryRight, EntryCoin
    <2> QED
      BY <2>1, <2>2
  <1>4. /\ view' = [view EXCEPT ![o] = e]
        /\ open /\ Fetched(o) /\ UNCHANGED <<db, dbBest, tipHash, viewHash, open, thrown>>
    BY DEF SpendCoin, f
  <1>5. tip' \in Caches /\ TipCoins' = TipCoins /\ FlagsRight(tip', db)
    BY <1>4, FetchedShowsSame
  <1> HIDE DEF e
  <1> QED
    BY Zenon, <1>2, <1>3, <1>4, <1>5, PutKeeps

\* The view is opened, told its best block, or given up.
LEMMA ViewKeeps ==
    ASSUME IInv, NewView \/ GetBestBlock \/ DropView \/ \E b \in Blocks : SetBestBlock(b)
    PROVE  Kept /\ (DropView => Utxo!Forget)
  <1> USE DEF IInv
  <1>1. TipCoins' = TipCoins /\ tip' = tip /\ db' = db /\ dbBest' = dbBest /\ thrown' = thrown
    BY DEF NewView, GetBestBlock, DropView, SetBestBlock, TipCoins
  <1>2. Seen(Empty, TipCoins) = TipCoins /\ FlagsRight(Empty, TipCoins) /\ Empty \in Caches
    BY EmptyShowsBase, Shown
  <1>3. ASSUME NewView PROVE Kept
    <2>1. view = Empty /\ view' = Empty /\ viewHash = Null /\ viewHash' = Null /\ tipHash' = tipHash
      BY <1>3 DEF NewView, FlagsMean
    <2>2. ViewCoins' = ViewCoins
      BY <1>1, <2>1 DEF ViewCoins
    <2>3. IInv'
      BY <1>1, <1>2, <1>3, <2>1 DEF NewView, TypeOK, FlagsMean, NeverThrows
    <2>4. Utxo!Open
      BY <1>1, <1>3, <2>1, <2>2 DEF Utxo!Open, NewView, BestBlock
    <2> QED
      BY <2>3, <2>4 DEF Kept, Utxo!Next
  <1>4. ASSUME GetBestBlock PROVE Kept
    <2>1. /\ view' = view /\ open' = open /\ ViewCoins' = ViewCoins
          /\ tipHash' = BestBlock(tipHash, dbBest)
          /\ viewHash' = IF open THEN BestBlock(viewHash, tipHash') ELSE viewHash
      BY <1>1, <1>4 DEF GetBestBlock, ViewCoins
    <2>2. IInv'
      BY <1>1, <2>1 DEF TypeOK, FlagsMean, NeverThrows, BestBlock, FlagsRight, Empty
    <2> QED
      BY <1>1, <2>1, <2>2 DEF Kept, Utxo!vars, BestBlock, FlagsMean
  <1>5. ASSUME DropView PROVE Kept /\ Utxo!Forget
    <2>1. view' = Empty /\ viewHash' = Null /\ tipHash' = tipHash /\ open /\ open' = FALSE
      BY <1>5 DEF DropView
    <2>2. ViewCoins' = TipCoins
      BY <1>1, <1>2, <2>1 DEF ViewCoins
    <2>3. IInv'
      BY Zenon, <1>1, <1>2, <2>1 DEF TypeOK, FlagsMean, NeverThrows
    <2>4. Utxo!Forget
      BY <1>1, <2>1, <2>2 DEF Utxo!Forget, BestBlock
    <2> QED
      BY <2>3, <2>4 DEF Kept, Utxo!Next
  <1>6. ASSUME \E b \in Blocks : SetBestBlock(b) PROVE Kept
    <2>1. PICK b \in Blocks : SetBestBlock(b)
      BY <1>6
    <2>2. /\ view' = view /\ open' = open /\ ViewCoins' = ViewCoins /\ open
          /\ tipHash' = tipHash /\ viewHash' = b
      BY <1>1, <2>1 DEF SetBestBlock, ViewCoins
    <2>3. IInv'
      BY <1>1, <2>2 DEF TypeOK, FlagsMean, NeverThrows
    <2>4. Utxo!MoveTo(b)
      BY <1>1, <2>2, CoinAssumption DEF Utxo!MoveTo, BestBlock
    <2> QED
      BY <2>3, <2>4 DEF Kept, Utxo!Next
  <1> QED
    BY <1>3, <1>4, <1>5, <1>6

\* The view is flushed into pcoinsTip.
LEMMA FlushViewKeeps ==
    ASSUME IInv, FlushView
    PROVE  Kept /\ Utxo!Commit
  <1> USE DEF IInv
  <1> DEFINE merged == [o \in Outpoints |-> Merged(view[o], tip[o])]
  <1>1. /\ merged \in Caches /\ Seen(merged, db) = ViewCoins /\ FlagsRight(merged, db)
        /\ \A o \in Outpoints : ~MergeThrows(view[o], tip[o])
    BY MergeShowsView DEF TypeOK, FlagsMean, ViewCoins, TipCoins
  <1>2. /\ tip' = merged /\ tipHash' = viewHash /\ viewHash \in Blocks
        /\ view' = Empty /\ viewHash' = Null /\ open /\ open' = FALSE
        /\ UNCHANGED <<db, dbBest, thrown>>
    BY <1>1 DEF FlushView
  <1> HIDE DEF merged
  <1>3. TipCoins' = ViewCoins
    BY <1>1, <1>2 DEF TipCoins
  <1>4. ViewCoins' = ViewCoins /\ FlagsRight(Empty, TipCoins') /\ Empty \in Caches
    <2>1. Seen(Empty, ViewCoins) = ViewCoins /\ FlagsRight(Empty, ViewCoins) /\ Empty \in Caches
      BY EmptyShowsBase, Shown
    <2> QED
      BY <1>2, <1>3, <2>1 DEF ViewCoins
  <1>5. IInv'
    BY Zenon, <1>1, <1>2, <1>4 DEF TypeOK, FlagsMean, NeverThrows
  <1>6. Utxo!Commit
    BY <1>2, <1>3, <1>4, CoinAssumption DEF Utxo!Commit, BestBlock
  <1> QED
    BY <1>5, <1>6 DEF Kept, Utxo!Next

\* pcoinsTip is flushed into the database.
LEMMA FlushTipKeeps ==
    ASSUME IInv, FlushTip
    PROVE  Kept /\ Utxo!Sync
  <1> USE DEF IInv
  <1>1. /\ db' = [o \in Outpoints |-> Written(o)]
        /\ dbBest' = BestBlock(tipHash, dbBest) /\ tipHash' = BestBlock(tipHash, dbBest)
        /\ tip' = Empty /\ ~open /\ UNCHANGED <<view, viewHash, open, thrown>>
        /\ view = Empty /\ viewHash = Null
    BY DEF FlushTip, FlagsMean
  <1>2. db' = TipCoins
    <2>1. ASSUME NEW o \in Outpoints
          PROVE  Written(o) = IF tip[o] = None THEN db[o] ELSE tip[o].coin
      BY DEF Written, FlagsMean, FlagsRight
    <2> QED
      BY <1>1, <2>1 DEF TipCoins, Seen
  <1>3. /\ Seen(Empty, TipCoins) = TipCoins /\ FlagsRight(Empty, TipCoins) /\ Empty \in Caches
        /\ TipCoins \in [Outpoints -> Coins \cup {Spent}]
    BY EmptyShowsBase, Shown
  <1>4. TipCoins' = TipCoins /\ ViewCoins = TipCoins /\ ViewCoins' = TipCoins
    <2>1. TipCoins' = TipCoins
      BY <1>1, <1>2, <1>3 DEF TipCoins
    <2> QED
      BY <1>1, <1>3, <2>1 DEF ViewCoins
  <1>5. IInv'
    BY <1>1, <1>2, <1>3, <1>4 DEF TypeOK, FlagsMean, NeverThrows, BestBlock
  <1>6. Utxo!Sync
    BY <1>1, <1>2, <1>4 DEF Utxo!Sync, BestBlock
  <1> QED
    BY <1>5, <1>6 DEF Kept, Utxo!Next

\* Every step.
LEMMA StepKeeps == IInv /\ [Next]_vars => Kept
  <1> SUFFICES ASSUME IInv, [Next]_vars PROVE Kept
    OBVIOUS
  <1>1. CASE UNCHANGED vars
    BY <1>1 DEF vars, Kept, IInv, TypeOK, FlagsMean, NeverThrows, FlagsRight, TipCoins, ViewCoins,
                Seen, BestBlock, Utxo!vars, Empty
  <1>2. CASE \E o \in Outpoints : FetchTip(o) \/ Uncache(o)
    BY <1>2, TipStepKeeps
  <1>3. CASE \E o \in Outpoints : FetchView(o)
    BY <1>3, FetchViewKeeps
  <1>4. CASE \E o \in Outpoints : SpendCoin(o)
    BY <1>4, SpendCoinKeeps
  <1>5. CASE \E o \in Outpoints, c \in Coins, overwrite \in BOOLEAN : AddCoin(o, c, overwrite)
    BY <1>5, AddCoinKeeps
  <1>6. CASE NewView \/ GetBestBlock \/ DropView \/ \E b \in Blocks : SetBestBlock(b)
    BY <1>6, ViewKeeps
  <1>7. CASE FlushView \/ FlushTip
    BY <1>7, FlushViewKeeps, FlushTipKeeps
  <1> QED
    BY <1>1, <1>2, <1>3, <1>4, <1>5, <1>6, <1>7 DEF Next

\* A database and empty caches.
LEMMA InitHolds == Init => IInv /\ Utxo!Init
  <1> SUFFICES ASSUME Init PROVE IInv /\ Utxo!Init
    OBVIOUS
  <1>1. TipCoins = db /\ FlagsRight(tip, db) /\ Empty \in Caches
    BY EmptyShowsBase DEF Init, TipCoins
  <1>2. ViewCoins = db /\ FlagsRight(view, TipCoins)
    BY <1>1, EmptyShowsBase DEF Init, ViewCoins
  <1> QED
    BY Zenon, <1>1, <1>2 DEF Init, IInv, TypeOK, FlagsMean, NeverThrows, Utxo!Init, BestBlock

\* DIRTY and FRESH mean what coins.h says of them in both layers, so that no change is lost when
\* FRESH entries are erased, clean ones are dropped or a layer is flushed.
THEOREM FlagsAreRight == Spec => []FlagsMean
  <1>1. IInv /\ [Next]_vars => IInv'
    BY StepKeeps DEF Kept
  <1>2. IInv => FlagsMean
    BY DEF IInv
  <1> QED
    BY InitHolds, <1>1, <1>2, PTL DEF Spec

\* AddCoin and BatchWrite never throw their logic_error.
THEOREM NoLogicError == Spec => []NeverThrows
  <1>1. IInv /\ [Next]_vars => IInv'
    BY StepKeeps DEF Kept
  <1>2. IInv => NeverThrows
    BY DEF IInv
  <1> QED
    BY InitHolds, <1>1, <1>2, PTL DEF Spec

\* The stack of caches implements the maps of UtxoSet: whatever is looked up, evicted or flushed,
\* each layer shows what a map without a cache would.
THEOREM CachesImplementUtxoSet == Spec => ImplementsUtxoSet
  <1>1. IInv /\ [Next]_vars => IInv'
    BY StepKeeps DEF Kept
  <1>2. IInv /\ [Next]_vars => [Utxo!Next]_(Utxo!vars)
    BY StepKeeps DEF Kept
  <1> QED
    BY InitHolds, <1>1, <1>2, PTL DEF Spec, ImplementsUtxoSet, Utxo!Spec

\* A spending, an addition and a flush do to the maps what their names say.
THEOREM EachOperationTakesEffect == Spec => OperationsTakeEffect
  <1> DEFINE Effect ==
        /\ \A o \in Outpoints :
              /\ SpendCoin(o) => Utxo!Put(o, Spent)
              /\ \A c \in Coins, overwrite \in BOOLEAN : AddCoin(o, c, overwrite) => Utxo!Put(o, c)
        /\ FlushView => Utxo!Commit
        /\ DropView => Utxo!Forget
        /\ FlushTip => Utxo!Sync
  <1>1. IInv /\ [Next]_vars => IInv'
    BY StepKeeps DEF Kept
  <1>2. IInv /\ [Next]_vars => [Effect]_vars
    <2>1. ASSUME IInv, NEW o \in Outpoints, SpendCoin(o) PROVE Utxo!Put(o, Spent)
      BY <2>1, SpendCoinKeeps
    <2>2. ASSUME IInv, NEW o \in Outpoints, NEW c \in Coins, NEW overwrite \in BOOLEAN,
                 AddCoin(o, c, overwrite)
          PROVE  Utxo!Put(o, c)
      BY <2>2, AddCoinKeeps
    <2>3. IInv => (FlushView => Utxo!Commit) /\ (DropView => Utxo!Forget) /\ (FlushTip => Utxo!Sync)
      BY FlushViewKeeps, ViewKeeps, FlushTipKeeps
    <2> QED
      BY <2>1, <2>2, <2>3
  <1> HIDE DEF Effect
  <1>3. Spec => [][Effect]_vars
    BY InitHolds, <1>1, <1>2, PTL DEF Spec
  <1> QED
    BY <1>3 DEF OperationsTakeEffect, Effect

==============================================================================
