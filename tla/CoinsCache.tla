----------------------------- MODULE CoinsCache -----------------------------
(***************************************************************************)
(* CCoinsViewCache of coins.cpp in the two layers validation.cpp stacks:   *)
(* pcoinsTip over the chainstate database, and over pcoinsTip the view in  *)
(* which ConnectTip and DisconnectTip apply a block.  Both are accessed    *)
(* under cs_main, so that a step is one call; only ProcessNewBlock reads   *)
(* pcoinsTip without it, a FetchTip that the model takes to be as atomic   *)
(* as the others.                                                          *)
(*                                                                         *)
(* A coin is a model value; Spent stands for a cleared coin and for none.  *)
(* A cache maps an outpoint to its entry or to None.                       *)
(***************************************************************************)
CONSTANTS Outpoints, Coins, Spent, Blocks, Null, None

Entries == [coin : Coins \cup {Spent}, dirty : BOOLEAN, fresh : BOOLEAN]

ASSUME CoinAssumption ==
    /\ Spent \notin Coins /\ Null \notin Blocks
    /\ None \notin Entries

VARIABLES
    db, dbBest,         \* CCoinsViewDB: coins and DB_BEST_BLOCK
    tip, tipHash,       \* pcoinsTip: cacheCoins and hashBlock
    view, viewHash,     \* the temporary view
    open,               \* whether there is one
    thrown              \* whether a logic_error was thrown

vars == <<db, dbBest, tip, tipHash, view, viewHash, open, thrown>>

Empty == [o \in Outpoints |-> None]

Init ==
    /\ db \in [Outpoints -> Coins \cup {Spent}] /\ dbBest \in Blocks \cup {Null}
    /\ tip = Empty /\ tipHash = Null
    /\ view = Empty /\ viewHash = Null
    /\ open = FALSE /\ thrown = FALSE

-----------------------------------------------------------------------------
(* One cache over what its base shows.                                     *)

\* What GetCoin finds.
Seen(cache, base) ==
    [o \in Outpoints |-> IF cache[o] = None THEN base[o] ELSE cache[o].coin]

\* GetBestBlock.
BestBlock(hash, base) == IF hash = Null THEN base ELSE hash

\* FetchCoin.  GetCoin of the base returns false for a spent coin, so that a spent entry never
\* comes up from there.
FetchCoin(cache, base, o) ==
    IF cache[o] = None /\ base[o] # Spent
      THEN [cache EXCEPT ![o] = [coin |-> base[o], dirty |-> FALSE, fresh |-> FALSE]]
      ELSE cache

\* AddCoin: the flags the entry gets, and the case in which it throws.  The first is a variant
\* that takes an entry that is not there for one the base does not have.
FreshUnchecked(entry, overwrite) == ~overwrite \/ (entry # None /\ entry.fresh)

Fresh(entry, overwrite) ==
    \/ entry # None /\ entry.fresh
    \/ ~overwrite /\ (entry = None \/ ~entry.dirty)

AddCoinThrows(entry, overwrite) == ~overwrite /\ entry # None /\ entry.coin # Spent

\* SpendCoin on an entry that is there: a FRESH one is erased.  The first is a variant that
\* erases every entry.
SpentErased(entry) == None

SpentEntry(entry) ==
    IF entry = None \/ entry.fresh THEN None
    ELSE [coin |-> Spent, dirty |-> TRUE, fresh |-> FALSE]

\* BatchWrite of an entry of the child over that of the parent.  The first is a variant that
\* copies the FRESH flag of the child.
MergedFresh(child, parent) ==
    IF child = None \/ ~child.dirty THEN parent
    ELSE IF child.coin = Spent /\ (IF parent = None THEN child.fresh ELSE parent.fresh) THEN None
    ELSE [coin |-> child.coin, dirty |-> TRUE,
          fresh |-> child.fresh \/ (parent # None /\ parent.fresh)]

Merged(child, parent) ==
    IF child = None \/ ~child.dirty THEN parent
    ELSE IF child.coin = Spent /\ (IF parent = None THEN child.fresh ELSE parent.fresh) THEN None
    ELSE [coin |-> child.coin, dirty |-> TRUE,
          fresh |-> IF parent = None THEN child.fresh ELSE parent.fresh]

MergeThrows(child, parent) ==
    /\ child # None /\ child.dirty /\ child.fresh
    /\ parent # None /\ parent.coin # Spent

-----------------------------------------------------------------------------
TipCoins == Seen(tip, db)
ViewCoins == Seen(view, TipCoins)

\* A lookup in pcoinsTip (HaveCoin, AccessCoin, GetCoin), by the mempool or by ConnectBlock.
FetchTip(o) ==
    /\ tip' = FetchCoin(tip, db, o)
    /\ UNCHANGED <<db, dbBest, tipHash, view, viewHash, open, thrown>>

\* The lookup in the view that precedes each of its operations caches the coin in both layers.
Fetched(o) == tip' = IF view[o] = None THEN FetchCoin(tip, db, o) ELSE tip

FetchView(o) ==
    /\ open
    /\ Fetched(o)
    /\ view' = FetchCoin(view, TipCoins, o)
    /\ UNCHANGED <<db, dbBest, tipHash, viewHash, open, thrown>>

NewView ==
    /\ ~open /\ open' = TRUE
    /\ view' = Empty /\ viewHash' = Null
    /\ UNCHANGED <<db, dbBest, tip, tipHash, thrown>>

\* AddCoin of a spendable output.  Its callers vouch for overwrite: ApplyTxInUndo and AddCoins with check
\* by HaveCoin; a coinbase passes true.  For other transactions ConnectBlock relies on their ids being
\* new: coinbases state their heights, so no transaction can occur twice, and the BIP30 check of every
\* output is made at heights where that is not certain only.
AddCoin(o, c, overwrite) ==
    /\ open
    /\ overwrite \/ ViewCoins[o] = Spent
    /\ IF AddCoinThrows(view[o], overwrite)
         THEN thrown' = TRUE /\ UNCHANGED view
         ELSE /\ view' = [view EXCEPT ![o] = [coin |-> c, dirty |-> TRUE,
                                              fresh |-> Fresh(view[o], overwrite)]]
              /\ UNCHANGED thrown
    /\ UNCHANGED <<db, dbBest, tip, tipHash, viewHash, open>>

SpendCoin(o) ==
    /\ open
    /\ Fetched(o)
    /\ view' = [view EXCEPT ![o] = SpentEntry(FetchCoin(view, TipCoins, o)[o])]
    /\ UNCHANGED <<db, dbBest, tipHash, viewHash, open, thrown>>

\* GetBestBlock, by ConnectBlock, DisconnectTip or LoadChainTip, is remembered by each layer.
GetBestBlock ==
    /\ tipHash' = BestBlock(tipHash, dbBest)
    /\ viewHash' = IF open THEN BestBlock(viewHash, tipHash') ELSE viewHash
    /\ UNCHANGED <<db, dbBest, tip, view, open, thrown>>

SetBestBlock(b) ==
    /\ open /\ viewHash' = b
    /\ UNCHANGED <<db, dbBest, tip, tipHash, view, open, thrown>>

\* Flush of the view.  ConnectBlock and DisconnectBlock have set its best block.
FlushView ==
    /\ open /\ open' = FALSE
    /\ viewHash \in Blocks
    /\ IF \E o \in Outpoints : MergeThrows(view[o], tip[o])
         THEN thrown' = TRUE /\ UNCHANGED <<tip, tipHash>>
         ELSE /\ tip' = [o \in Outpoints |-> Merged(view[o], tip[o])]
              /\ tipHash' = viewHash
              /\ UNCHANGED thrown
    /\ view' = Empty /\ viewHash' = Null
    /\ UNCHANGED <<db, dbBest>>

\* The view goes out of scope after ConnectBlock or DisconnectBlock has failed, or a check only.
DropView ==
    /\ open /\ open' = FALSE
    /\ view' = Empty /\ viewHash' = Null
    /\ UNCHANGED <<db, dbBest, tip, tipHash, thrown>>

\* Uncache by the mempool, when a transaction is not accepted or leaves.
Uncache(o) ==
    /\ ~open /\ tip[o] # None /\ ~tip[o].dirty /\ ~tip[o].fresh
    /\ tip' = [tip EXCEPT ![o] = None]
    /\ UNCHANGED <<db, dbBest, tipHash, view, viewHash, open, thrown>>

\* What BatchWrite of the database writes.  The first is a variant that passes over spent coins.
WrittenUnspent(o) == IF tip[o] # None /\ tip[o].coin # Spent THEN tip[o].coin ELSE db[o]

Written(o) == IF tip[o] # None /\ tip[o].dirty THEN tip[o].coin ELSE db[o]

\* Flush of pcoinsTip by FlushStateToDisk, when all of it reaches the database.
FlushTip ==
    /\ ~open /\ BestBlock(tipHash, dbBest) # Null
    /\ db' = [o \in Outpoints |-> Written(o)]
    /\ dbBest' = BestBlock(tipHash, dbBest)
    /\ tip' = Empty /\ tipHash' = BestBlock(tipHash, dbBest)
    /\ UNCHANGED <<view, viewHash, open, thrown>>

-----------------------------------------------------------------------------
Next ==
    \/ NewView \/ GetBestBlock \/ FlushView \/ DropView \/ FlushTip
    \/ \E o \in Outpoints :
          \/ FetchTip(o) \/ FetchView(o) \/ SpendCoin(o) \/ Uncache(o)
          \/ \E c \in Coins, overwrite \in BOOLEAN : AddCoin(o, c, overwrite)
    \/ \E b \in Blocks : SetBestBlock(b)

Spec == Init /\ [][Next]_vars

-----------------------------------------------------------------------------
Caches == [Outpoints -> Entries \cup {None}]

TypeOK ==
    /\ db \in [Outpoints -> Coins \cup {Spent}] /\ dbBest \in Blocks \cup {Null}
    /\ tip \in Caches /\ tipHash \in Blocks \cup {Null}
    /\ view \in Caches /\ viewHash \in Blocks \cup {Null}
    /\ open \in BOOLEAN /\ thrown \in BOOLEAN

\* The meaning of the flags over what the base shows: an entry without DIRTY is "[not] potentially
\* different from the version in the parent view", with FRESH "the parent view does not have this
\* entry (or it is pruned)", and a spent entry is one the parent has to be told of.
FlagsRight(cache, base) ==
    \A o \in Outpoints : cache[o] # None =>
        /\ ~cache[o].dirty => cache[o].coin = base[o] /\ ~cache[o].fresh
        /\ cache[o].fresh => base[o] = Spent
        /\ cache[o].coin = Spent => cache[o].dirty /\ ~cache[o].fresh

\* The flags of both layers are right whatever the order of lookups, additions, spendings, flushes
\* and evictions: the erasing of FRESH entries and the dropping of clean ones lose no change.
FlagsMean ==
    /\ FlagsRight(tip, db) /\ FlagsRight(view, TipCoins)
    /\ ~open => view = Empty /\ viewHash = Null

\* Neither "Adding new coin that replaces non-pruned entry" nor "FRESH flag misapplied" is thrown.
NeverThrows == ~thrown

\* The caches show the maps without them: lookups and evictions change nothing that can be seen,
\* a flush moves exactly what the upper layer shows into the lower one.
Utxo == INSTANCE UtxoSet WITH
    disk <- db, diskBest <- dbBest,
    tip <- TipCoins, tipBest <- BestBlock(tipHash, dbBest),
    view <- ViewCoins, viewBest <- BestBlock(viewHash, BestBlock(tipHash, dbBest))

ImplementsUtxoSet == Utxo!Spec

\* And each operation is the one it should be: a spending is never lost because the entry is
\* erased, an addition never because the flags are wrong, and a flush is all or nothing.
OperationsTakeEffect ==
    [][/\ \A o \in Outpoints :
             /\ SpendCoin(o) => Utxo!Put(o, Spent)
             /\ \A c \in Coins, overwrite \in BOOLEAN : AddCoin(o, c, overwrite) => Utxo!Put(o, c)
       /\ FlushView => Utxo!Commit
       /\ DropView => Utxo!Forget
       /\ FlushTip => Utxo!Sync]_vars

==============================================================================
