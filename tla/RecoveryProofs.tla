--------------------------- MODULE RecoveryProofs ---------------------------
(***************************************************************************)
(* The safety properties of Recovery for every tree of blocks, every set   *)
(* of outpoints and every sequence of flushes, crashes and replays.        *)
(***************************************************************************)
EXTENDS Recovery, TLAPS

Running == {"run", "files", "index", "coins"}
Base(d) == IF d.old = None THEN Genesis ELSE d.old
Needs(b) == {<<b, "block">>, <<b, "undo">>}

\* A database is consistent with its best block, or between its head blocks.
DbOK(d) ==
    /\ d.best # None => d.new = None /\ \A o \in Outpoints : d.coins[o] = Utxo[d.best][o]
    /\ d.best = None => \A o \in Outpoints :
          d.coins[o] = Utxo[Base(d)][o] \/ (d.new # None /\ d.coins[o] = Utxo[d.new][o])
    /\ d.new = None => d.old = None
DatabasesOK == DbOK(disk) /\ DbOK(safe)

\* The cache of the running node; a transition is only open while coins are written.
CacheOK ==
    phase \in Running =>
        /\ \A o \in Outpoints : IF cacheCoins[o] = Clean THEN disk.coins[o] = Utxo[tip][o]
                                                         ELSE cacheCoins[o] = Utxo[tip][o]
        /\ disk.new # None => phase = "coins" /\ disk.new = tip

\* The cache of ReplayBlocks has the coins after the block it has got to, except where neither
\* branch has touched them so far.
ReplayOK ==
    phase = "replay" =>
        /\ disk.new # None /\ at \in Blocks
        /\ \A o \in Outpoints :
              IF cacheCoins[o] = Clean
                THEN Utxo[at][o] = Utxo[Base(disk)][o] \/ disk.coins[o] = Utxo[at][o]
                ELSE cacheCoins[o] = Utxo[at][o]

\* The block index in memory is ahead of the one on disk by its dirty entries, and has what the
\* tip needs; the one on disk has what the databases need.
Indexed(d) ==
    \A h \in {d.best, d.new, d.old} \ {None} : \A a \in Anc[h] \ {Genesis} : Needs(a) \subseteq indexed
IndexOK ==
    /\ Indexed(disk) /\ Indexed(safe)
    /\ files \subseteq indexed \cup setDirtyBlockIndex /\ setDirtyBlockIndex \subseteq files
    /\ phase # "down" => indexed \subseteq files
    /\ phase \in Running => \A a \in Anc[tip] \ {Genesis} : Needs(a) \subseteq files
    /\ phase = "coins" => \A a \in Anc[tip] \ {Genesis} : Needs(a) \subseteq indexed

\* Block data is committed, or in the file that the next FlushBlockFile commits.
FilesOK ==
    \A b \in Blocks :
        /\ <<b, "block">> \in files =>
              <<b, "block">> \in synced \/ (phase # "index" /\ nFile[b] = nLastBlockFile)
        /\ <<b, "block">> \in indexed => <<b, "block">> \in synced
        /\ <<b, "block">> \notin gone

IInv == TypeOK /\ DatabasesOK /\ CacheOK /\ ReplayOK /\ IndexOK /\ FilesOK

-----------------------------------------------------------------------------
\* The genesis block is one of the blocks.
LEMMA GenesisIsBlock == Genesis \in Blocks
BY TreeAssumption

\* The first start satisfies the inductive invariant.
LEMMA InitHolds == Init => IInv
<1> SUFFICES ASSUME Init PROVE IInv
    OBVIOUS
<1>1. disk \in Databases /\ safe \in Databases
    BY DEF Init, Databases, Empty, Coins
<1>2. cacheCoins \in [Outpoints -> Coins \cup {Clean}] /\ nFile \in [Blocks -> Nat]
    BY DEF Init, NoEntries
<1>3. full \in BOOLEAN
    BY Zenon DEF Init
<1>4. TypeOK
    BY <1>1, <1>2, <1>3, GenesisIsBlock DEF Init, TypeOK, Phases, Coins
<1>5. DatabasesOK
    BY UtxoAssumption DEF Init, DatabasesOK, Empty, DbOK, Base
<1>6. CacheOK /\ ReplayOK
    BY UtxoAssumption DEF Init, Empty, NoEntries, CacheOK, ReplayOK
<1>7. IndexOK
    BY TreeAssumption DEF Init, Empty, IndexOK, Indexed
<1>8. FilesOK
    BY DEF Init, FilesOK
<1> QED
    BY <1>4, <1>5, <1>6, <1>7, <1>8 DEF IInv

\* Every step keeps the types.
LEMMA TypeStep ==
    ASSUME IInv, [Next]_vars PROVE TypeOK'
<1>0. TypeOK /\ ReplayOK
    BY DEF IInv
<1>1. ASSUME NEW b \in Blocks \ {Genesis}, NEW roll \in BOOLEAN, AcceptBlock(b, roll) PROVE TypeOK'
    BY <1>0, <1>1, TreeAssumption DEF AcceptBlock, TypeOK, Phases, memory, storage, Coins, Records, InFile
<1>2. ASSUME NEW b \in Blocks \ {Genesis}, ConnectTip(b) PROVE TypeOK'
    BY <1>0, <1>2, TreeAssumption, UtxoAssumption DEF ConnectTip, TypeOK, Phases, memory, storage, Coins, Records, Applied, Entry, Databases
<1>3. ASSUME DisconnectTip PROVE TypeOK'
    BY <1>0, <1>3, TreeAssumption, UtxoAssumption DEF DisconnectTip, TypeOK, Phases, memory, storage, Coins, Undone, Entry, Databases
<1>4. ASSUME NEW all \in BOOLEAN, FlushStateToDisk(all) PROVE TypeOK'
    BY <1>0, <1>4 DEF FlushStateToDisk, TypeOK, Phases, memory, storage, Coins
<1>5. ASSUME Shutdown PROVE TypeOK'
    BY <1>0, <1>5 DEF Shutdown, TypeOK, Phases, memory, storage, Coins
<1>6. ASSUME FlushBlockFile PROVE TypeOK'
    BY <1>0, <1>6 DEF FlushBlockFile, TypeOK, Phases, memory, storage, Coins, InFile
<1>7. ASSUME WriteBlockIndex PROVE TypeOK'
    BY <1>0, <1>7 DEF WriteBlockIndex, TypeOK, Phases, memory, storage, Coins, Return
<1>8. ASSUME FinalBatch PROVE TypeOK'
    BY <1>0, <1>8 DEF FinalBatch, TypeOK, Phases, memory, storage, Coins, Return, Databases, Batched, NoEntries
<1>9. ASSUME NEW W \in SUBSET Outpoints, PartialBatch(W) PROVE TypeOK'
    BY <1>0, <1>9 DEF PartialBatch, TypeOK, Phases, memory, storage, Coins, Databases, Marked, OldTip, Batched, Erased
<1>10. ASSUME Start PROVE TypeOK'
    BY <1>0, <1>10, TreeAssumption DEF Start, TypeOK, Phases, memory, storage, Coins, Databases, NoEntries
<1>11. ASSUME RollbackBlock PROVE TypeOK'
    BY <1>0, <1>11, TreeAssumption, UtxoAssumption DEF RollbackBlock, TypeOK, Phases, memory, storage, Coins, Undone, Entry, Databases, ReplayOK
<1>12. ASSUME NEW b \in Blocks \ {Genesis}, RollforwardBlock(b) PROVE TypeOK'
    BY <1>0, <1>12, TreeAssumption, UtxoAssumption DEF RollforwardBlock, TypeOK, Phases, memory, storage, Coins, Applied, Entry, Databases
<1>13. ASSUME FlushReplayed PROVE TypeOK'
    BY <1>0, <1>13 DEF FlushReplayed, TypeOK, Phases, memory, storage, Coins, ReplayOK
<1>14. ASSUME Crash PROVE TypeOK'
  <2>1. nFile' \in [Blocks -> Nat]
      BY <1>0, <1>14 DEF Crash, Forgotten, TypeOK
  <2>2. cacheCoins' \in [Outpoints -> Coins \cup {Clean}]
      BY <1>14 DEF Crash, Forgotten, NoEntries
  <2>3. full' \in BOOLEAN
      BY Zenon, <1>14 DEF Crash, Forgotten
  <2>4. QED
      BY <1>0, <1>14, <2>1, <2>2, <2>3, GenesisIsBlock DEF Crash, TypeOK, Phases, storage, Coins, Forgotten
<1>15. ASSUME PowerLoss PROVE TypeOK'
  <2>1. nFile' \in [Blocks -> Nat]
      BY <1>0, <1>15 DEF PowerLoss, Forgotten, TypeOK
  <2>2. cacheCoins' \in [Outpoints -> Coins \cup {Clean}]
      BY <1>15 DEF PowerLoss, Forgotten, NoEntries
  <2>3. full' \in BOOLEAN
      BY Zenon, <1>15 DEF PowerLoss, Forgotten
  <2>4. QED
      BY <1>0, <1>15, <2>1, <2>2, <2>3, GenesisIsBlock DEF PowerLoss, TypeOK, Phases, storage, Coins, Forgotten
<1>16. ASSUME SyncCoins PROVE TypeOK'
    BY <1>0, <1>16 DEF SyncCoins, TypeOK, Phases, memory, storage, Coins
<1>17. ASSUME UNCHANGED vars PROVE TypeOK'
    BY <1>0, <1>17 DEF vars, memory, storage, TypeOK, Phases, memory, storage, Coins
<1> QED
    BY <1>1, <1>2, <1>3, <1>4, <1>5, <1>6, <1>7, <1>8, <1>9, <1>10, <1>11, <1>12, <1>13, <1>14, <1>15, <1>16, <1>17 DEF Next, Runs, Continues

\* Every batch leaves the database consistent or between its heads.
LEMMA DatabaseStep ==
    ASSUME IInv, [Next]_vars PROVE DatabasesOK'
<1>0. TypeOK /\ DatabasesOK /\ CacheOK
    BY DEF IInv
<1>1. ASSUME NEW b \in Blocks \ {Genesis}, NEW roll \in BOOLEAN, AcceptBlock(b, roll) PROVE DatabasesOK'
    BY <1>0, <1>1 DEF AcceptBlock, DatabasesOK, DbOK, Base, memory, storage
<1>2. ASSUME NEW b \in Blocks \ {Genesis}, ConnectTip(b) PROVE DatabasesOK'
    BY <1>0, <1>2 DEF ConnectTip, DatabasesOK, DbOK, Base, memory, storage
<1>3. ASSUME DisconnectTip PROVE DatabasesOK'
    BY <1>0, <1>3 DEF DisconnectTip, DatabasesOK, DbOK, Base, memory, storage
<1>4. ASSUME NEW all \in BOOLEAN, FlushStateToDisk(all) PROVE DatabasesOK'
    BY <1>0, <1>4 DEF FlushStateToDisk, DatabasesOK, DbOK, Base, memory, storage
<1>5. ASSUME Shutdown PROVE DatabasesOK'
    BY <1>0, <1>5 DEF Shutdown, DatabasesOK, DbOK, Base, memory, storage
<1>6. ASSUME FlushBlockFile PROVE DatabasesOK'
    BY <1>0, <1>6 DEF FlushBlockFile, DatabasesOK, DbOK, Base, memory, storage
<1>7. ASSUME WriteBlockIndex PROVE DatabasesOK'
    BY <1>0, <1>7 DEF WriteBlockIndex, DatabasesOK, DbOK, Base, memory, storage
<1>8. ASSUME FinalBatch PROVE DatabasesOK'
  <2>1. \A o \in Outpoints : disk'.coins[o] = Utxo[tip][o]
      BY <1>0, <1>8 DEF FinalBatch, Batched, CacheOK, Running
  <2>2. disk'.best = tip /\ disk'.new = None /\ disk'.old = None /\ tip # None /\ safe' = safe
      BY <1>0, <1>8, TreeAssumption DEF FinalBatch, TypeOK
  <2>3. QED
      BY <1>0, <2>1, <2>2 DEF DatabasesOK, DbOK
<1>9. ASSUME NEW W \in SUBSET Outpoints, PartialBatch(W) PROVE DatabasesOK'
  <2>1. \A o \in Outpoints : disk'.coins[o] = disk.coins[o] \/ disk'.coins[o] = Utxo[tip][o]
      BY <1>0, <1>9 DEF PartialBatch, Marked, Batched, CacheOK, Running
  <2>2. disk'.best = None /\ disk'.new = tip /\ disk'.old = OldTip /\ tip # None /\ safe' = safe
      BY <1>0, <1>9, TreeAssumption DEF PartialBatch, Marked, TypeOK
  <2>3. CASE disk.best # None
      BY <1>0, <2>1, <2>2, <2>3 DEF DatabasesOK, DbOK, Base, OldTip
  <2>4. CASE disk.best = None /\ disk.new = None
      BY <1>0, <2>1, <2>2, <2>4 DEF DatabasesOK, DbOK, Base, OldTip
  <2>5. CASE disk.best = None /\ disk.new # None
    <3>1. disk.new = tip
        BY <1>0, <1>9, <2>5 DEF PartialBatch, CacheOK, Running
    <3>2. QED
        BY <1>0, <2>1, <2>2, <2>5, <3>1 DEF DatabasesOK, DbOK, Base, OldTip
  <2>6. QED
      BY <2>3, <2>4, <2>5
<1>10. ASSUME Start PROVE DatabasesOK'
    BY <1>0, <1>10 DEF Start, DatabasesOK, DbOK, Base, memory, storage
<1>11. ASSUME RollbackBlock PROVE DatabasesOK'
    BY <1>0, <1>11 DEF RollbackBlock, DatabasesOK, DbOK, Base, memory, storage
<1>12. ASSUME NEW b \in Blocks \ {Genesis}, RollforwardBlock(b) PROVE DatabasesOK'
    BY <1>0, <1>12 DEF RollforwardBlock, DatabasesOK, DbOK, Base, memory, storage
<1>13. ASSUME FlushReplayed PROVE DatabasesOK'
    BY <1>0, <1>13 DEF FlushReplayed, DatabasesOK, DbOK, Base, memory, storage
<1>14. ASSUME Crash PROVE DatabasesOK'
    BY <1>0, <1>14 DEF Crash, DatabasesOK, DbOK, Base, memory, storage
<1>15. ASSUME PowerLoss PROVE DatabasesOK'
    BY <1>0, <1>15 DEF PowerLoss, DatabasesOK, DbOK, Base, memory, storage
<1>16. ASSUME SyncCoins PROVE DatabasesOK'
    BY <1>0, <1>16 DEF SyncCoins, DatabasesOK, DbOK, Base, memory, storage
<1>17. ASSUME UNCHANGED vars PROVE DatabasesOK'
    BY <1>0, <1>17 DEF vars, memory, storage, DatabasesOK, DbOK, Base, memory, storage
<1> QED
    BY <1>1, <1>2, <1>3, <1>4, <1>5, <1>6, <1>7, <1>8, <1>9, <1>10, <1>11, <1>12, <1>13, <1>14, <1>15, <1>16, <1>17 DEF Next, Runs, Continues

\* Every step keeps the cache of the running node in agreement with its tip.
LEMMA CacheStep ==
    ASSUME IInv, [Next]_vars PROVE CacheOK'
<1>0. TypeOK /\ DatabasesOK /\ CacheOK /\ ReplayOK
    BY DEF IInv
<1>1. ASSUME NEW b \in Blocks \ {Genesis}, NEW roll \in BOOLEAN, AcceptBlock(b, roll) PROVE CacheOK'
    BY <1>0, <1>1 DEF AcceptBlock, CacheOK, Running, memory, storage
<1>2. ASSUME NEW b \in Blocks \ {Genesis}, ConnectTip(b) PROVE CacheOK'
    BY <1>0, <1>2, TreeAssumption, UtxoAssumption DEF ConnectTip, CacheOK, Running, memory, storage, Applied, Entry, TypeOK
<1>3. ASSUME DisconnectTip PROVE CacheOK'
    BY <1>0, <1>3, TreeAssumption, UtxoAssumption DEF DisconnectTip, CacheOK, Running, memory, storage, Undone, Entry, TypeOK
<1>4. ASSUME NEW all \in BOOLEAN, FlushStateToDisk(all) PROVE CacheOK'
    BY <1>0, <1>4 DEF FlushStateToDisk, CacheOK, Running, memory, storage
<1>5. ASSUME Shutdown PROVE CacheOK'
    BY <1>0, <1>5 DEF Shutdown, CacheOK, Running, memory, storage
<1>6. ASSUME FlushBlockFile PROVE CacheOK'
    BY <1>0, <1>6 DEF FlushBlockFile, CacheOK, Running, memory, storage
<1>7. ASSUME WriteBlockIndex PROVE CacheOK'
    BY <1>0, <1>7 DEF WriteBlockIndex, CacheOK, Running, memory, storage, Return
<1>8. ASSUME FinalBatch PROVE CacheOK'
    BY <1>0, <1>8, TreeAssumption DEF FinalBatch, CacheOK, Running, memory, storage, Return, Batched, NoEntries, TypeOK
<1>9. ASSUME NEW W \in SUBSET Outpoints, PartialBatch(W) PROVE CacheOK'
    BY <1>0, <1>9 DEF PartialBatch, CacheOK, Running, memory, storage, Marked, Batched, Erased
<1>10. ASSUME Start PROVE CacheOK'
    BY <1>0, <1>10, UtxoAssumption DEF Start, CacheOK, Running, memory, storage, NoEntries, DatabasesOK, DbOK, Base
<1>11. ASSUME RollbackBlock PROVE CacheOK'
    BY <1>0, <1>11 DEF RollbackBlock, CacheOK, Running, memory, storage
<1>12. ASSUME NEW b \in Blocks \ {Genesis}, RollforwardBlock(b) PROVE CacheOK'
    BY <1>0, <1>12 DEF RollforwardBlock, CacheOK, Running, memory, storage
<1>13. ASSUME FlushReplayed PROVE CacheOK'
    BY <1>0, <1>13 DEF FlushReplayed, CacheOK, Running, memory, storage, ReplayOK, DatabasesOK, DbOK, Base
<1>14. ASSUME Crash PROVE CacheOK'
    BY <1>0, <1>14 DEF Crash, CacheOK, Running, memory, storage, Forgotten
<1>15. ASSUME PowerLoss PROVE CacheOK'
    BY <1>0, <1>15 DEF PowerLoss, CacheOK, Running, memory, storage, Forgotten
<1>16. ASSUME SyncCoins PROVE CacheOK'
    BY <1>0, <1>16 DEF SyncCoins, CacheOK, Running, memory, storage
<1>17. ASSUME UNCHANGED vars PROVE CacheOK'
    BY <1>0, <1>17 DEF vars, memory, storage, CacheOK, Running, memory, storage
<1> QED
    BY <1>1, <1>2, <1>3, <1>4, <1>5, <1>6, <1>7, <1>8, <1>9, <1>10, <1>11, <1>12, <1>13, <1>14, <1>15, <1>16, <1>17 DEF Next, Runs, Continues

\* Every step of ReplayBlocks brings the cache to the next block.
LEMMA ReplayStep ==
    ASSUME IInv, [Next]_vars PROVE ReplayOK'
<1>0. TypeOK /\ DatabasesOK /\ ReplayOK
    BY DEF IInv
<1>1. ASSUME NEW b \in Blocks \ {Genesis}, NEW roll \in BOOLEAN, AcceptBlock(b, roll) PROVE ReplayOK'
    BY <1>0, <1>1 DEF AcceptBlock, ReplayOK, Base, memory, storage
<1>2. ASSUME NEW b \in Blocks \ {Genesis}, ConnectTip(b) PROVE ReplayOK'
    BY <1>0, <1>2 DEF ConnectTip, ReplayOK, Base, memory, storage
<1>3. ASSUME DisconnectTip PROVE ReplayOK'
    BY <1>0, <1>3 DEF DisconnectTip, ReplayOK, Base, memory, storage
<1>4. ASSUME NEW all \in BOOLEAN, FlushStateToDisk(all) PROVE ReplayOK'
    BY <1>0, <1>4 DEF FlushStateToDisk, ReplayOK, Base, memory, storage
<1>5. ASSUME Shutdown PROVE ReplayOK'
    BY <1>0, <1>5 DEF Shutdown, ReplayOK, Base, memory, storage
<1>6. ASSUME FlushBlockFile PROVE ReplayOK'
    BY <1>0, <1>6 DEF FlushBlockFile, ReplayOK, Base, memory, storage
<1>7. ASSUME WriteBlockIndex PROVE ReplayOK'
    BY <1>0, <1>7 DEF WriteBlockIndex, ReplayOK, Base, memory, storage, Return
<1>8. ASSUME FinalBatch PROVE ReplayOK'
    BY <1>0, <1>8 DEF FinalBatch, ReplayOK, Base, memory, storage, Return
<1>9. ASSUME NEW W \in SUBSET Outpoints, PartialBatch(W) PROVE ReplayOK'
    BY <1>0, <1>9 DEF PartialBatch, ReplayOK, Base, memory, storage
<1>10. ASSUME Start PROVE ReplayOK'
    BY <1>0, <1>10, TreeAssumption DEF Start, ReplayOK, Base, memory, storage, NoEntries, TypeOK, Databases, Coins
<1>11. ASSUME RollbackBlock PROVE ReplayOK'
    BY <1>0, <1>11, TreeAssumption, UtxoAssumption DEF RollbackBlock, ReplayOK, Base, memory, storage, Undone, Entry, TypeOK, Databases, Coins
<1>12. ASSUME NEW b \in Blocks \ {Genesis}, RollforwardBlock(b) PROVE ReplayOK'
  <2>1. phase = "replay" /\ pprev[b] = at /\ at' = b /\ disk' = disk /\ cacheCoins' = Applied(b)
      BY <1>12 DEF RollforwardBlock
  <2>2. \A o \in Outpoints : Utxo[b][o] = IF o \in SpentBy[b] THEN None
                                          ELSE IF o \in Created[b] THEN b ELSE Utxo[at][o]
      BY <2>1, UtxoAssumption
  <2>3. b # Clean /\ None # Clean
      BY TreeAssumption DEF Coins
  <2>4. disk.new # None /\ \A o \in Outpoints :
          IF cacheCoins[o] = Clean THEN Utxo[at][o] = Utxo[Base(disk)][o] \/ disk.coins[o] = Utxo[at][o]
                                   ELSE cacheCoins[o] = Utxo[at][o]
      BY <1>0, <2>1 DEF ReplayOK
  <2>5. QED
      BY <2>1, <2>2, <2>3, <2>4 DEF ReplayOK, Applied, Entry, Base
<1>13. ASSUME FlushReplayed PROVE ReplayOK'
    BY <1>0, <1>13 DEF FlushReplayed, ReplayOK, Base, memory, storage
<1>14. ASSUME Crash PROVE ReplayOK'
    BY <1>0, <1>14 DEF Crash, ReplayOK, Base, memory, storage, Forgotten
<1>15. ASSUME PowerLoss PROVE ReplayOK'
    BY <1>0, <1>15 DEF PowerLoss, ReplayOK, Base, memory, storage, Forgotten
<1>16. ASSUME SyncCoins PROVE ReplayOK'
    BY <1>0, <1>16 DEF SyncCoins, ReplayOK, Base, memory, storage
<1>17. ASSUME UNCHANGED vars PROVE ReplayOK'
    BY <1>0, <1>17 DEF vars, memory, storage, ReplayOK, Base, memory, storage
<1> QED
    BY <1>1, <1>2, <1>3, <1>4, <1>5, <1>6, <1>7, <1>8, <1>9, <1>10, <1>11, <1>12, <1>13, <1>14, <1>15, <1>16, <1>17 DEF Next, Runs, Continues

\* The block index is written before the coins that depend on it.
LEMMA IndexStep ==
    ASSUME IInv, [Next]_vars PROVE IndexOK'
<1>0. TypeOK /\ IndexOK /\ ReplayOK
    BY DEF IInv
<1>1. ASSUME NEW b \in Blocks \ {Genesis}, NEW roll \in BOOLEAN, AcceptBlock(b, roll) PROVE IndexOK'
    BY <1>0, <1>1 DEF AcceptBlock, IndexOK, Indexed, Running, memory, storage
<1>2. ASSUME NEW b \in Blocks \ {Genesis}, ConnectTip(b) PROVE IndexOK'
  <2>1. Anc[b] = Anc[tip] \cup {b}
      BY <1>2, TreeAssumption DEF ConnectTip
  <2>2. Needs(b) \subseteq files' /\ files \subseteq files'
      BY <1>2 DEF ConnectTip, Needs
  <2>3. QED
      BY <1>0, <1>2, <2>1, <2>2 DEF ConnectTip, IndexOK, Indexed, Running, storage
<1>3. ASSUME DisconnectTip PROVE IndexOK'
  <2>1. Anc[pprev[tip]] \subseteq Anc[tip]
      BY <1>0, <1>3, TreeAssumption DEF DisconnectTip, TypeOK
  <2>2. QED
      BY <1>0, <1>3, <2>1 DEF DisconnectTip, IndexOK, Indexed, Running, storage
<1>4. ASSUME NEW all \in BOOLEAN, FlushStateToDisk(all) PROVE IndexOK'
    BY <1>0, <1>4 DEF FlushStateToDisk, IndexOK, Indexed, Running, memory, storage
<1>5. ASSUME Shutdown PROVE IndexOK'
    BY <1>0, <1>5 DEF Shutdown, IndexOK, Indexed, Running, memory, storage
<1>6. ASSUME FlushBlockFile PROVE IndexOK'
    BY <1>0, <1>6 DEF FlushBlockFile, IndexOK, Indexed, Running, memory, storage
<1>7. ASSUME WriteBlockIndex PROVE IndexOK'
    BY <1>0, <1>7 DEF WriteBlockIndex, IndexOK, Indexed, Running, memory, storage, Return
<1>8. ASSUME FinalBatch PROVE IndexOK'
    BY <1>0, <1>8 DEF FinalBatch, IndexOK, Indexed, Running, memory, storage, Return
<1>9. ASSUME NEW W \in SUBSET Outpoints, PartialBatch(W) PROVE IndexOK'
    BY <1>0, <1>9 DEF PartialBatch, IndexOK, Indexed, Running, memory, storage, Marked, OldTip
<1>10. ASSUME Start PROVE IndexOK'
    BY <1>0, <1>10, TreeAssumption DEF Start, IndexOK, Indexed, Running, memory, storage
<1>11. ASSUME RollbackBlock PROVE IndexOK'
    BY <1>0, <1>11 DEF RollbackBlock, IndexOK, Indexed, Running, memory, storage
<1>12. ASSUME NEW b \in Blocks \ {Genesis}, RollforwardBlock(b) PROVE IndexOK'
    BY <1>0, <1>12 DEF RollforwardBlock, IndexOK, Indexed, Running, memory, storage
<1>13. ASSUME FlushReplayed PROVE IndexOK'
    BY <1>0, <1>13 DEF FlushReplayed, IndexOK, Indexed, Running, memory, storage, ReplayOK
<1>14. ASSUME Crash PROVE IndexOK'
    BY <1>0, <1>14 DEF Crash, IndexOK, Indexed, Running, memory, storage, Forgotten
<1>15. ASSUME PowerLoss PROVE IndexOK'
    BY <1>0, <1>15 DEF PowerLoss, IndexOK, Indexed, Running, memory, storage, Forgotten
<1>16. ASSUME SyncCoins PROVE IndexOK'
    BY <1>0, <1>16 DEF SyncCoins, IndexOK, Indexed, Running, memory, storage
<1>17. ASSUME UNCHANGED vars PROVE IndexOK'
    BY <1>0, <1>17 DEF vars, memory, storage, IndexOK, Indexed, Running, memory, storage
<1> QED
    BY <1>1, <1>2, <1>3, <1>4, <1>5, <1>6, <1>7, <1>8, <1>9, <1>10, <1>11, <1>12, <1>13, <1>14, <1>15, <1>16, <1>17 DEF Next, Runs, Continues

\* Block data is committed before the block index points to it.
LEMMA FilesStep ==
    ASSUME IInv, [Next]_vars PROVE FilesOK'
<1>0. TypeOK /\ IndexOK /\ FilesOK
    BY DEF IInv
<1>1. ASSUME NEW b \in Blocks \ {Genesis}, NEW roll \in BOOLEAN, AcceptBlock(b, roll) PROVE FilesOK'
    BY Zenon, <1>0, <1>1 DEF AcceptBlock, FilesOK, memory, storage, InFile, TypeOK
<1>2. ASSUME NEW b \in Blocks \ {Genesis}, ConnectTip(b) PROVE FilesOK'
    BY Zenon, <1>0, <1>2 DEF ConnectTip, FilesOK, memory, storage
<1>3. ASSUME DisconnectTip PROVE FilesOK'
    BY Zenon, <1>0, <1>3 DEF DisconnectTip, FilesOK, memory, storage
<1>4. ASSUME NEW all \in BOOLEAN, FlushStateToDisk(all) PROVE FilesOK'
    BY Zenon, <1>0, <1>4 DEF FlushStateToDisk, FilesOK, memory, storage
<1>5. ASSUME Shutdown PROVE FilesOK'
    BY Zenon, <1>0, <1>5 DEF Shutdown, FilesOK, memory, storage
<1>6. ASSUME FlushBlockFile PROVE FilesOK'
    BY Zenon, <1>0, <1>6 DEF FlushBlockFile, FilesOK, memory, storage, InFile
<1>7. ASSUME WriteBlockIndex PROVE FilesOK'
    BY Zenon, <1>0, <1>7 DEF WriteBlockIndex, FilesOK, memory, storage, IndexOK, Return
<1>8. ASSUME FinalBatch PROVE FilesOK'
    BY Zenon, <1>0, <1>8 DEF FinalBatch, FilesOK, memory, storage, Return
<1>9. ASSUME NEW W \in SUBSET Outpoints, PartialBatch(W) PROVE FilesOK'
    BY Zenon, <1>0, <1>9 DEF PartialBatch, FilesOK, memory, storage
<1>10. ASSUME Start PROVE FilesOK'
    BY Zenon, <1>0, <1>10 DEF Start, FilesOK, memory, storage
<1>11. ASSUME RollbackBlock PROVE FilesOK'
    BY Zenon, <1>0, <1>11 DEF RollbackBlock, FilesOK, memory, storage
<1>12. ASSUME NEW b \in Blocks \ {Genesis}, RollforwardBlock(b) PROVE FilesOK'
    BY Zenon, <1>0, <1>12 DEF RollforwardBlock, FilesOK, memory, storage
<1>13. ASSUME FlushReplayed PROVE FilesOK'
    BY Zenon, <1>0, <1>13 DEF FlushReplayed, FilesOK, memory, storage
<1>14. ASSUME Crash PROVE FilesOK'
    BY Zenon, <1>0, <1>14 DEF Crash, FilesOK, memory, storage, Forgotten
<1>15. ASSUME PowerLoss PROVE FilesOK'
    BY Zenon, <1>0, <1>15 DEF PowerLoss, FilesOK, memory, storage, Forgotten
<1>16. ASSUME SyncCoins PROVE FilesOK'
    BY Zenon, <1>0, <1>16 DEF SyncCoins, FilesOK, memory, storage
<1>17. ASSUME UNCHANGED vars PROVE FilesOK'
    BY Zenon, <1>0, <1>17 DEF vars, memory, storage, FilesOK, memory, storage
<1> QED
    BY <1>1, <1>2, <1>3, <1>4, <1>5, <1>6, <1>7, <1>8, <1>9, <1>10, <1>11, <1>12, <1>13, <1>14, <1>15, <1>16, <1>17 DEF Next, Runs, Continues

\* The invariant is inductive.
THEOREM Invariance == Spec => []IInv
<1>1. IInv /\ [Next]_vars => IInv'
    BY TypeStep, DatabaseStep, CacheStep, ReplayStep, IndexStep, FilesStep DEF IInv
<1> QED
    BY InitHolds, <1>1, PTL DEF Spec

\* A database that names a best block holds exactly the coins after it, whatever flushes and replays
\* were interrupted.
THEOREM BestBlockIsConsistent == Spec => []MarkedConsistent
<1>1. IInv => MarkedConsistent
  <2> SUFFICES ASSUME IInv, NEW d \in {disk, safe}, d.best # None PROVE d.coins = Utxo[d.best]
      BY DEF MarkedConsistent
  <2>1. d \in Databases /\ DbOK(d)
      BY DEF IInv, TypeOK, DatabasesOK
  <2>2. d.coins \in [Outpoints -> Coins] /\ Utxo[d.best] \in [Outpoints -> Coins]
      BY <2>1, UtxoAssumption DEF Databases, Coins
  <2> QED
      BY <2>1, <2>2 DEF DbOK
<1> QED
    BY Invariance, <1>1, PTL

\* A database without a best block has every coin as after one of its heads.
THEOREM InterruptedIsBetweenHeads == Spec => []BetweenHeads
<1>1. IInv => BetweenHeads
    BY DEF IInv, DatabasesOK, DbOK, Base, BetweenHeads
<1> QED
    BY Invariance, <1>1, PTL

\* The coins database says of itself what it holds, whatever was interrupted.
THEOREM DatabaseIsConsistent == Spec => []DatabaseConsistent
<1>1. MarkedConsistent /\ BetweenHeads => DatabaseConsistent
    BY DEF DatabaseConsistent
<1> QED
    BY BestBlockIsConsistent, InterruptedIsBetweenHeads, <1>1, PTL

\* The running node sees the coins after its tip, also after a replay.
THEOREM NodeSeesItsTip == Spec => []CacheShowsTip
<1>1. IInv => CacheShowsTip
    BY DEF IInv, CacheOK, Running, CacheShowsTip, Shown
<1> QED
    BY Invariance, <1>1, PTL

\* The assertion of BatchWrite on the head blocks never fails.
THEOREM HeadsAssertionHolds == Spec => []HeadsMatch
<1>1. IInv => HeadsMatch
    BY DEF IInv, CacheOK, Running, HeadsMatch
<1> QED
    BY Invariance, <1>1, PTL

\* What a start reads from the block index is there.
THEOREM IndexIsWrittenFirst == Spec => []IndexFirst
<1>1. IInv => IndexFirst
    BY Zenon DEF IInv, IndexOK, Indexed, Needs, IndexFirst
<1> QED
    BY Invariance, <1>1, PTL

\* Indexed block data survives a loss of power.
THEOREM IndexedBlocksAreSafe == Spec => []BlocksSafe
<1>1. IInv => BlocksSafe
    BY DEF IInv, FilesOK, BlocksSafe
<1> QED
    BY Invariance, <1>1, PTL

\* A start finds the records and the data of the blocks that the coins database depends on.
THEOREM BlocksAreFound == Spec => []BlocksFound
<1>1. IndexFirst /\ BlocksSafe => BlocksFound
    BY DEF BlocksFound
<1> QED
    BY IndexIsWrittenFirst, IndexedBlocksAreSafe, <1>1, PTL

=============================================================================
