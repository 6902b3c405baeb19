------------------------------ MODULE Recovery ------------------------------
(***************************************************************************)
(* How the UTXO set survives: FlushStateToDisk writes block files, then    *)
(* the block index, then the coins in several batches (txdb.cpp); a crash  *)
(* or a loss of power may come between any two writes, and at the next     *)
(* start ReplayBlocks repairs a database left between two blocks.          *)
(*                                                                         *)
(* A coin is known by the block that created it, which stands for its      *)
(* height: the same transaction mined on two branches leaves two different *)
(* coins at one outpoint.  cs_main is held over a flush, so nothing but a  *)
(* crash comes between its steps.  The caches of the running node are one  *)
(* overlay on the database, see CoinsCache.                                *)
(***************************************************************************)
EXTENDS Integers, FiniteSets

CONSTANTS
    Blocks, Genesis,
    pprev, Anc,         \* of a block: its parent; itself and all blocks it is built on
    Outpoints,
    Created, SpentBy,   \* the outpoints a block creates and spends
    Utxo,               \* of a block: the coins after it
    None, Clean,        \* no coin or no block; no dirty entry in the cache
    MaxFile             \* bound on nLastBlockFile

Coins == Blocks \cup {None}

ASSUME TreeAssumption ==
    /\ Genesis \in Blocks /\ None \notin Blocks /\ Clean \notin Coins
    /\ pprev \in [Blocks \ {Genesis} -> Blocks] /\ Anc \in [Blocks -> SUBSET Blocks]
    /\ Anc[Genesis] = {Genesis}
    /\ \A b \in Blocks : b \in Anc[b] /\ Genesis \in Anc[b]
    /\ \A b \in Blocks \ {Genesis} : Anc[b] = Anc[pprev[b]] \cup {b}
    /\ \A b \in Blocks : \A a \in Anc[b] : Anc[a] \subseteq Anc[b]
    /\ MaxFile \in Nat

\* Blocks are valid: they spend coins that are there, and create none that is there, since coinbases
\* state their heights and no transaction occurs twice on a chain.
ASSUME UtxoAssumption ==
    /\ Created \in [Blocks -> SUBSET Outpoints] /\ SpentBy \in [Blocks -> SUBSET Outpoints]
    /\ Utxo \in [Blocks -> [Outpoints -> Coins]]
    /\ \A o \in Outpoints : Utxo[Genesis][o] = None
    /\ \A b \in Blocks \ {Genesis} : \A o \in Outpoints :
          /\ Utxo[b][o] = IF o \in SpentBy[b] THEN None
                          ELSE IF o \in Created[b] THEN b ELSE Utxo[pprev[b]][o]
          /\ o \in Created[b] => Utxo[pprev[b]][o] = None
          /\ o \in SpentBy[b] \ Created[b] => Utxo[pprev[b]][o] # None

VARIABLES
    phase,      \* what the thread that holds cs_main is about to do, see Phases
    full,       \* fDoFullFlush
    closing,    \* the calls of FlushStateToDisk that Shutdown has still to make
    tip,        \* best block of the cache: chainActive.Tip()
    cacheCoins, \* of an outpoint: what its dirty entry says, or Clean
    at,         \* ReplayBlocks: the block it has got to; None otherwise
    files,      \* data and undo records that the block index in memory points to
    setDirtyBlockIndex,
    nFile, nLastBlockFile,
    synced,     \* records that FileCommit has made safe
    indexed, indexedFile,   \* the block index on disk: its records, and nLastBlockFile
    gone,       \* records on disk's index that were lost with the power
    disk,       \* the coins database as the running system sees it
    safe        \* the batches of it that a loss of power cannot undo

memory == <<tip, cacheCoins, at, files, setDirtyBlockIndex, nFile, nLastBlockFile>>
storage == <<synced, indexed, indexedFile, gone>>
vars == <<phase, full, closing, memory, storage, disk, safe>>

\* run: nothing going on; files, index, coins: in FlushStateToDisk, or (coins) in the flush of
\* ReplayBlocks; replay: in ReplayBlocks; down: not running.
Phases == {"run", "files", "index", "coins", "replay", "down"}

Records == (Blocks \ {Genesis}) \X {"block", "undo"}
Databases == [coins : [Outpoints -> Coins], best : Coins, new : Coins, old : Coins]
Empty == [coins |-> [o \in Outpoints |-> None], best |-> None, new |-> None, old |-> None]
NoEntries == [o \in Outpoints |-> Clean]

\* A first start that has connected the genesis block in memory.
Init ==
    /\ phase = "run" /\ full = FALSE /\ closing = 0
    /\ tip = Genesis /\ cacheCoins = NoEntries /\ at = None
    /\ files = {} /\ setDirtyBlockIndex = {} /\ synced = {} /\ indexed = {} /\ gone = {}
    /\ nFile = [b \in Blocks |-> 0] /\ nLastBlockFile = 0 /\ indexedFile = 0
    /\ disk = Empty /\ safe = Empty

-----------------------------------------------------------------------------
\* SpendCoin leaves no entry where there is no coin below; see SpentEntry in CoinsCache.
Entry(o, coin) == IF coin = None /\ disk.coins[o] = None THEN Clean ELSE coin

\* A variant that adds all outputs of the block after it has spent all inputs.
AppliedInputsFirst(b) ==
    [o \in Outpoints |-> IF o \in Created[b] THEN b
                         ELSE IF o \in SpentBy[b] THEN Entry(o, None) ELSE cacheCoins[o]]

\* ConnectBlock and RollforwardBlock on a cache, transaction by transaction.
Applied(b) ==
    [o \in Outpoints |-> IF o \in SpentBy[b] THEN Entry(o, None)
                         ELSE IF o \in Created[b] THEN b ELSE cacheCoins[o]]

\* DisconnectBlock: what the block created is removed, what it spent is restored from its undo
\* record, be it there or not (DISCONNECT_UNCLEAN).
Undone(b) ==
    [o \in Outpoints |-> IF o \in Created[b] THEN Entry(o, None)
                         ELSE IF o \in SpentBy[b] THEN Utxo[pprev[b]][o] ELSE cacheCoins[o]]

InFile(n) == {r \in files : nFile[r[1]] = n}

\* SaveBlockToDisk with FindBlockPos: a new file is begun when the block does not fit.
AcceptBlock(b, roll) ==
    /\ phase = "run"
    /\ <<b, "block">> \notin files
    /\ pprev[b] = Genesis \/ <<pprev[b], "block">> \in files
    /\ nLastBlockFile' = IF roll THEN nLastBlockFile + 1 ELSE nLastBlockFile
    /\ nLastBlockFile' <= MaxFile
    /\ synced' = IF roll THEN synced \cup InFile(nLastBlockFile) ELSE synced
    /\ nFile' = [nFile EXCEPT ![b] = nLastBlockFile']
    /\ files' = files \cup {<<b, "block">>}
    /\ setDirtyBlockIndex' = setDirtyBlockIndex \cup {<<b, "block">>}
    /\ UNCHANGED <<phase, full, closing, tip, cacheCoins, at, indexed, indexedFile, gone, disk, safe>>

\* ConnectTip, with WriteUndoDataForBlock.
ConnectTip(b) ==
    LET undo == {<<b, "undo">>} \ files
    IN  /\ phase = "run" /\ pprev[b] = tip
        /\ <<b, "block">> \in files \ gone
        /\ tip' = b
        /\ cacheCoins' = Applied(b)
        /\ files' = files \cup undo /\ setDirtyBlockIndex' = setDirtyBlockIndex \cup undo
        /\ UNCHANGED <<phase, full, closing, at, nFile, nLastBlockFile, storage, disk, safe>>

DisconnectTip ==
    /\ phase = "run" /\ tip # Genesis
    /\ {<<tip, "block">>, <<tip, "undo">>} \cap gone = {}
    /\ tip' = pprev[tip]
    /\ cacheCoins' = Undone(tip)
    /\ UNCHANGED <<phase, full, closing, at, files, setDirtyBlockIndex, nFile, nLastBlockFile, storage, disk, safe>>

-----------------------------------------------------------------------------
\* FlushStateToDisk, when it has something to do: only the block index or everything.
FlushStateToDisk(all) ==
    /\ phase = "run"
    /\ phase' = "files" /\ full' = all
    /\ UNCHANGED <<closing, memory, storage, disk, safe>>

\* Shutdown calls FlushStateToDisk twice.
Shutdown ==
    /\ phase = "run"
    /\ phase' = "files" /\ full' = TRUE /\ closing' = 2
    /\ UNCHANGED <<memory, storage, disk, safe>>

\* The call of FlushStateToDisk is over.
Return ==
    /\ phase' = IF closing = 0 THEN "run" ELSE IF closing = 1 THEN "down" ELSE "files"
    /\ closing' = IF closing = 0 THEN 0 ELSE closing - 1

\* A variant that leaves the block files in the hands of the system.
FlushNothing ==
    /\ phase = "files"
    /\ phase' = "index"
    /\ UNCHANGED <<full, closing, memory, storage, disk, safe>>

\* Only the files of nLastBlockFile are committed.
FlushBlockFile ==
    /\ phase = "files"
    /\ synced' = synced \cup InFile(nLastBlockFile)
    /\ phase' = "index"
    /\ UNCHANGED <<full, closing, memory, indexed, indexedFile, gone, disk, safe>>

\* CBlockTreeDB::WriteBatchSync.
WriteBlockIndex ==
    /\ phase = "index"
    /\ indexed' = indexed \cup setDirtyBlockIndex
    /\ indexedFile' = nLastBlockFile
    /\ setDirtyBlockIndex' = {}
    /\ IF full THEN phase' = "coins" /\ UNCHANGED closing ELSE Return
    /\ UNCHANGED <<full, tip, cacheCoins, at, files, nFile, nLastBlockFile, synced, gone, disk, safe>>

\* CCoinsViewDB::BatchWrite.  The entries of W go into a batch and out of the cache.
Batched(W) ==
    [o \in Outpoints |-> IF o \in W /\ cacheCoins[o] # Clean THEN cacheCoins[o] ELSE disk.coins[o]]
Erased(W) == [o \in Outpoints |-> IF o \in W THEN Clean ELSE cacheCoins[o]]

\* A variant that forgets the old tip of an interrupted flush.
BestOnly == disk.best

OldTip == IF disk.best # None THEN disk.best ELSE IF disk.new # None THEN disk.old ELSE None
Marked(W) == [coins |-> Batched(W), best |-> None, new |-> tip, old |-> OldTip]

PartialBatch(W) ==
    /\ phase = "coins"
    /\ disk' = Marked(W)
    /\ cacheCoins' = Erased(W)
    /\ UNCHANGED <<phase, full, closing, tip, at, files, setDirtyBlockIndex, nFile, nLastBlockFile, storage, safe>>

FinalBatch ==
    /\ phase = "coins"
    /\ disk' = [coins |-> Batched(Outpoints), best |-> tip, new |-> None, old |-> None]
    /\ cacheCoins' = NoEntries
    /\ at' = None
    /\ Return
    /\ UNCHANGED <<full, tip, files, setDirtyBlockIndex, nFile, nLastBlockFile, storage, safe>>

-----------------------------------------------------------------------------
\* What the process had in memory.
Forgotten ==
    /\ phase' = "down" /\ full' = FALSE /\ closing' = 0
    /\ tip' = Genesis /\ cacheCoins' = NoEntries /\ at' = None
    /\ files' = {} /\ setDirtyBlockIndex' = {} /\ nLastBlockFile' = 0
    /\ nFile' = [b \in Blocks |-> IF <<b, "block">> \in indexed THEN nFile[b] ELSE 0]

\* The process is killed: what it has written stays.
Crash ==
    /\ phase # "down"
    /\ Forgotten
    /\ UNCHANGED <<storage, disk, safe>>

\* The machine stops: what was not synced is lost, and batches of the coins database with it, from
\* the end of its log.
PowerLoss ==
    /\ Forgotten
    /\ disk' = safe
    /\ gone' = gone \cup (indexed \ synced)
    /\ UNCHANGED <<synced, indexed, indexedFile, safe>>

\* LevelDB and the operating system get the log to the disk, when they like.
SyncCoins ==
    /\ safe # disk
    /\ safe' = disk
    /\ UNCHANGED <<phase, full, closing, memory, storage, disk>>

\* AppInitMain up to ReplayBlocks: LoadBlockIndex, and LoadChainTip if there is nothing to replay.
Start ==
    /\ phase = "down"
    /\ phase' = IF disk.new = None THEN "run" ELSE "replay"
    /\ files' = indexed /\ setDirtyBlockIndex' = {}
    /\ nLastBlockFile' = indexedFile
    /\ synced' = synced \cap indexed
    /\ cacheCoins' = NoEntries
    /\ tip' = IF disk.best = None THEN Genesis ELSE disk.best
    /\ at' = IF disk.new = None THEN None ELSE IF disk.old = None THEN Genesis ELSE disk.old
    /\ UNCHANGED <<full, closing, nFile, indexed, indexedFile, gone, disk, safe>>

\* A variant that fails when the block was not undone cleanly.
RollbackClean ==
    /\ phase = "replay" /\ at \notin Anc[disk.new]
    /\ {<<at, "block">>, <<at, "undo">>} \subseteq files \ gone
    /\ \A o \in SpentBy[at] \ Created[at] : cacheCoins[o] = Clean /\ disk.coins[o] = None
    /\ cacheCoins' = Undone(at)
    /\ at' = pprev[at]
    /\ UNCHANGED <<phase, full, closing, tip, files, setDirtyBlockIndex, nFile, nLastBlockFile, storage, disk, safe>>

\* ReplayBlocks: the loop along the old branch, the one along the new branch, and the end.
RollbackBlock ==
    /\ phase = "replay" /\ at \notin Anc[disk.new]
    /\ {<<at, "block">>, <<at, "undo">>} \subseteq files \ gone
    /\ cacheCoins' = Undone(at)
    /\ at' = pprev[at]
    /\ UNCHANGED <<phase, full, closing, tip, files, setDirtyBlockIndex, nFile, nLastBlockFile, storage, disk, safe>>

RollforwardBlock(b) ==
    /\ phase = "replay" /\ b \in Anc[disk.new] /\ pprev[b] = at
    /\ <<b, "block">> \in files \ gone
    /\ cacheCoins' = Applied(b)
    /\ at' = b
    /\ UNCHANGED <<phase, full, closing, tip, files, setDirtyBlockIndex, nFile, nLastBlockFile, storage, disk, safe>>

\* A variant without SetBestBlock.
FlushUnnamed ==
    /\ phase = "replay" /\ at = disk.new
    /\ phase' = "coins"
    /\ UNCHANGED <<full, closing, memory, storage, disk, safe>>

FlushReplayed ==
    /\ phase = "replay" /\ at = disk.new
    /\ tip' = at
    /\ phase' = "coins"
    /\ UNCHANGED <<full, closing, cacheCoins, at, files, setDirtyBlockIndex, nFile, nLastBlockFile, storage, disk, safe>>

-----------------------------------------------------------------------------
\* A write throws dbwrapper_error: FlushStateToDisk catches it and calls AbortNode, and Shutdown
\* flushes again; in ReplayBlocks the start fails.
Abort ==
    IF at = None
      THEN IF closing = 0 THEN phase' = "files" /\ closing' = 2 /\ full' = TRUE
                          ELSE Return /\ UNCHANGED full
      ELSE phase' = "down" /\ UNCHANGED <<closing, full>>

WriteBatchFails(W) ==
    /\ phase = "coins"
    /\ cacheCoins' = Erased(W)
    /\ Abort
    /\ UNCHANGED <<tip, at, files, setDirtyBlockIndex, nFile, nLastBlockFile, storage, disk, safe>>

WriteBatchSyncFails ==
    /\ phase = "index"
    /\ setDirtyBlockIndex' = {}
    /\ Abort
    /\ UNCHANGED <<tip, cacheCoins, at, files, nFile, nLastBlockFile, storage, disk, safe>>

Runs ==
    \/ \E b \in Blocks \ {Genesis} : ConnectTip(b) \/ \E roll \in BOOLEAN : AcceptBlock(b, roll)
    \/ DisconnectTip
    \/ \E all \in BOOLEAN : FlushStateToDisk(all)
    \/ Shutdown

\* The steps the thread takes of its own once it has begun.
Continues ==
    \/ FlushBlockFile \/ WriteBlockIndex \/ FinalBatch
    \/ Start \/ RollbackBlock \/ FlushReplayed
    \/ \E b \in Blocks \ {Genesis} : RollforwardBlock(b)

Next ==
    \/ Runs \/ Continues
    \/ \E W \in SUBSET Outpoints : PartialBatch(W)
    \/ Crash \/ PowerLoss \/ SyncCoins

Spec == Init /\ [][Next]_vars

\* A thread that holds cs_main goes on, and somebody starts the node again.
LiveSpec == Spec /\ WF_vars(Continues)

\* With writes that fail.
FailNext == Next \/ WriteBatchSyncFails \/ \E W \in SUBSET Outpoints : WriteBatchFails(W)
FailSpec == Init /\ [][FailNext]_vars

-----------------------------------------------------------------------------
TypeOK ==
    /\ phase \in Phases /\ full \in BOOLEAN /\ closing \in 0 .. 2
    /\ tip \in Blocks /\ cacheCoins \in [Outpoints -> Coins \cup {Clean}] /\ at \in Coins
    /\ files \subseteq Records /\ setDirtyBlockIndex \subseteq Records
    /\ nFile \in [Blocks -> Nat] /\ nLastBlockFile \in Nat /\ indexedFile \in Nat
    /\ synced \subseteq Records /\ indexed \subseteq Records /\ gone \subseteq Records
    /\ disk \in Databases /\ safe \in Databases

Shown(o) == IF cacheCoins[o] = Clean THEN disk.coins[o] ELSE cacheCoins[o]

\* "mark the database as consistent with hashBlock": whenever the database names a best block, it
\* holds exactly the coins after that block, however many flushes were interrupted before.
MarkedConsistent ==
    \A d \in {disk, safe} : d.best # None => d.coins = Utxo[d.best]

\* "in the middle of a transition from old_tip to hashBlock": otherwise every coin is as after one
\* of the two head blocks, also when the flush that ends a replay is interrupted in its turn, and
\* on the first flush, whose old tip is null.
BetweenHeads ==
    \A d \in {disk, safe} : d.best = None =>
        \A o \in Outpoints :
            \/ d.coins[o] = Utxo[IF d.old = None THEN Genesis ELSE d.old][o]
            \/ d.new # None /\ d.coins[o] = Utxo[d.new][o]

\* Whatever was interrupted, the coins database says of itself what it holds: DB_BEST_BLOCK names
\* the block its coins belong to, or DB_HEAD_BLOCKS the two between which each of them is.
DatabaseConsistent == MarkedConsistent /\ BetweenHeads

\* The running node validates against the coins after its tip: after a start, a replay included,
\* during a flush and when flushes, blocks and reorganisations alternate.
CacheShowsTip ==
    phase \in {"run", "files", "index", "coins"} => \A o \in Outpoints : Shown(o) = Utxo[tip][o]

\* The assertion of BatchWrite: a flush into an unfinished transition has the same target.
HeadsMatch == phase = "coins" /\ disk.new # None => disk.new = tip

\* "This can only be done if the blocks / block index write was also done": the block index on disk
\* has data and undo records of all blocks that the coins database depends on, so that LoadChainTip
\* and ReplayBlocks find the head blocks, and ReplayBlocks what it has to read.
IndexFirst ==
    \A d \in {disk, safe} : \A h \in {d.best, d.new, d.old} \ {None} :
        \A a \in Anc[h] \ {Genesis} : {<<a, "block">>, <<a, "undo">>} \subseteq indexed

\* Block data that the block index on disk points to is never lost.
BlocksSafe == \A b \in Blocks : <<b, "block">> \in indexed => <<b, "block">> \in synced \ gone

\* Both: a start finds the records, and the data of the blocks, that the coins database depends on.
BlocksFound == IndexFirst /\ BlocksSafe

\* "First make sure all block and undo data is flushed to disk": the same of undo data.
AllDataFlushed == phase = "index" => files \subseteq synced

\* If the node is not stopped again and again, it runs again, unless an undo record was lost.
Recovers ==
    \/ []<><<Crash \/ PowerLoss>>_vars
    \/ []<>(phase = "run")
    \/ <>(\E b \in Blocks : <<b, "undo">> \in gone)

==============================================================================
