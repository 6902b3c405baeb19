# A verification project for BitCash

TLA+ models of the validation core of BitCash (a full node derived from Bitcoin
Core), TLC configurations that check them, and TLAPS proofs of their most
important properties. Paths are relative to the repository; line numbers are in
`PROJECT.json` ("map" for every definition, "hazards" for what the properties
are aimed at).

## The system and what is modelled

A full node receives headers and blocks from peers, miners and RPC calls, in
any order. `validation.cpp` keeps all known headers in a tree, stores blocks in
files, picks the chain with the most work and moves the set of unspent coins
along it, disconnecting and connecting blocks. The scripts of a block are
verified by a pool of threads. The set of coins is kept in a stack of caches
over a LevelDB database and flushed now and then. Wallet, transaction index,
memory pool and interfaces follow the active chain. BitCash adds to this a
second currency, whose conversion is checked in `ConnectBlock`, and nicknames
for addresses, registered by transactions and kept in a database of their own.
Blocks and headers are fetched from several peers at a time, and transactions
wait in the memory pool for a block.

| part of the node | state | operations | module |
|---|---|---|---|
| block tree and active chain (`validation.cpp`, class `CChainState`) | block index, candidates, failed blocks, unlinked blocks, tip, the cached target of each thread | headers and blocks arriving, activation steps, preciousblock, invalidateblock, reconsiderblock, reconsiderallblocks, shutdown, disk errors | `ChainState` |
| script checks (`checkqueue.h`) | queue, batches, counters, sleeping threads | Add, Wait, the loop of workers and master, interruption | `CheckQueue` |
| coins caches (`coins.cpp`) | entries with DIRTY and FRESH, best blocks of two caches and the database | FetchCoin, AddCoin, SpendCoin, Uncache, SetBestBlock, Flush | `CoinsCache`, abstractly `UtxoSet` |
| flush and recovery (`validation.cpp`, `txdb.cpp`, `init.cpp`) | coins database with its head blocks, block index and block files in memory and on disk | FlushStateToDisk step by step, BatchWrite batch by batch, Shutdown, process crash, loss of power, failing writes, start, ReplayBlocks | `Recovery` |
| transaction index (`index/txindex.cpp`, the callback queue of `validationinterface.cpp` and `scheduler.cpp`) | position of the sync thread, pending callbacks, a waiting reader, indexed blocks and locator on disk | sync, hand-over, callbacks, BlockUntilSyncedToCurrentChain, failing writes, start, shutdown, crash | `TxIndex` |
| currencies and nicknames (`validation.cpp`, `nicknames.cpp`, `primitives/block.cpp`, `miner.cpp`) | nickname records, stored blocks with their amounts, tip and heads on disk | blocks arriving with any amounts, connecting, refusing, disconnecting, flush, start with replay, reindex, a crash between any two records | `BlockIntake` over the operators of `Conversion` |
| block download (`net_processing.cpp`) | state of each peer, blocks in flight, counters, headers, stored blocks, tip; requests that peers have not answered | SendMessages, headers, inv and block messages, time limits, peers coming and going | `BlockDownload` |
| memory pool (`txmempool.cpp`, `validation.cpp`) | entries with links and totals, spent outputs, fee differences, tip, the reorganisation that is under way | AcceptToMemoryPool, PrioritiseTransaction, connecting and disconnecting blocks, UpdateMempoolForReorg step by step, expiry, trimming | `Mempool` |

How they fit together: `ConnectTip`, one step of `ChainState`, has the scripts
verified through `CheckQueue` (to `ChainState` the outcome is the constant
`BadScripts`; `CheckQueue` shows that `Wait` reports exactly that) and applies
the block to a view over `pcoinsTip`. `CoinsCache` shows that the two layers
behave like plain maps, which is why `Recovery` can treat all that is in memory
as one overlay over the database, and why its `ConnectTip` and `DisconnectTip`
are single steps. `TxIndex` follows the tip: its validation actions are the
moves of the chain that `ChainState` makes, reduced to the notifications they
queue, and the best block of the coins database that `Recovery` restores is
where its chain starts again. `BlockDownload` feeds blocks to `ProcessNewBlock`;
it has the active chain in the simplest form, the best of the linked blocks,
and takes from `ProcessNewBlock` that a block can be dropped when it comes too
early. `BlockIntake` composes what BitCash adds: the arrival of a block, its
connection and the flush are in one module because the nickname database is
written at one moment and the chain state at another. `Mempool` takes the
moves of the chain as they come, calls of the pool apart. The parts meet in
one direction only, so no state space of all of them is explored.

Every module has the variables of the code under the code's names. An action is
what one thread does while it holds the lock (`cs_main`, or the mutex of the
queue), calls included; where the code gives up the lock the action ends.

### ChainState

A block is a number; the tree, the work of the blocks and which of them are
invalid are constants. Three kinds of invalid block differ in what the code
has done when it finds out: `BadBlock` fails in `AcceptBlock` and is marked
without entering `m_failed_blocks`, `BadScripts` fails in `ConnectBlock`,
`BadConversion` fails in the currency check that BitCash adds at the end of
`ConnectBlock`, when the validity of the block has been raised already.
`ActivateBestChain` releases `cs_main` between its steps and keeps
`pindexMostWork`; `pindexMostWork[t]` is that local variable, so any number of
threads can be at any place of the loop. `ActivateBestChainStep` includes the
disconnections, connections, prunings of the candidate set and markings of
invalid blocks it makes. `node` becomes `"aborted"` where an assertion of the
code fails. `Calls` says which RPCs and errors occur.

A block that `ProcessNewBlock` drops before it looks at the header (its inputs
are unknown, or the first `CheckBlock` fails) changes nothing and is a
stuttering step; `BlockDownload` has it. Validity is taken to be a property of
the block. That is not the whole truth for nicknames: `RefusedForCause` of
`BlockIntake` says when it is.

### CheckQueue

A check is a model value, its outcome whether it is in `Bad`; the queue is a
set, since its order does not matter. A thread sleeps on a condition variable
(`"asleep"`) until it is notified (`"woken"`) or wakes up by itself. Shutdown
interrupts sleeping threads. When the master is `ThreadImport` it can be
interrupted too, and the destructor of `CCheckQueueControl` waits again.

### CoinsCache and UtxoSet

`UtxoSet` says what the stack promises: three maps (database, `pcoinsTip`,
temporary view) with operations Put, Commit, Forget and Sync. `CoinsCache` has
the entries and flags of `coins.cpp`; an entry is what `GetCoin`, `AddCoin`,
`SpendCoin`, `BatchWrite` and `Uncache` look at. The refinement mapping takes a
cache to what a lookup in it shows. Callers of `AddCoin` vouch for its
`possible_overwrite` argument; the model requires what the callers in
`validation.cpp` ensure. For transactions other than coinbases that is the
uniqueness of transaction ids: `BIP34Height = 1` (`chainparams.cpp:109`) turns
the BIP30 check off (`validation.cpp:2154`) between the heights 2 and 1,983,701,
and coinbases that state their heights (`validation.cpp:3857`) take its place.
All calls hold `cs_main` but one: `ProcessNewBlock` looks coins up before it takes
the lock (`validation.cpp:4126`). The model has this as a `FetchTip` between two
other calls; the unsynchronised access to the hash map is not modelled.

### Recovery

A flush is a sequence of steps: commit the last block file, write the block
index, write the coins in any number of partial batches and a final one. A
`Crash` (the process dies) or a `PowerLoss` (what was not synced is gone as
well) may come between any two. The batches of a partial flush hold an
arbitrary set of the dirty coins, as the order of the hash map does. At the
next `Start` a database with head blocks is repaired by `ReplayBlocks`, one
block at a time, which flushes at its end and can be interrupted again. A coin
is named after the block that created it, so that the same outpoint can hold
different coins on two branches. LevelDB is represented by three promises:
batches are atomic, batches reach the disk in the order they are written
(`SyncCoins` moves `safe` up to `disk`), and a synchronous write waits.
`WriteBatchFails` and `WriteBatchSyncFails`, only in `FailSpec`, are writes
that throw.

### TxIndex

The chain moves a block at a time and queues `connected` and `flushed`
callbacks; the scheduler thread takes them in order. A flush inside
`ConnectTip` or `DisconnectTip` carries the locator of the tip before the move,
as in the code. `ThreadSync` is three steps per block, because it writes the
locator of a block before its transactions, and a crash, a failing write or a
shutdown may come between. A write of the locator that fails is only logged and
is part of the same action (`WriteBestBlock`). `FindForkInGlobalIndex` may
return any common ancestor: a locator is thinned out, and its last blocks may
be missing from the block index after a crash. A reader is a call of
`BlockUntilSyncedToCurrentChain` that compares the tip under `cs_main`, gives
up the lock and then queues a callback of its own. The model lets other threads
see the chain between any two blocks that are connected or disconnected; the
code shows fewer of these states, since a step of `ActivateBestChain` holds the
lock. The code queues `BlockConnected` for all blocks of such a step when it is
over (`validation.cpp:2999`), the model for each block at once; so in the code a
flush within the step can be queued before the block whose locator it carries.
`ChainStateFlushed` passes over it, since that block is not an ancestor of
`m_best_block_index` yet, and the locator is written with the next flush. `missed` is a history variable for a disagreement described below
(`SyncedToLocator`): the blocks left out when the locator named them and their
write did not happen. The properties except these blocks and no others.

### Conversion and BlockIntake

`Conversion` has the arithmetic: the rate of a block from three sources
(`GetPriceinCurrency`), the amount an output must have (`Amount`, with the
rounding of the code), and the loops of the miner and of `ProcessNewBlock` that
put amounts right; the latter leaves a transaction after its first correction.
In `BlockIntake` blocks come with their amounts as the miner set them or with
some of them wrong, are put right against the coins of that moment, stored, and
checked again when they are connected, on whatever chain that is. Two things are
assumed of every block: that `CheckBlock` accepts its prices, and that the output
an input refers to exists. `ProcessNewBlock` divides by the rate
(`validation.cpp:4164`) and reads the output (line 4136) before either has been
checked; nothing is said of blocks for which they fail. A nickname is
written as a sequence of records (`Written`); a crash leaves any prefix. The
nickname database is not part of the flush: after a crash it can be ahead of
the tip, and a replay registers names again. `marred` is a history variable
that says what has happened so far: `"twice"` (a block came with two wrong
amounts in one transaction), `"refused"` (a block failed the currency check
after its names were registered), `"renamed"` (a name given by the master key
was taken back), `"ahead"`, `"torn"` and `"replay"` (the process ended with names
on disk that its chain does not have, within a registration, within a replay),
`"undone"` (a replay took back a name given by the master key, or deleted records
of another block than the one it undid) and `"orphan"`
(a reindex left the record of an address without a name). Each property says
which of these it survives, so together they tell what mars the registry: the
names of a refused block stay, a name taken back does not restore the one it
replaced, and a crash between two records can leave a name that no block may
register any more until a reindex. Nothing is said after such a crash.

`RefusedForCause` is about the other direction, what the registry does to blocks:
`ConnectBlock` marks a block invalid for good when a name is taken, and a record
that should not be there makes it refuse a block that belongs to the chain. A
block of another branch can leave such records when it is refused for its amounts
or when the process ends. That a block is never in its own way rests on the block
hash kept with each name and each address, and holds unless a name given by the
master key was taken back before such an end of the process: `DeleteNickname`
clears the hash of the address, and `SetNickname` with the master key does not
write it again (`nicknames.cpp:85`), so after the next start the block that first
named the address is refused. TLC shows this when `"renamed"` is added to the
second set of `RefusedForCause`.

### BlockDownload

One action is one message handled or one call of `SendMessages`, which both
hold `cs_main`; `FinalizeNode` belongs to another thread and comes in between.
Times are ages in ticks. A peer in `Reliable` answers each request before two
ticks have passed; any other peer may be slow, be silent, answer in part, send
the block of its tip when another or nobody was asked for it, or leave. A block
that is not in flight is kept when it has no less work than the tip; its header
is accepted in any case. (That it must not lie 288 blocks ahead is beyond the
bounds.) The version message and the verack are one action, as nothing
else of a peer is handled before both have come. What this leaves out is that an
outbound peer counts in `nPreferredDownload` from the first on, so that others
are not asked meanwhile. Reliable peers send blocks as answers to getdata only,
as `ProcessGetBlockData` does. `FindNextBlocksToDownload` is modelled with
its walk, its window and the peer it blames for stalling. The walk is the set of
blocks it visits; `Ascending` puts those to be asked for in its order. The
blocks up to each block are a constant, `Upto`, that `TreeAssumption` ties to
`Parent`.

### Mempool

The pool is one record: `mapTx` with the links and totals of every entry,
`mapNextTx` and `mapDeltas`. In BitCash a transaction can spend outputs of the
chain only, since amounts are final when it is mined; so relatives in the pool
come about in one way, when a block is disconnected and its transactions return
beneath others that spend them. A reorganisation is a sequence of calls of the
pool, as `cs_main` is held throughout but the lock of the pool is not;
`PrioritiseTransaction`, which `LoadMempool` calls without `cs_main`, comes
between any two, except that the removals of one `DisconnectTip` are one step. All
transactions have the same size, so a fee stands for a fee rate. `SystemError` is a
block that cannot be read. When `FlushStateToDisk` fails instead
(`validation.cpp:2609` and `2747`), the coins have moved and the tip has not, and
the node is shutting down; that is not modelled.

## Runs

| run | what it asks | result |
|---|---|---|
| `chain_full` | two threads in `ActivateBestChain`, all RPCs but preciousblock, disk errors, shutdown, one block with bad scripts: is the active chain valid (`ConnectedAreValid`), and is every chain that is activated stored in full (`LinkedChain`)? | holds |
| `chain_operator` | one caller, any calls of preciousblock, a block that fails the currency check: do the assertions of `CheckBlockIndex` hold between calls (`CheckBlockIndex`: candidates, causes of failure, unlinked blocks, script validity), is no marked block active and does no assertion fail (`ActiveChainSound`), does every call end on the best chain (`BestChainActivated`)? Also `TypeOK`, for the sequence ids | holds |
| `chain_threads` | two threads that only receive blocks, two branches that overtake each other, on one of them a block that does not connect and above it one that `AcceptBlock` refuses: `ActiveChainSound`, is no header accepted on a marked block or anywhere above a block that did not connect (`NewHeadersNotOnInvalid`), and does every activation return (`ActivationEnds`)? | holds |
| `race_best_chain` | two threads that only receive blocks: "The result is either failure or an activated best chain" (`BestChainActivated`) | violated |
| `check_queue` | are checks and threads counted exactly (`CountersExact`), do the results account for all checks (`AllOkExact`), is the result of `Wait` exact (`WaitExact`), and does it return (`WaitReturns`)? | holds |
| `coins_cache` | do the flags mean what they say (`FlagsMean`), is no `logic_error` thrown (`NeverThrows`), and do the caches implement plain maps (`ImplementsUtxoSet`, `OperationsTakeEffect`)? | holds |
| `recovery` | two branches, two block files, crashes and losses of power anywhere: does the coins database say what it holds (`DatabaseConsistent`), does the node see its tip (`CacheShowsTip`), does the assertion of `BatchWrite` hold (`HeadsMatch`), does a start find what it needs (`BlocksFound`), and does the node come back (`Recovers`)? | holds |
| `failed_flush` | a write that throws: "mark the database as consistent with hashBlock again" (`MarkedConsistent`) | violated |
| `tx_index` | sync thread, callbacks, a reader, reorganisations, flushes, crashes: does the index have what it claims (`ClaimsCovered`), is nothing lost in the hand-over (`CaughtUp`), does it catch up (`CatchesUp`), and does a reader return with a right answer (`PromiseKept`, `ReaderReturns`)? | holds |
| `block_intake` | wrong amounts, competing names, a name given by the master key, crashes between any two records: are the names those of the chain (`RegistryOfChain`), what survives refused blocks and names taken back (`NamesHeld`), does no name change hands (`NamesNotTaken`), are stored amounts right (`StoredRight`), and is a block refused only when it does not fit its own chain, or for what other branches left behind (`RefusedForCause`)? | holds |
| `block_download` | a reliable peer that reorganises and another that does as it likes: do the records of downloads agree with each other and with the requests (`DownloadsSound`), is the reliable peer kept (`AnsweringPeersStay`), is every block freed for others (`NoBlockHeldUp`), and does the tip reach the chain of the reliable peer (`ReachesReliable`)? | holds |
| `mempool` | entry, replacement, mining, prioritising, expiry and trimming during and between reorganisations that may fail: are conflicts, links, totals and fee differences right at any time (`PoolChecked`), are the inputs of every transaction there and mature (`InputsReady`), does what can return return (`DisconnectedReturn`), is the limit kept (`PoolBounded`)? | holds |

Every property of a passing run is paired with a mutant, a plausible mistake in
the code that makes TLC report that property.

### Bounds

* **ChainState.** Three blocks on the tree `Comb` (a chain of two and a
  competitor of one) suffice for a reorganisation that fails half-way, for
  equal work decided by sequence id and for blocks arriving out of order.
  `Rivals` has seven blocks on two branches of two and five, so that each
  branch overtakes the other while a thread is between two steps. Block 4 of the
  long branch does not connect and block 5 is refused; two more follow, so that
  headers are sent one, two and three above an invalid block before and after it
  is found out. `MIN_BLOCKS_TO_KEEP = 1` makes a block "too far ahead" reachable. `chain_operator` has two
  branches of two blocks (`Branches`), so that preciousblock can move between
  branches of equal work again and again; `ReverseSequenceIds = 4` makes its
  counter differ for several calls and reach its end. `nMinimumChainWork = 0`
  leaves that test idle; a higher value only makes more blocks ignored.
* **CheckQueue.** Two workers and a master, four checks of which one fails,
  batches of one or two: enough for the queue to be empty while both workers
  hold batches, and for all three ways to compute a batch size. Symmetry is not
  used because of the liveness property.
* **CoinsCache.** Two outpoints, two coins, two blocks; entries of different
  outpoints influence each other only through flushes, which take all of them.
* **Recovery.** `Fork` has a common block and branches of one and two blocks,
  with a transaction mined on both at different heights, a coin created and
  spent in the same block and one spent by the block above. Branches of a
  single block would not show an undo on top of another. `MaxFile = 1` gives
  two block files, so that a block can lie in one that is no longer the last.
  `Pair`, two blocks in one file, is enough for `failed_flush`.
* **TxIndex.** `Fork` is the genesis block, a branch of two and a branch of
  one, so the index can be ahead of, behind or beside the tip. `MaxPending = 1`
  stands for the 10 pending callbacks at which `ActivateBestChain` waits. A
  connection that flushes queues two callbacks and a reader adds a third,
  which is enough for a callback of the branch that was left to be taken after
  the hand-over. `MaxMissed = 1` bounds the history variable: a second block
  may not be missed in the same behaviour, and `Crash` and `SyncFails` wait
  where it would be. The theorems hold for every value of both bounds.
* **BlockIntake.** A branch of two blocks and a branch of one compete for a name
  and for an address; the second block of the first gives the address another
  name by the master key. `COIN = 2` and amounts up to 5 make every division
  round. In each block one price of the three is far off, each time another
  one. A block of either branch has a transaction with two outputs, so each can be
  refused for its amounts and leave names in the way of the other. `MaxStops = 2`
  ends the process twice, so a replay or a reindex can itself be interrupted.
* **BlockDownload.** Three blocks and one beside the second; the second spends
  an output of the first and is dropped when it comes earlier. The reliable peer
  moves from the side block to the third. A window of two blocks and two in
  transit are both exhausted; every time limit is one tick, so each can run
  out before the others. For the reliable peer only the time limit for a block can
  come near: it is never the one accused of stalling, and it answers the first
  getheaders in time; `AnsweringPeersStay` says most about that one. `DayHeight` and `FetchHeight` lie within the chain, so
  that both the initial download and direct fetching occur.
* **Mempool.** Branches of three and two blocks after a common one, seven
  transactions: a chain of three of which the middle one conflicts with one of
  the other branch, one that returns beneath a child, one with a lock time, one
  that only a block may contain, coinbases that become immature again. The pool
  has room for three and the queue of disconnected transactions for four,
  coinbases included; so both overflow.

`CHECK_DEADLOCK` is off in `chain_full`, where the model stops at an assertion
that ends the process, and in `block_intake`, where it may stop for good once
`MaxStops` is reached.

### Fairness

* `ChainState!LiveSpec`: a thread inside `ActivateBestChain` goes on. It waits
  for `cs_main` only, which every other holder gives up at the end of an action.
* `CheckQueue!LiveSpec`: script checks terminate and the mutex is granted, a
  thread that was notified wakes up, the master calls `Wait` after adding
  checks (its control object does so at the latest when it is destroyed).
  Sleeping threads that were not notified are not assumed to wake up.
* `Recovery!LiveSpec`: a flush or a replay that has begun goes on, and a node
  that is down is started again. `Recovers` allows for endless crashes and for
  a lost undo record, from which the code has no way back but a reindex.
* `TxIndex!LiveSpec`: the sync thread, the scheduler thread and a reader that
  is about to queue its callback go on. Nothing is assumed of validation or
  restarts; `CatchesUp` speaks of a chain that stands still on a node that
  stays up.
* `BlockDownload!LiveSpec`: the message thread and the thread that removes peers
  go on, and time passes (`SF`, since `Tick` waits while a reliable peer is
  overdue). Reliable peers connect, answer and announce new tips, for which the
  code of the other side, the same program, sees. Announcements matter: a peer
  at or below the parent of the best header answers the first getheaders with
  nothing, and its chain stays unknown until the next one. Nothing is assumed
  of other peers.

## Disagreements between the code and what it says

Runs with the expected result "violation" record two of them; the quotations
are in `PROJECT.json`.

* `race_best_chain`: a thread in the middle of a reorganisation gives up the
  lock, a second one activates a better chain, the first resumes with its old
  target, disconnects the better chain and returns on the worse one.
* `failed_flush`: entries leave the cache before the batch that holds them is
  written; when the write throws, the flush of `Shutdown` marks the database
  consistent without them.

Further ones of the same kind were met on the way. Each is one TLC run of
`MCChainState` with the other constants as in `race_best_chain.cfg`, and the
property named here.

| property | tree | Threads | Calls | bad blocks | what happens |
|---|---|---|---|---|---|
| `ActiveNotFailed` | Comb | t1, t2 | invalidateblock | BadScripts = {2} | a block invalidated while another thread is activating it is connected all the same (line 2878) |
| `NoAssertFails` | Comb | t1, t2 | invalidateblock | BadScripts = {2} | the same, and `PruneBlockIndexCandidates` finds no candidate left (line 2833) |
| `NoAssertFails` | Chain | t1 | invalidateblock, reconsiderblock | none | an ancestor that was reconsidered stays in `m_failed_blocks`; the assertion in `AcceptBlockHeader` fails (line 3954) |
| `FailedHaveCause` | Fork | t1 | invalidateblock, reconsiderblock | none | the sibling of a reconsidered block stays marked without a failed ancestor (line 3159) |
| `BestChainActivated` | Comb | t1 | invalidateblock, reconsiderblock | none | ancestors whose flags are cleared are not made candidates; the best chain stays inactive (line 3159) |
| `UnlinkedChecked` | Comb | t1 | invalidateblock, reconsiderblock | none | a block that came while its parent was marked is never linked (line 3250) |
| `NewHeadersUnmarked` | Chain | t1 | none | BadBlock = {1} | a block refused by `AcceptBlock` is not in `m_failed_blocks`; headers two above it are accepted (line 4067), where `AcceptBlockHeader` is to "ensure that it doesn't descend from an invalid block" (lines 184-185) |
| `BestChainActivated`, `CandidatesChecked` | Comb | t1 | invalidateblock, preciousblock | none | `PreciousBlock` starts its counter anew when the tip has more work than at its last use, and invalidateblock leads back to blocks whose ids were given before that; with `ReverseSequenceIds = 4` (line 3045) |
| `CandidatesCheckedOnHeader` | Branches | t1, t2 | none | BadScripts = {4} | `CheckBlockIndex` runs in the middle of another thread's reorganisation (line 3972) |

The first two need `CHECK_DEADLOCK FALSE`. `IndexFirst` is violated under
`Recovery!FailSpec` with the constants of `failed_flush.cfg`: the dirty entries
of the block index, too, are dropped before they are written (line 2458).
Three more are found with other modules:

* `AllDataFlushed`, with `MCRecovery` and `failed_flush.cfg` changed to
  `SPECIFICATION Spec` and `MaxFile = 1`. "First make sure all block and undo
  data is flushed to disk." (`validation.cpp:2444`): undo data is appended to
  the undo file of the block, which need not be the last one, and
  `FlushBlockFile` commits only the last one (line 1829) before the block index
  refers to it.
* `SyncedToLocator`, with `MCTxIndex`, the constants of `tx_index.cfg` and
  `SPECIFICATION Spec`. "The database stores a block locator of the chain the
  database is synced to so that the TxIndex can efficiently determine the point
  it last stopped at." (`txdb.h:131`): `ThreadSync` writes the locator of a
  block before its transactions (`txindex.cpp:111`); when the process ends in
  between, the next start goes on behind that block and its transactions are
  not found.
* `ReachesReliable`, with `MCBlockDownload` and `block_download.cfg` changed to
  `Blocks <- ForkBlocks`, `Parent <- ForkParent`, `Upto <- ForkUpto`,
  `Views <- ForkViews` and `Spends <- ForkSpends`. "Process an incoming block. This only returns after
  the best known valid block is made active." (`validation.h:228`):
  `ProcessNewBlock` drops a block when it does not find what its inputs refer to
  (line 4133): it looks among the coins, in the memory pool and among the
  blocks that have been connected. A block that spends an output of its own
  branch, when the branch has not been connected yet, is asked for and dropped again, and the node
  stays on the shorter chain. `block_download` therefore has such an output in
  the common part of the branches only.

A comment that no property is about: the time limit for a block is "2 + 0.5 * N
times the block interval" in the words of `net_processing.cpp:3617`, and 1 + 0.5 N
in its constants.

## Proofs

TLC checks the instances above; the theorems hold for every value of the
constants that satisfies the named assumptions.

* **`ChainStateProofs`** from `BlocksAssumption`, `TreeAssumption`,
  `BoundsAssumption` (any finite tree, any number of threads, any RPCs and
  errors). `TypeCorrect`; `ActiveChainValid`, where the invariant is inductive
  once one knows what an activation step does to the tip
  (`ActivateEffect`, `FailEffect`: the new tip is an ancestor of the old tip or
  ends a run of blocks that all connect); and `ActivationMeetsLinkedBlocks`,
  whose core is that the blocks linked by `ReceivedBlockTransactions` hang
  together (`NewlyLinkedChain`). `LinkedChain` had to include the cached
  `pindexMostWork` of every thread and `mapBlocksUnlinked` to be inductive.
  `ActiveChainNotFailed`: no block of the active chain is marked failed, where
  the only condition is that invalidateblock does not run beside another
  thread (the first row of the table above shows that it is needed). Its
  invariant `ActiveInv` says of the cached targets that a thread whose target
  has been marked stops before the first marked block, because a block that
  does not connect lies at or below it (`TargetsStop`).
* **`ActivationProofs`** continues it, and uses `WorkAssumption` as well (work
  grows along a chain, `AncestorWork`). `ActiveChainIsSound` adds that the
  assertions of `PruneBlockIndexCandidates` and `AcceptBlockHeader` do not fail:
  there is always a candidate whose whole chain connects and below which no
  better block is missing from the candidates (`Complete`), and every mark has
  a cause (`MarkInv`). `BestChainIsActivated`: an `ActivateBestChain` that was
  not stopped returns on a chain no eligible one is better than. The invariant
  `BestInv` needs that a cached target is still the best candidate, and, for
  preciousblock, that the next reverse id is below all ids in use at the work
  of the last use and above it (`SeqInv`). `CheckBlockIndexPasses` puts these
  together with `IndexInv`, the part about `mapBlocksUnlinked` and validity
  levels, which holds with any number of threads (`IndexChecked`).
  `NoHeaderOnInvalid`: a header is refused when its parent is marked or when any
  ancestor is a block that did not connect, since what is marked but not in
  `m_failed_blocks` is a block that `AcceptBlock` refused, and since below a block
  of validity `BLOCK_VALID_SCRIPTS`, where the search for failed ancestors is
  skipped, everything connects (`HeadersInv`). Which blocks `AcceptBlock` refuses
  is arbitrary; headers two and more above one of those are accepted, and the
  property says so. Every hypothesis of these theorems is one that TLC finds
  necessary:

  | hypothesis | for | without it |
  |---|---|---|
  | no reconsiderblock or reconsiderallblocks (`MarksStay`) | all five | an assertion fails, marks without a cause stay, the best chain stays inactive, blocks are never linked (table above) |
  | invalidateblock with one thread only | `ActiveChainIsSound`, `IndexChecked` | a block is connected after it was marked (table above) |
  | one thread (`Sequential`) | `BestChainIsActivated`, `CheckBlockIndexPasses` | `race_best_chain` |
  | no errors or shutdown (`Quiet`) | `CheckBlockIndexPasses` | an activation that stops half-way leaves a better candidate; `CheckBlockIndex` itself would report it |
  | with preciousblock: one thread, `Quiet`, no invalidateblock | `ActiveChainIsSound`, `BestChainIsActivated` | ids given out before collide with new ones (`BestChainActivated` in the table above); after an error `PruneBlockIndexCandidates` finds no candidate left |
  | no invalidateblock | `NoHeaderOnInvalid` | a block that was connected, and left for a longer branch, gets no mark when its parent is invalidated and keeps `BLOCK_VALID_SCRIPTS`; headers on it are accepted (TLC finds it on two branches of three blocks) |

* **`CheckQueueProofs`** from `QueueAssumption` (any checks, workers and batch
  size). The inductive invariant is `TypeOK /\ TodoCounts /\ AllOkExact /\
  IdleCounts`: that batches and queue are disjoint and together make up `nTodo`
  gives `NoCheckLost` (`CountersExact`); that `fAllOk` accounts for exactly the checks which are
  neither queued nor in a batch gives, with `nTodo = 0`, the exactness of
  `Wait` (`WaitIsExact`). `IdleCounts` is needed because a batch of size zero
  would break the second part, and the batch size depends on the counters.
* **`CoinsCacheProofs`** from `CoinAssumption`. The inductive invariant is
  `TypeOK /\ FlagsMean /\ NeverThrows`; `FlagsMean` says of both layers that an
  entry which is not DIRTY equals the base and that a FRESH one is unspent
  nowhere below. With it every step maps to one of `UtxoSet` or to none
  (`CachesImplementUtxoSet`), and to the intended one
  (`EachOperationTakesEffect`, since a refinement alone allows an operation
  that does nothing).
* **`RecoveryProofs`** from `TreeAssumption` and `UtxoAssumption` (any tree of
  valid blocks, any outpoints, any number of files, crashes and replays). The
  properties are not inductive by themselves: `IInv` adds what the cache of a
  replay holds (`ReplayOK`: where the cache has no entry, the branches have not
  touched the coin or the database has it right), that a transition is open
  only while coins are written (`CacheOK`), that the index in memory is ahead
  of the disk by exactly its dirty entries (`IndexOK`), and that uncommitted
  block data lies in the last file (`FilesOK`). `ReplayStep` is the heart of
  it: undoing and redoing blocks on a database that has only part of their
  effects gives the right set, because an undo record restores the coin whether
  it is there or not. `DatabaseIsConsistent` and `BlocksAreFound` state what
  `recovery` checks.
* **`TxIndexProofs`** from `TreeAssumption` and `ForkAssumption` (any tree, any
  queue length; the second, that a chain leaves another at some block, would
  follow by induction from a finite tree). `BestBlockIsCovered` and
  `LocatorStaysCovered` need that all below the position of the sync thread is
  covered (`SyncOK`), and give `ClaimsAreCovered`. `HandOverLosesNothing` needs the order of the queue: each
  pending block builds on an ancestor of the one before (`Linked`), the tip is
  below the last (`Ends`), and unless the index is at the tip already some
  pending block connects to where it is (`Reaches`). It holds when `m_synced`
  is set, and a callback that is passed over leaves it true.
  `ReadersFindTheirTip` adds that the tip asked for comes before the
  reader's callback (`Serves`). "Next" and "last" are put as existential
  statements, since finding the next one in a queue would take an induction.
* **`BlockIntakeProofs`** from `TreeAssumption`, `ContentsAssumption` and
  `CoinIsPositive` (any tree of blocks, any contents and prices).
  `OneWrongPrice`: whichever two of the three prices are right,
  `GetPriceinCurrency` is at most half their distance away from the range
  between them. `NoGainFromChanging`: an amount changed into Dollars and back in
  a block whose first rate is not below its second is never larger than before;
  the rates of a block come from three sources one by one, so the combined
  rates need not have the order that each source must have
  (`validation.cpp:3443`, "The buy price must be higher than the sell price.").
  These three are about the arithmetic and hold for all prices; no run checks them.
  `RatesArePositive`: when `CheckBlock` has accepted the prices of a block,
  `ConnectBlock` does not divide by zero.
  `StoredStaysRight`: a block is stored with the amounts `ConnectBlock` demands,
  whichever chain is active when it comes. The argument: the currency
  `ProcessNewBlock` sees for an input does not depend on where its coin is found
  unless a coinbase pays Dollars (`CurrencyIsSeen`); only amounts changed on the
  way can be wrong (`ChangedAmountsOnly`), and a single wrong one is put right
  (`OneWrongIsPutRight`). The invariant must include the data of the last flush,
  which returns after a crash.

* **`BlockDownloadProofs`** from `TreeAssumption`, `PeersAssumption`,
  `LimitsAssumption` and `StatesAssumption` (any finite tree and set of peers, any
  window, limits and time limits; a peer's state is told apart from none).
  `DownloadsStaySound` is what `block_download` checks as `DownloadsSound`. The
  inductive invariant `DownloadInv` has five parts. `BookOK`: a block is in the
  queue of the peer `mapBlocksInFlight` names, once, and the counters are the
  sizes of three sets of peers; each handler changes one peer, so each counter
  moves by at most one (`CountStep`), and taking a block out of a queue needs that
  it is there only once (`TakenOut`). `AskedOK`: a block in flight is among the
  requests its peer has not answered; an answer takes the block it brings out of
  the books, from whichever peer it was in flight, so a request is never gone
  before its block. `CommonOK`: all up to a last common block is stored; it survives
  going back (`LastCommonAncestor`) because an ancestor of a linked block is
  linked, and the walk only moves it to linked blocks (`FetchSound`). `ChainsOK`
  says the same of the tip, from which the first last common block is guessed,
  and that the views of the peers and the best header are blocks. `WantedOK`
  types the requests. That what is asked for is not in flight yet and fits the
  limit is `FindNextSound` and `DirectFetchSound`.

`ChainStateProofs`, `ActivationProofs` and `BlockDownloadProofs` make Zenon the
default prover (`USE Zenon`) and cite SMT where arithmetic, sequences or records
need it. Facts about whole chains that
take an induction (`AncestorWork`) are proved from the least counterexample:
`<` on the natural numbers is well-founded, and a set of heights has a minimal
element (`WFMin`).

Only model-checked:

* the liveness properties (`ActivationEnds`, `WaitReturns`, `Recovers`,
  `CatchesUp`, `ReaderReturns`, `ReachesReliable`, `NoBlockHeldUp`), which are
  beyond the prover;
* `RegistryOfChain`, `NamesHeld`, `NamesNotTaken` and `RefusedForCause` of `BlockIntake`: the book is
  the result of folds over sequences of records, and relating two folds takes
  an induction over an operator, which the prover cannot do;
* `AnsweringPeersStay` of `BlockDownload`, which depends on how long an answer
  takes compared with the time limits, and so on the constants of the run;
* `Mempool`, whose totals are sums over closures of links.

## Not modelled

`PROJECT.json` lists every part of the node with the reason where it is not
modelled. Left out within the modelled parts:

* pruning of block files, import and reindexing of blocks, `RewindBlockIndex`
  and `VerifyDB`. They run alone at start-up or between two steps that are
  modelled. `VerifyDB` at level 4 connects blocks again and so registers their
  names again, which `BlockIntake` does not show;
* memory accounting of the caches;
* for the transaction index the positions in the block files, `FindTx`, the
  migration of the old database and more than one reader at a time;
* for block download compact blocks, peers that serve only recent blocks or none
  or are whitelisted, invalid blocks, and `ConsiderEviction`
  (`net_processing.cpp:3068`). To the rest of the node its effect is that of a peer
  that leaves. But it can also disconnect an outbound peer that answers all requests
  and stays on a chain of less work, after another getheaders; `AnsweringPeersStay`
  speaks of the three time limits only;
* for the memory pool the limits on ancestors and descendants (a transaction
  that is accepted has no parent in the pool), the rolling minimum fee, the fee
  estimator, `mempool.dat` but for the fee differences it sets, and
  registrations of nicknames. Reloading `mempool.dat` goes through
  `AcceptToMemoryPool` and therefore loses transactions whose parents are in
  the pool;
* for nicknames the view keys, failing writes, and the crash of a machine, which
  may lose records that a crash of the process does not.

The other parts are network transport, address tables, wallet, RPC, user
interface, script interpreter, cryptography and serialisation. They are input
and output, functions of their arguments whose domains are beyond enumeration,
or tables under a single lock; `PROJECT.json` says which.
