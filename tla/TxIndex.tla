------------------------------ MODULE TxIndex ------------------------------
(***************************************************************************)
(* The transaction index (index/txindex.cpp) beside the chain it follows.  *)
(* A thread of its own indexes the chain until it has caught up, and then  *)
(* hands over to the callbacks that validation queues for the scheduler    *)
(* thread.  The chain moves, is flushed and is reorganised meanwhile, and  *)
(* the process may stop or die between any two writes.                     *)
(*                                                                         *)
(* A step is what a thread does while it holds cs_main, or one write to    *)
(* the index database.  Only the entries of the callback queue that the    *)
(* index or a reader of it gets are modelled.  A null m_best_block_index   *)
(* that is followed kills the process, which Crash does anyway.            *)
(***************************************************************************)
EXTENDS Integers, Sequences, FiniteSets

CONSTANTS
    Blocks, Genesis, None,
    pprev, Anc,         \* of a block: its parent; itself and all blocks it is built on
    MaxPending,         \* callbacks pending before validation waits: 10 in ActivateBestChain
    MaxMissed           \* bound on the blocks that are missed, see below

ASSUME TreeAssumption ==
    /\ Genesis \in Blocks /\ None \notin Blocks
    /\ pprev \in [Blocks \ {Genesis} -> Blocks] /\ Anc \in [Blocks -> SUBSET Blocks]
    /\ Anc[Genesis] = {Genesis}
    /\ \A b \in Blocks : b \in Anc[b] /\ Genesis \in Anc[b]
    /\ \A b \in Blocks \ {Genesis} : Anc[b] = Anc[pprev[b]] \cup {b}
    /\ \A b \in Blocks : \A a \in Anc[b] : Anc[a] \subseteq Anc[b]
    /\ MaxPending \in Nat /\ MaxMissed \in Nat

\* A chain that is not part of another one leaves it at some block.
ASSUME ForkAssumption ==
    \A b, c \in Blocks : b \notin Anc[c] =>
        \E n \in Anc[b] \ (Anc[c] \cup {Genesis}) : pprev[n] \in Anc[c]

VARIABLES
    phase,      \* "up", "stopping" once a shutdown is requested, "down"
    tip,        \* chainActive.Tip()
    flushedTip, \* best block of the coins database
    queue,      \* callbacks for the scheduler thread
    m_synced, m_best_block_index,
    pc, pindex, \* ThreadSync: where it is, and its local
    rpc, asked, \* a call of BlockUntilSyncedToCurrentChain, and the tip it has seen
    indexed,    \* index database: the blocks whose transactions are in it
    locator,    \*   and the block its locator was made for
    missed      \* history: blocks not in it, that the locator named when their write did not happen

chain == <<tip, flushedTip>>
sync == <<pc, pindex>>
reader == <<rpc, asked>>
db == <<indexed, locator, missed>>
vars == <<phase, chain, queue, m_synced, m_best_block_index, sync, reader, db>>

MaybeBlock == Blocks \cup {None}
Callbacks == [kind : {"connected", "flushed"}, block : Blocks] \cup [kind : {"drained"}, block : {None}]
Connected(b) == [kind |-> "connected", block |-> b]
Flushed(b) == [kind |-> "flushed", block |-> b]
Drained == [kind |-> "drained", block |-> None]

Branch(b) == IF b = None THEN {} ELSE Anc[b]

\* A data directory without the index, of a new node or of one that ran without -txindex.
Init ==
    /\ phase = "down" /\ flushedTip \in MaybeBlock /\ tip = None
    /\ queue = <<>> /\ m_synced = FALSE /\ m_best_block_index = None
    /\ pc = "off" /\ pindex = None
    /\ rpc = "idle" /\ asked = None
    /\ indexed = {} /\ locator = None /\ missed = {}

-----------------------------------------------------------------------------
\* Validation.  ConnectTip and DisconnectTip flush before they move the tip, so the locator of a
\* flush in them is that of the old one.  The model queues a block when it is connected; the code
\* queues the blocks of a step of ActivateBestChain together at its end, so that a flush within the
\* step may come before the block it names.  ChainStateFlushed passes over such a flush.
Room == Len(queue) < MaxPending

ConnectTip(b, flush) ==
    /\ phase # "down" /\ Room
    /\ IF tip = None THEN b = Genesis ELSE b # Genesis /\ pprev[b] = tip
    /\ flush => tip # None
    /\ queue' = Append(IF flush THEN Append(queue, Flushed(tip)) ELSE queue, Connected(b))
    /\ flushedTip' = IF flush THEN b ELSE flushedTip
    /\ tip' = b
    /\ UNCHANGED <<phase, m_synced, m_best_block_index, sync, reader, db>>

DisconnectTip(flush) ==
    /\ phase # "down" /\ tip \notin {None, Genesis}
    /\ flush => Room
    /\ queue' = IF flush THEN Append(queue, Flushed(tip)) ELSE queue
    /\ flushedTip' = IF flush THEN pprev[tip] ELSE flushedTip
    /\ tip' = pprev[tip]
    /\ UNCHANGED <<phase, m_synced, m_best_block_index, sync, reader, db>>

FlushStateToDisk ==
    /\ phase # "down" /\ tip # None /\ Room
    /\ queue' = Append(queue, Flushed(tip))
    /\ flushedTip' = tip
    /\ UNCHANGED <<phase, tip, m_synced, m_best_block_index, sync, reader, db>>

-----------------------------------------------------------------------------
\* ThreadSync has returned.
Leave == pc' = "off" /\ pindex' = None

\* Start and Init.  The locator is thinned out and its latest blocks may be gone from the block
\* index, so what FindForkInGlobalIndex returns may lie below the fork.
FindForkInGlobalIndex ==
    IF flushedTip = None THEN {None}
    ELSE IF locator = None THEN {Genesis}
    ELSE Anc[locator] \cap Anc[flushedTip]

Start(fork) ==
    /\ phase = "down" /\ fork \in FindForkInGlobalIndex
    /\ phase' = "up" /\ tip' = flushedTip /\ queue' = <<>>
    /\ m_best_block_index' = fork /\ m_synced' = (fork = flushedTip)
    /\ IF fork = flushedTip THEN Leave ELSE pc' = "next" /\ pindex' = fork
    /\ UNCHANGED <<flushedTip, reader, db>>

\* A request to shut down, and Interrupt.
RequestShutdown ==
    /\ phase = "up" /\ phase' = "stopping"
    /\ UNCHANGED <<chain, queue, m_synced, m_best_block_index, sync, reader, db>>

\* What a process leaves behind in memory.
Forget ==
    /\ phase' = "down" /\ tip' = None /\ queue' = <<>>
    /\ m_synced' = FALSE /\ m_best_block_index' = None
    /\ Leave /\ rpc' = "idle" /\ asked' = None
    /\ UNCHANGED <<indexed, locator>>

\* Shutdown: the readers are waited for, the index is unregistered and its thread joined, and
\* then the chain is flushed, a callback that the index does not get.
Shutdown ==
    /\ phase = "stopping" /\ pc = "off" /\ rpc = "idle"
    /\ flushedTip' = tip
    /\ missed' = missed
    /\ Forget

\* The block of ThreadSync is not written, but may be the one that the locator names.
NotWritten == IF pc = "write" /\ locator = pindex THEN {pindex} \ indexed ELSE {}

MayMiss == Cardinality(missed \cup NotWritten) <= MaxMissed

Crash ==
    /\ phase # "down" /\ MayMiss
    /\ missed' = missed \cup NotWritten
    /\ flushedTip' = flushedTip
    /\ Forget

-----------------------------------------------------------------------------
\* A variant that knows no forks.
NextOnChain(p) ==
    IF p = None THEN Branch(tip) \cap {Genesis} ELSE {n \in Branch(tip) \ {Genesis} : pprev[n] = p}

\* The block on the active chain after p, or after the fork when p is not on it.
NextSyncBlock(p) ==
    IF p = None THEN Branch(tip) \cap {Genesis}
    ELSE {n \in Branch(tip) \ (Anc[p] \cup {Genesis}) : pprev[n] \in Anc[p]}

\* WriteBestBlock: a failure is logged and no more.
WriteBestBlock(b) == locator' \in {locator, b}

\* WriteBlock, when it succeeds.
WriteBlock(b) == indexed' = indexed \cup {b} /\ missed' = missed \ {b}

SyncNext ==
    /\ pc = "next"
    /\ \E n \in NextSyncBlock(pindex) : pindex' = n
    /\ pc' = "locator"
    /\ UNCHANGED <<phase, chain, queue, m_synced, m_best_block_index, reader, db>>

HandOver ==
    /\ pc = "next" /\ NextSyncBlock(pindex) = {}
    /\ WriteBestBlock(pindex)
    /\ m_best_block_index' = pindex /\ m_synced' = TRUE
    /\ Leave
    /\ UNCHANGED <<phase, chain, queue, reader, indexed, missed>>

\* The locator is written every so often.
SyncLocator ==
    /\ pc = "locator"
    /\ WriteBestBlock(pindex)
    /\ pc' = "write"
    /\ UNCHANGED <<phase, chain, queue, m_synced, m_best_block_index, pindex, reader, indexed, missed>>

SyncWrite ==
    /\ pc = "write"
    /\ WriteBlock(pindex)
    /\ pc' = "next"
    /\ UNCHANGED <<phase, chain, queue, m_synced, m_best_block_index, pindex, reader, locator>>

\* FatalError: the block cannot be read or written.
SyncFails ==
    /\ pc = "write" /\ MayMiss
    /\ missed' = missed \cup NotWritten
    /\ Leave /\ phase' = "stopping"
    /\ UNCHANGED <<chain, queue, m_synced, m_best_block_index, reader, indexed, locator>>

SyncInterrupted ==
    /\ pc = "next" /\ phase = "stopping"
    /\ WriteBestBlock(pindex)
    /\ Leave
    /\ UNCHANGED <<phase, chain, queue, m_synced, m_best_block_index, reader, indexed, missed>>

-----------------------------------------------------------------------------
\* The callbacks, in the order in which they were queued.
Take(kind) == phase # "down" /\ queue # <<>> /\ Head(queue).kind = kind /\ queue' = Tail(queue)

\* A variant that lets only the next block through.
ConnectsNext(best, b) == b = Genesis \/ (best # None /\ pprev[b] = best)

\* b connects to an ancestor of the block that the index is at.
Connects(best, b) == b = Genesis \/ (best # None /\ pprev[b] \in Anc[best])

BlockConnected(b) ==
    /\ Take("connected") /\ b = Head(queue).block
    /\ m_synced /\ Connects(m_best_block_index, b)
    /\ WriteBlock(b) /\ m_best_block_index' = b
    /\ UNCHANGED <<phase, chain, m_synced, sync, reader, locator>>

BlockNotWritten(b) ==
    /\ Take("connected") /\ b = Head(queue).block
    /\ m_synced /\ Connects(m_best_block_index, b)
    /\ phase' = "stopping"
    /\ UNCHANGED <<chain, m_synced, m_best_block_index, sync, reader, db>>

BlockPassedOver(b) ==
    /\ Take("connected") /\ b = Head(queue).block
    /\ ~(m_synced /\ Connects(m_best_block_index, b))
    /\ phase' = IF m_synced /\ m_best_block_index = None THEN "stopping" ELSE phase
    /\ UNCHANGED <<chain, m_synced, m_best_block_index, sync, reader, db>>

\* A variant that takes every locator for its own.
FlushedAnyway(b) ==
    /\ Take("flushed") /\ b = Head(queue).block
    /\ IF m_synced THEN WriteBestBlock(b) ELSE locator' = locator
    /\ UNCHANGED <<phase, chain, m_synced, m_best_block_index, sync, reader, indexed, missed>>

ChainStateFlushed(b) ==
    /\ Take("flushed") /\ b = Head(queue).block
    /\ IF m_synced /\ b \in Branch(m_best_block_index) THEN WriteBestBlock(b) ELSE locator' = locator
    /\ UNCHANGED <<phase, chain, m_synced, m_best_block_index, sync, reader, indexed, missed>>

\* Variants of AskQueue whose callback goes first, or is dropped in a shutdown.
AskFirst ==
    /\ phase # "down" /\ rpc = "asked"
    /\ queue' = <<Drained>> \o queue
    /\ rpc' = "waiting"
    /\ UNCHANGED <<phase, chain, m_synced, m_best_block_index, sync, asked, db>>

AskDropped ==
    /\ phase # "down" /\ rpc = "asked"
    /\ queue' = IF phase = "up" THEN Append(queue, Drained) ELSE queue
    /\ rpc' = "waiting"
    /\ UNCHANGED <<phase, chain, m_synced, m_best_block_index, sync, asked, db>>

\* BlockUntilSyncedToCurrentChain, and SyncWithValidationInterfaceQueue after cs_main is released.
Ask ==
    /\ phase = "up" /\ rpc = "idle"
    /\ m_synced /\ m_best_block_index # None /\ tip # None
    /\ tip \notin Anc[m_best_block_index]     \* otherwise it returns true at once
    /\ rpc' = "asked" /\ asked' = tip
    /\ UNCHANGED <<phase, chain, queue, m_synced, m_best_block_index, sync, db>>

AskQueue ==
    /\ phase # "down" /\ rpc = "asked"
    /\ queue' = Append(queue, Drained)
    /\ rpc' = "waiting"
    /\ UNCHANGED <<phase, chain, m_synced, m_best_block_index, sync, asked, db>>

Answer ==
    /\ Take("drained")
    /\ rpc' = "idle" /\ asked' = None
    /\ UNCHANGED <<phase, chain, m_synced, m_best_block_index, sync, db>>

-----------------------------------------------------------------------------
ThreadSync == SyncNext \/ HandOver \/ SyncLocator \/ SyncWrite \/ SyncFails \/ SyncInterrupted
Process ==
    \/ \E b \in Blocks : BlockConnected(b) \/ BlockNotWritten(b) \/ BlockPassedOver(b) \/ ChainStateFlushed(b)
    \/ Answer
ChainMoves ==
    \/ \E b \in Blocks, flush \in BOOLEAN : ConnectTip(b, flush)
    \/ \E flush \in BOOLEAN : DisconnectTip(flush)

Next ==
    \/ ChainMoves \/ FlushStateToDisk
    \/ \E fork \in MaybeBlock : Start(fork)
    \/ RequestShutdown \/ Shutdown \/ Crash
    \/ ThreadSync \/ Process \/ Ask \/ AskQueue

Spec == Init /\ [][Next]_vars

\* The threads run, and cs_main is granted to those that wait for it.
LiveSpec == Spec /\ WF_vars(ThreadSync) /\ WF_vars(Process) /\ WF_vars(AskQueue)

-----------------------------------------------------------------------------
TypeOK ==
    /\ phase \in {"up", "stopping", "down"}
    /\ tip \in MaybeBlock /\ flushedTip \in MaybeBlock
    /\ queue \in Seq(Callbacks)
    /\ m_synced \in BOOLEAN /\ m_best_block_index \in MaybeBlock
    /\ pc \in {"off", "next", "locator", "write"} /\ pindex \in MaybeBlock
    /\ rpc \in {"idle", "asked", "waiting"} /\ asked \in MaybeBlock
    /\ indexed \subseteq Blocks /\ locator \in MaybeBlock /\ missed \subseteq Blocks

\* The genesis block is not looked up in the index.
Covered(b) == Branch(b) \subseteq indexed \cup missed \cup {Genesis}

\* m_best_block_index, "the last block in the chain that the TxIndex is in sync with": of the chain
\* that ends there every transaction is found, over reorganisations, the hand-over, failed writes
\* and restarts, but for the blocks at which the sync thread was stopped after it wrote the
\* locator.
BestIsCovered == Covered(m_best_block_index)

\* The same for the chain of the locator on disk, from which a restarted node goes on: a flush
\* never makes it name blocks that are still to be indexed.
LocatorIsCovered == Branch(locator) \subseteq indexed \cup missed \cup NotWritten \cup {Genesis}

\* Both: neither in memory nor on disk does the index claim a block that it can still lose.
ClaimsCovered == BestIsCovered /\ LocatorIsCovered

\* No block is lost in the hand-over from the sync thread to the callbacks, although callbacks
\* that come before it are dropped and stale ones come after it: when no connected block is
\* pending, the index has got to the tip.
CaughtUp ==
    phase = "up" /\ m_synced /\ tip # None
        /\ (\A i \in 1..Len(queue) : queue[i].kind # "connected")
    => tip \in Branch(m_best_block_index)

\* A reader that BlockUntilSyncedToCurrentChain has let through finds every transaction of the
\* chain that was active when it called, although the chain moves on before its callback is queued.
\* (Once a write has failed, and the node is stopping, the answer means nothing.)
PromiseKept == [][phase = "up" /\ Answer => Covered(asked)]_vars

\* "The database stores a block locator of the chain the database is synced to so that the TxIndex
\* can efficiently determine the point it last stopped at": nothing is missing below the point at
\* which a restarted index goes on.
SyncedToLocator == Branch(m_best_block_index) \subseteq indexed \cup {Genesis}

\* While the chain stands still and nothing fails, the index catches up with it.
CatchesUp ==
    \/ []<><<ChainMoves \/ phase' # "up">>_vars
    \/ <>[](phase # "up")
    \/ <>[](m_synced /\ (tip # None => tip \in Branch(m_best_block_index)))

\* A reader never waits for ever, not for callbacks that a shutdown would have dropped either.
ReaderReturns == rpc # "idle" ~> rpc = "idle"

=============================================================================
