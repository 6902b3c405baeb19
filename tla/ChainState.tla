----------------------------- MODULE ChainState -----------------------------
(***************************************************************************)
(* The block tree and the choice of the active chain: class CChainState of *)
(* validation.cpp with the RPC entry points that drive it.  Every action   *)
(* is what one thread does while it holds cs_main; ActivateBestChain gives *)
(* the lock up between its steps, so calls of several threads interleave.  *)
(*                                                                         *)
(* A block is a number, which also stands for the address of its           *)
(* CBlockIndex (the comparator and the ordered sets of pointers use it).   *)
(* Headers that fail their own checks never enter mapBlockIndex, so Blocks *)
(* holds only blocks with a valid header.  Nothing is pruned here.         *)
(***************************************************************************)
EXTENDS Integers, FiniteSets

CONSTANTS
    Blocks,                 \* every block that can be offered to the node
    Genesis,                \* chainparams.GenesisBlock()
    pprev,                  \* [Blocks -> Blocks], the parent; Genesis is its own
    Anc,                    \* [Blocks -> SUBSET Blocks], ancestors and the block itself
    nHeight, nChainWork,    \* [Blocks -> Nat]
    BadBlock,               \* fails CheckBlock or ContextualCheckBlock in AcceptBlock
    BadScripts,             \* fails ConnectBlock before its validity is raised
    BadConversion,          \* fails ConnectBlock in the currency check at its end
    Threads,                \* threads that call into validation
    Calls,                  \* the operator's RPCs, and "errors" for failing disks, that occur
    MIN_BLOCKS_TO_KEEP,     \* how far ahead of the tip an unrequested block may be
    nMinimumChainWork,      \* least work of an unrequested block
    ReverseSequenceIds      \* minus numeric_limits<int32_t>::min(): preciousblock calls told apart

ASSUME BlocksAssumption ==
    /\ Blocks \subseteq Nat /\ IsFiniteSet(Blocks) /\ Genesis \in Blocks
    /\ pprev \in [Blocks -> Blocks] /\ Anc \in [Blocks -> SUBSET Blocks]
    /\ nHeight \in [Blocks -> Nat] /\ nChainWork \in [Blocks -> Nat]
    /\ BadBlock \cup BadScripts \cup BadConversion \subseteq Blocks \ {Genesis}

ASSUME TreeAssumption ==
    /\ Anc[Genesis] = {Genesis} /\ pprev[Genesis] = Genesis
    /\ \A b \in Blocks : b \in Anc[b] /\ Genesis \in Anc[b]
    /\ \A b \in Blocks \ {Genesis} : Anc[b] = {b} \cup Anc[pprev[b]] /\ b \notin Anc[pprev[b]]
    /\ \A b \in Blocks : \A a \in Anc[b] : Anc[a] \subseteq Anc[b]
    /\ \A b \in Blocks : \A a, c \in Anc[b] : a \in Anc[c] \/ c \in Anc[a]

ASSUME BoundsAssumption ==
    /\ ReverseSequenceIds \in Nat \ {0}
    /\ MIN_BLOCKS_TO_KEEP \in Nat /\ nMinimumChainWork \in Nat

ASSUME WorkAssumption ==
    \A b \in Blocks \ {Genesis} :
        nHeight[b] = nHeight[pprev[b]] + 1 /\ nChainWork[b] > nChainWork[pprev[b]]

\* enum BlockStatus: the levels of BLOCK_VALID_MASK that the code assigns.
BLOCK_VALID_UNKNOWN == 0      \* here: no entry in mapBlockIndex
BLOCK_VALID_TREE == 2
BLOCK_VALID_TRANSACTIONS == 3
BLOCK_VALID_SCRIPTS == 5

Idle == -1      \* the thread is not in ActivateBestChain
Null == -2      \* it is, and its pindexMostWork is nullptr

VARIABLES
    validity,                   \* nStatus & BLOCK_VALID_MASK; UNKNOWN when not in mapBlockIndex
    failedValid, failedChild,   \* the blocks with BLOCK_FAILED_VALID, BLOCK_FAILED_CHILD
    linked,                     \* the blocks with nChainTx # 0
    nSequenceId, nBlockSequenceId,
    nBlockReverseSequenceId, nLastPreciousChainwork,
    setBlockIndexCandidates,
    mapBlocksUnlinked,          \* position of a block in equal_range(pprev), 0 when absent
    m_failed_blocks,
    tip,                        \* chainActive.Tip(); the active chain is Anc[tip]
    pindexMostWork,             \* the local of ActivateBestChain, per thread
    node                        \* "running", "shutdown" requested, "aborted" by an assert

indexVars == <<validity, failedValid, failedChild, linked>>
seqVars == <<nSequenceId, nBlockSequenceId>>
preciousVars == <<nBlockReverseSequenceId, nLastPreciousChainwork>>
vars == <<indexVars, seqVars, preciousVars, setBlockIndexCandidates, mapBlocksUnlinked,
          m_failed_blocks, tip, pindexMostWork, node>>

mapBlockIndex == {b \in Blocks : validity[b] # BLOCK_VALID_UNKNOWN}
Failed == failedValid \cup failedChild
IsValid(b, nUpTo) == b \notin Failed /\ validity[b] >= nUpTo
HaveData(b) == validity[b] >= BLOCK_VALID_TRANSACTIONS      \* BLOCK_HAVE_DATA: nothing is pruned
BadConnect == BadScripts \cup BadConversion

\* CBlockIndexWorkComparator()(a, b) under the sequence ids seq: a sorts before (worse than) b.
Worse(seq, a, b) ==
    \/ nChainWork[a] < nChainWork[b]
    \/ /\ nChainWork[a] = nChainWork[b]
       /\ seq[a] > seq[b] \/ (seq[a] = seq[b] /\ a > b)

\* A variant of Pruned that also drops the tip itself.
PrunedStrictly(seq, c, x) == {b \in c : Worse(seq, x, b)}

\* What PruneBlockIndexCandidates leaves of the set c when the tip is x.
Pruned(seq, c, x) == {b \in c : ~Worse(seq, b, x)}

Init ==
    /\ validity = [b \in Blocks |-> IF b = Genesis THEN BLOCK_VALID_TRANSACTIONS
                                                   ELSE BLOCK_VALID_UNKNOWN]
    /\ failedValid = {} /\ failedChild = {} /\ m_failed_blocks = {}
    /\ linked = {Genesis} /\ setBlockIndexCandidates = {Genesis}
    /\ nSequenceId = [b \in Blocks |-> IF b = Genesis THEN 1 ELSE 0] /\ nBlockSequenceId = 2
    /\ nBlockReverseSequenceId = -1 /\ nLastPreciousChainwork = 0
    /\ mapBlocksUnlinked = [b \in Blocks |-> 0]
    /\ tip = Genesis
    /\ pindexMostWork = [t \in Threads |-> Idle]
    /\ node = "running"

CanCall(t) == node # "aborted" /\ pindexMostWork[t] = Idle
EnterActivateBestChain(t) == pindexMostWork' = [pindexMostWork EXCEPT ![t] = Null]

-----------------------------------------------------------------------------
(* Headers and blocks arriving. *)

\* A variant that looks at the parent's own flags only.
FailedAncestorsUnchecked(p) == {}

\* The failed blocks AcceptBlockHeader finds below a parent p that is not known to be fully valid.
FailedAncestors(p) == IF IsValid(p, BLOCK_VALID_SCRIPTS) THEN {} ELSE m_failed_blocks \cap Anc[p]

AcceptsHeader(b) ==
    \/ b = Genesis
    \/ b \in mapBlockIndex /\ b \notin Failed
    \/ /\ b \notin mapBlockIndex
       /\ pprev[b] \in mapBlockIndex \ Failed
       /\ FailedAncestors(pprev[b]) = {}

\* AcceptBlockHeader refuses b.  When the reason is a failed block deeper down, the blocks from
\* the parent down to it are marked; the loop stops at the failed block with the least address.
RejectBlockHeader(t, b) ==
    /\ CanCall(t) /\ ~AcceptsHeader(b)
    /\ IF b \notin mapBlockIndex /\ pprev[b] \in mapBlockIndex \ Failed
         THEN \E f \in FailedAncestors(pprev[b]) :
                /\ \A g \in FailedAncestors(pprev[b]) : f <= g
                /\ IF f \in failedValid
                     THEN /\ failedChild' = failedChild \cup (Anc[pprev[b]] \ Anc[f])
                          /\ UNCHANGED node
                     ELSE /\ node' = "aborted"      \* assert(failedit->nStatus & BLOCK_FAILED_VALID)
                          /\ UNCHANGED failedChild
         ELSE UNCHANGED <<failedChild, node>>
    /\ UNCHANGED <<validity, failedValid, linked, seqVars, preciousVars, setBlockIndexCandidates,
                   mapBlocksUnlinked, m_failed_blocks, tip, pindexMostWork>>

\* AddToBlockIndex
WithHeader(b) == IF b \in mapBlockIndex THEN validity ELSE [validity EXCEPT ![b] = BLOCK_VALID_TREE]

\* ProcessNewBlockHeaders for one header.
AcceptBlockHeader(t, b) ==
    /\ CanCall(t) /\ AcceptsHeader(b)
    /\ validity' = WithHeader(b)
    /\ UNCHANGED <<failedValid, failedChild, linked, seqVars, preciousVars, setBlockIndexCandidates,
                   mapBlocksUnlinked, m_failed_blocks, tip, pindexMostWork, node>>

\* AcceptBlock returns before it looks at the block.
IgnoresBlock(b, fRequested) ==
    \/ HaveData(b)
    \/ /\ ~fRequested
       /\ \/ nChainWork[b] < nChainWork[tip]
          \/ nHeight[b] > nHeight[tip] + MIN_BLOCKS_TO_KEEP
          \/ nChainWork[b] < nMinimumChainWork

\* A variant that links a block although its parent is not linked.
NewlyLinkedUnchecked(b) ==
    {d \in Blocks : b \in Anc[d] /\ \A x \in Anc[d] \ Anc[b] : mapBlocksUnlinked[x] # 0}

\* The blocks ReceivedBlockTransactions links once b has its data: b and what waited for it.
NewlyLinked(b) ==
    IF pprev[b] \notin linked THEN {}
    ELSE {d \in Blocks : b \in Anc[d] /\ \A x \in Anc[d] \ Anc[b] : mapBlocksUnlinked[x] # 0}

\* The breadth-first order of the queue: by height, then as their branches wait in mapBlocksUnlinked.
LinkedBefore(c, d) ==
    \/ nHeight[c] < nHeight[d]
    \/ /\ nHeight[c] = nHeight[d]
       /\ \E x \in Anc[c] \ Anc[d], y \in Anc[d] \ Anc[c] :
            pprev[x] = pprev[y] /\ mapBlocksUnlinked[x] < mapBlocksUnlinked[y]

\* A variant that keeps only blocks whose parent has its data.
WaitsForData(b) == pprev[b] \notin linked /\ IsValid(pprev[b], BLOCK_VALID_TRANSACTIONS)

\* b cannot be linked yet and enters mapBlocksUnlinked.
Waits(b) == pprev[b] \notin linked /\ IsValid(pprev[b], BLOCK_VALID_TREE)

ReceivedBlockTransactions(b) ==
    LET L == NewlyLinked(b)
        seq == [d \in Blocks |->
                  IF d \in L THEN nBlockSequenceId + Cardinality({c \in L : LinkedBefore(c, d)})
                             ELSE nSequenceId[d]]
        place == 1 + Cardinality({c \in Blocks \ {Genesis} : pprev[c] = pprev[b] /\ mapBlocksUnlinked[c] # 0})
    IN  /\ validity' = [validity EXCEPT ![b] = BLOCK_VALID_TRANSACTIONS]
        /\ linked' = linked \cup L
        /\ nSequenceId' = seq
        /\ nBlockSequenceId' = nBlockSequenceId + Cardinality(L)
        /\ setBlockIndexCandidates' = setBlockIndexCandidates \cup {d \in L : ~Worse(seq, d, tip)}
        /\ mapBlocksUnlinked' = [d \in Blocks |-> IF d \in L THEN 0
                                                  ELSE IF d = b /\ Waits(b) THEN place
                                                  ELSE mapBlocksUnlinked[d]]

\* ProcessNewBlock when AcceptBlock stores the block and ActivateBestChain follows.
StoreBlock(t, b) ==
    /\ CanCall(t) /\ AcceptsHeader(b)
    /\ \E fRequested \in BOOLEAN : ~IgnoresBlock(b, fRequested)
    /\ b \notin BadBlock
    /\ ReceivedBlockTransactions(b)
    /\ EnterActivateBestChain(t)
    /\ UNCHANGED <<failedValid, failedChild, preciousVars, m_failed_blocks, tip, node>>

\* The block is known or was not asked for: its header is kept and ActivateBestChain runs.
IgnoreBlock(t, b) ==
    /\ CanCall(t) /\ AcceptsHeader(b)
    /\ \E fRequested \in BOOLEAN : IgnoresBlock(b, fRequested)
    /\ validity' = WithHeader(b)
    /\ EnterActivateBestChain(t)
    /\ UNCHANGED <<failedValid, failedChild, linked, seqVars, preciousVars, setBlockIndexCandidates,
                   mapBlocksUnlinked, m_failed_blocks, tip, node>>

\* CheckBlock or ContextualCheckBlock fails: the block is marked, m_failed_blocks is not told.
RejectBlock(t, b) ==
    /\ CanCall(t) /\ AcceptsHeader(b)
    /\ \E fRequested \in BOOLEAN : ~IgnoresBlock(b, fRequested)
    /\ b \in BadBlock
    /\ validity' = WithHeader(b)
    /\ failedValid' = failedValid \cup {b}
    /\ UNCHANGED <<failedChild, linked, seqVars, preciousVars, setBlockIndexCandidates,
                   mapBlocksUnlinked, m_failed_blocks, tip, pindexMostWork, node>>

\* SaveBlockToDisk fails: AbortNode asks for a shutdown, only the header stays.
FailToStoreBlock(t, b) ==
    /\ CanCall(t) /\ AcceptsHeader(b)
    /\ \E fRequested \in BOOLEAN : ~IgnoresBlock(b, fRequested)
    /\ b \notin BadBlock
    /\ validity' = WithHeader(b)
    /\ node' = "shutdown"
    /\ UNCHANGED <<failedValid, failedChild, linked, seqVars, preciousVars, setBlockIndexCandidates,
                   mapBlocksUnlinked, m_failed_blocks, tip, pindexMostWork>>

-----------------------------------------------------------------------------
(* Choosing and activating a chain. *)

\* The blocks of b's chain that are not in the active chain.
OffChain(b) == Anc[b] \ Anc[tip]

\* The candidates FindMostWorkChain passes over: it walks down to the active chain.
Unusable == {c \in setBlockIndexCandidates : OffChain(c) \cap Failed # {}}
Usable == setBlockIndexCandidates \ Unusable

\* From candidate c down to the failed block the walk from c meets first.
FailedSegment(c) == {x \in OffChain(c) : OffChain(c) \cap Failed \subseteq Anc[x]}

\* A variant that starts from the other end of the ordered set.
LeastWorkChain == IF Usable = {} THEN {Null}
                  ELSE {r \in Usable : \A c \in Usable : ~Worse(nSequenceId, c, r)}

\* FindMostWorkChain returns one of these: the best usable candidate.
MostWorkChain == IF Usable = {} THEN {Null}
                 ELSE {r \in Usable : \A c \in Usable : ~Worse(nSequenceId, r, c)}

\* What it erases from setBlockIndexCandidates on the way to r: the failed part of every better
\* candidate.  The blocks among them that are not marked yet get BLOCK_FAILED_CHILD.
ErasedBefore(r) == UNION {FailedSegment(c) : c \in {c \in Unusable : r = Null \/ Worse(nSequenceId, r, c)}}

\* The pindexMostWork a step of thread t works with, and what finding it erased.
StepTargets(t) == IF pindexMostWork[t] = Null THEN MostWorkChain ELSE {pindexMostWork[t]}
Erased(t, m) == IF pindexMostWork[t] = Null THEN ErasedBefore(m) ELSE {}

\* A variant that keeps what a failed ConnectBlock did to the view, and goes on to its children.
ConnectableUnchecked(m) ==
    {x \in OffChain(m) : \A y \in (Anc[x] \cap OffChain(m)) \ {x} :
                            y \notin BadConnect /\ nChainWork[y] <= nChainWork[tip]}

\* The blocks ActivateBestChainStep can connect towards m: from the fork up, until a block fails
\* or the work exceeds that of the old tip.
Connectable(m) ==
    {x \in OffChain(m) : /\ Anc[x] \cap OffChain(m) \cap BadConnect = {}
                         /\ \A y \in (Anc[x] \cap OffChain(m)) \ {x} : nChainWork[y] <= nChainWork[tip]}

\* A variant in which ConnectTip does not call InvalidBlockFound.
FailedConnectForgotten(m) == {}

\* The block that fails to connect after those, if any.
FailedConnect(m) ==
    {x \in OffChain(m) \cap BadConnect :
        /\ pprev[x] \in Connectable(m) \cup Anc[tip]
        /\ pprev[x] \in Anc[tip] \/ nChainWork[pprev[x]] <= nChainWork[tip]}

\* Nothing to do: ActivateBestChain returns.
ActivateNothing(t) ==
    /\ node # "aborted" /\ pindexMostWork[t] # Idle
    /\ \E m \in StepTargets(t) :
         /\ m \in {Null, tip}
         /\ setBlockIndexCandidates' = setBlockIndexCandidates \ Erased(t, m)
         /\ failedChild' = failedChild \cup (Erased(t, m) \ Failed)
    /\ pindexMostWork' = [pindexMostWork EXCEPT ![t] = Idle]
    /\ UNCHANGED <<validity, failedValid, linked, seqVars, preciousVars, mapBlocksUnlinked,
                   m_failed_blocks, tip, node>>

\* One iteration of ActivateBestChain that moves the tip: ActivateBestChainStep with the
\* DisconnectTip, ConnectTip, PruneBlockIndexCandidates and InvalidBlockFound calls it makes.
ActivateBestChainStep(t) ==
    /\ node # "aborted" /\ pindexMostWork[t] # Idle
    /\ \E m \in StepTargets(t) :
         /\ m \notin {Null, tip}
         /\ LET erased == Erased(t, m)
                up == Connectable(m)
                bad == FailedConnect(m)
                left == setBlockIndexCandidates \ erased
                marks == Failed \cup erased
            IN \E x \in up \cup (Anc[m] \cap Anc[tip]) :
                 /\ up \cup (Anc[m] \cap Anc[tip]) \subseteq Anc[x]
                 /\ tip' = x
                 /\ validity' = [b \in Blocks |->
                       IF b \in (up \cup (bad \cap BadConversion)) \ marks THEN BLOCK_VALID_SCRIPTS
                                                                         ELSE validity[b]]
                 /\ LET kept == IF up = {} THEN left ELSE Pruned(nSequenceId, left, x)
                    IN  /\ setBlockIndexCandidates' = kept \ bad
                        /\ node' = IF kept = {} THEN "aborted" ELSE node
                 /\ failedChild' = failedChild \cup (erased \ Failed)
                 /\ failedValid' = failedValid \cup bad
                 /\ m_failed_blocks' = m_failed_blocks \cup bad
                 /\ pindexMostWork' = [pindexMostWork EXCEPT ![t] =
                       IF node = "shutdown" \/ (bad = {} /\ x = m) THEN Idle
                       ELSE IF bad # {} THEN Null ELSE m]
    /\ UNCHANGED <<linked, seqVars, preciousVars, mapBlocksUnlinked>>

\* DisconnectTip or ConnectTip fails for another reason than an invalid block: the step stops with
\* the tip anywhere on its way and ActivateBestChain returns false.  AbortNode asks for a shutdown
\* unless it was DisconnectBlock that failed.  The block being connected may already be raised.
FailActivateBestChainStep(t) ==
    /\ node # "aborted" /\ pindexMostWork[t] # Idle
    /\ \E m \in StepTargets(t) :
         /\ m \notin {Null, tip}
         /\ LET erased == Erased(t, m)
                up == Connectable(m)
                left == setBlockIndexCandidates \ erased
                disconnecting == Anc[tip] \ Anc[m]
            IN \E x \in disconnecting \cup {pprev[y] : y \in up \cup FailedConnect(m)} :
                 LET done == up \cap Anc[x]
                     kept == IF done = {} THEN left ELSE Pruned(nSequenceId, left, x)
                 IN  /\ tip' = x
                     /\ \E raised \in {done, done \cup {y \in up : pprev[y] = x}} :
                          validity' = [b \in Blocks |->
                             IF b \in raised \ (Failed \cup erased) THEN BLOCK_VALID_SCRIPTS ELSE validity[b]]
                     /\ setBlockIndexCandidates' = kept
                     /\ node' \in IF kept = {} THEN {"aborted"}
                                  ELSE IF x \in disconnecting THEN {node, "shutdown"} ELSE {"shutdown"}
         /\ failedChild' = failedChild \cup (Erased(t, m) \ Failed)
    /\ pindexMostWork' = [pindexMostWork EXCEPT ![t] = Idle]
    /\ UNCHANGED <<failedValid, linked, seqVars, preciousVars, mapBlocksUnlinked, m_failed_blocks>>

\* ActivateBestChain called on its own: getblocks and getdata handling, init.
ActivateBestChain(t) ==
    /\ CanCall(t)
    /\ EnterActivateBestChain(t)
    /\ UNCHANGED <<indexVars, seqVars, preciousVars, setBlockIndexCandidates, mapBlocksUnlinked,
                   m_failed_blocks, tip, node>>

\* StartShutdown: the stop RPC, a signal, -stopatheight.
StartShutdown ==
    /\ node = "running" /\ node' = "shutdown"
    /\ UNCHANGED <<indexVars, seqVars, preciousVars, setBlockIndexCandidates, mapBlocksUnlinked,
                   m_failed_blocks, tip, pindexMostWork>>

-----------------------------------------------------------------------------
(* The RPCs by which an operator overrides the choice. *)

\* A variant without the test against the least int32_t.
NextReverseIdUnbounded(id) == id - 1

\* "We can't keep reducing the counter if somebody really wants to call preciousblock 2**31-1 times"
NextReverseId(id) == IF id > -ReverseSequenceIds THEN id - 1 ELSE id

PreciousBlock(t, b) ==
    /\ CanCall(t) /\ b \in mapBlockIndex
    /\ IF nChainWork[b] < nChainWork[tip]
         THEN UNCHANGED <<nSequenceId, preciousVars, setBlockIndexCandidates, pindexMostWork, node>>
         ELSE LET id == IF nChainWork[tip] > nLastPreciousChainwork THEN -1 ELSE nBlockReverseSequenceId
                  seq == [nSequenceId EXCEPT ![b] = id]
                  eligible == IsValid(b, BLOCK_VALID_TRANSACTIONS) /\ b \in linked
                  kept == IF eligible
                            THEN Pruned(seq, setBlockIndexCandidates \cup {b}, tip)
                            ELSE setBlockIndexCandidates \ {b}
              IN  /\ nSequenceId' = seq
                  /\ nLastPreciousChainwork' = nChainWork[tip]
                  /\ nBlockReverseSequenceId' = NextReverseId(id)
                  /\ setBlockIndexCandidates' = kept
                  /\ node' = IF eligible /\ kept = {} THEN "aborted" ELSE node
                  /\ EnterActivateBestChain(t)
    /\ UNCHANGED <<indexVars, nBlockSequenceId, mapBlocksUnlinked, m_failed_blocks, tip>>

\* invalidateblock: disconnect down to the parent of b, mark, restore the candidates.
InvalidateBlock(t, b) ==
    /\ CanCall(t) /\ b \in mapBlockIndex \ {Genesis}
    /\ LET active == b \in Anc[tip]
           x == IF active THEN pprev[b] ELSE tip
           children == IF active THEN Anc[tip] \ Anc[b] ELSE {}
           failed == Failed \cup children \cup {b}
       IN  /\ tip' = x
           /\ failedChild' = failedChild \cup children
           /\ failedValid' = failedValid \cup {b}
           /\ m_failed_blocks' = m_failed_blocks \cup {b}
           /\ setBlockIndexCandidates' =
                (setBlockIndexCandidates \ (children \cup {b}))
                  \cup {c \in linked \ failed : HaveData(c) /\ ~Worse(nSequenceId, c, x)}
    /\ EnterActivateBestChain(t)
    /\ UNCHANGED <<validity, linked, seqVars, preciousVars, mapBlocksUnlinked, node>>

\* DisconnectTip fails part of the way and nothing is marked.  When it was DisconnectBlock that
\* failed (it always does on Genesis, which has no undo data) the state reports no error, so the
\* RPC goes on to ActivateBestChain; otherwise AbortNode asks for a shutdown.
FailInvalidateBlock(t, b) ==
    /\ CanCall(t) /\ b \in Anc[tip]
    /\ tip' \in {x \in Anc[tip] : b \in Anc[x]}
    /\ \/ UNCHANGED node /\ EnterActivateBestChain(t)
       \/ node' = "shutdown" /\ UNCHANGED pindexMostWork
    /\ UNCHANGED <<indexVars, seqVars, preciousVars, setBlockIndexCandidates, mapBlocksUnlinked,
                   m_failed_blocks>>

\* ResetBlockFailureFlags for every block of the set R, of which none descends from another.
ResetBlockFailureFlags(R) ==
    LET below == {d \in mapBlockIndex : Anc[d] \cap R # {} /\ ~IsValid(d, BLOCK_VALID_TRANSACTIONS)}
        above == UNION {Anc[r] : r \in R}
    IN  /\ failedValid' = failedValid \ (below \cup above)
        /\ failedChild' = failedChild \ (below \cup above)
        /\ m_failed_blocks' = m_failed_blocks \ below
        /\ setBlockIndexCandidates' = setBlockIndexCandidates \cup
               {d \in below \cap linked : HaveData(d) /\ Worse(nSequenceId, tip, d)}

ReconsiderBlock(t, b) ==
    /\ CanCall(t) /\ b \in mapBlockIndex
    /\ ResetBlockFailureFlags({b})
    /\ EnterActivateBestChain(t)
    /\ UNCHANGED <<validity, linked, seqVars, preciousVars, mapBlocksUnlinked, tip, node>>

Related(a, b) == a \in Anc[b] \/ b \in Anc[a]

\* reconsiderallblocks resets the failed blocks in the order of the hash table; a block whose flags
\* an earlier reset cleared is passed over.  R is the set of blocks for which the reset ran.
ReconsiderAllBlocks(t) ==
    /\ CanCall(t)
    /\ \E R \in SUBSET Failed :
         /\ \A a, b \in R : Related(a, b) => a = b
         /\ \A f \in Failed : \E r \in R : Related(f, r)
         /\ ResetBlockFailureFlags(R)
    /\ EnterActivateBestChain(t)
    /\ UNCHANGED <<validity, linked, seqVars, preciousVars, mapBlocksUnlinked, tip, node>>

-----------------------------------------------------------------------------
ReceiveNext(t, b) ==
    \/ AcceptBlockHeader(t, b) \/ RejectBlockHeader(t, b)
    \/ StoreBlock(t, b) \/ IgnoreBlock(t, b) \/ RejectBlock(t, b)

ActivateNext(t) == ActivateNothing(t) \/ ActivateBestChainStep(t)

OperatorNext(t) ==
    \/ "preciousblock" \in Calls /\ \E b \in Blocks : PreciousBlock(t, b)
    \/ "invalidateblock" \in Calls /\ \E b \in Blocks : InvalidateBlock(t, b)
    \/ "reconsiderblock" \in Calls /\ \E b \in Blocks : ReconsiderBlock(t, b)
    \/ "reconsiderallblocks" \in Calls /\ ReconsiderAllBlocks(t)
    \/ "stop" \in Calls /\ StartShutdown

FailureNext(t) ==
    /\ "errors" \in Calls
    /\ \/ FailActivateBestChainStep(t)
       \/ \E b \in Blocks : FailToStoreBlock(t, b)
       \/ "invalidateblock" \in Calls /\ \E b \in Blocks : FailInvalidateBlock(t, b)

Next ==
    \E t \in Threads :
        \/ ActivateBestChain(t) \/ ActivateNext(t) \/ OperatorNext(t) \/ FailureNext(t)
        \/ \E b \in Blocks : ReceiveNext(t, b)

Spec == Init /\ [][Next]_vars

\* A thread inside ActivateBestChain holds no lock another waits for, so it keeps going.
LiveSpec == Spec /\ \A t \in Threads : WF_vars(ActivateNext(t))

-----------------------------------------------------------------------------
TypeOK ==
    /\ validity \in [Blocks -> {BLOCK_VALID_UNKNOWN, BLOCK_VALID_TREE, BLOCK_VALID_TRANSACTIONS,
                                BLOCK_VALID_SCRIPTS}]
    /\ failedValid \subseteq Blocks /\ failedChild \subseteq Blocks /\ linked \subseteq Blocks
    /\ nSequenceId \in [Blocks -> Int] /\ nBlockSequenceId \in Int
    /\ nBlockReverseSequenceId \in -ReverseSequenceIds .. -1 /\ nLastPreciousChainwork \in Nat
    /\ setBlockIndexCandidates \subseteq Blocks
    /\ mapBlocksUnlinked \in [Blocks -> Nat]
    /\ m_failed_blocks \subseteq Blocks
    /\ tip \in Blocks
    /\ pindexMostWork \in [Threads -> Blocks \cup {Idle, Null}]
    /\ node \in {"running", "shutdown", "aborted"}

\* No block that fails ConnectBlock is ever in the active chain, whatever the interleaving of
\* activation steps, RPCs and errors.
ConnectedAreValid == Anc[tip] \cap BadConnect = {}

\* nChainTx is set only when all ancestors have their data, and every candidate and every cached
\* pindexMostWork is such a block: ActivateBestChainStep never meets a block it cannot read.  The
\* blocks that wait in mapBlocksUnlinked have their data and are not linked.
LinkedChain ==
    /\ \A b \in linked : HaveData(b) /\ Anc[b] \subseteq linked
    /\ setBlockIndexCandidates \subseteq linked
    /\ tip \in linked
    /\ \A t \in Threads : pindexMostWork[t] \in linked \cup {Idle, Null}
    /\ \A b \in Blocks : mapBlocksUnlinked[b] # 0 => HaveData(b) /\ b \notin linked

-----------------------------------------------------------------------------
\* b could be activated: it and all its ancestors have their data and none of them is failed.
Eligible(b) == b \in linked /\ Anc[b] \cap Failed = {}

\* "The result is either failure or an activated best chain": when ActivateBestChain returns
\* true and no other call of it is under way, no eligible chain is better than the active one.
BestChainActivated ==
    [][(\E t \in Threads : ActivateNext(t)) /\ node' = "running" /\ (\A t \in Threads : pindexMostWork'[t] = Idle)
         => \A b \in linked : Eligible(b)' => ~Worse(nSequenceId, tip', b)]_vars

\* The active chain never holds a block that is marked failed: ConnectTip does not look at the
\* flags, it relies on FindMostWorkChain having looked and on InvalidateBlock disconnecting first.
ActiveNotFailed == Anc[tip] \cap Failed = {}

\* No assert of the modelled functions fails.
NoAssertFails == node # "aborted"

\* Both: what FindMostWorkChain chose is still right when ActivateBestChainStep connects it and
\* PruneBlockIndexCandidates looks for it among the candidates.
ActiveChainSound == ActiveNotFailed /\ NoAssertFails

\* The asserts of CheckBlockIndex on setBlockIndexCandidates: it holds the tip and every linked
\* block at least as good as the tip that has no invalid ancestor, and no block that is worse.
CandidatesConsistent ==
    \A b \in mapBlockIndex :
        IF b \in linked /\ ~Worse(nSequenceId, b, tip)
          THEN Anc[b] \cap failedValid = {} => b \in setBlockIndexCandidates
          ELSE b \notin setBlockIndexCandidates

\* They hold whenever no thread is in the middle of ActivateBestChain.
CandidatesChecked == (\A t \in Threads : pindexMostWork[t] = Idle) => CandidatesConsistent

\* They hold where AcceptBlockHeader calls CheckBlockIndex, which it does whatever other threads do.
CandidatesCheckedOnHeader ==
    [][\A b \in mapBlockIndex' \ mapBlockIndex : CandidatesConsistent']_vars

\* "The failed mask cannot be set for blocks without invalid parents" (CheckBlockIndex).
FailedHaveCause == \A b \in Failed : Anc[b] \cap failedValid # {}

\* "If this block has block data available, some parent was never received, and has no invalid
\* parents, it must be in mapBlocksUnlinked" (CheckBlockIndex): or it would never be linked.
UnlinkedChecked ==
    \A b \in Blocks :
        HaveData(b) /\ b \notin linked /\ Anc[b] \cap failedValid = {} => mapBlocksUnlinked[b] # 0

\* "SCRIPTS valid implies all parents are SCRIPTS valid" (CheckBlockIndex; Genesis is exempt there).
ScriptsValidChain ==
    \A b \in Blocks : validity[b] = BLOCK_VALID_SCRIPTS =>
        \A a \in Anc[b] \ {Genesis} : validity[a] = BLOCK_VALID_SCRIPTS

\* All of these, which CheckBlockIndex would assert if it were switched on.
CheckBlockIndex == CandidatesChecked /\ FailedHaveCause /\ UnlinkedChecked /\ ScriptsValidChain

\* AcceptBlockHeader is to "determine if it descends from any block which has been found invalid".
\* A header enters mapBlockIndex only when its parent is not marked and no ancestor has been marked
\* by ConnectBlock, however far below it is.  An ancestor that AcceptBlock refused is found when it
\* is the parent only: m_failed_blocks does not have it.
NewHeadersNotOnInvalid ==
    [][\A b \in mapBlockIndex' \ mapBlockIndex :
           Anc[b] \cap failedValid \subseteq BadBlock \ {pprev[b]}]_vars

\* The words taken literally: no ancestor is marked BLOCK_FAILED_VALID at all.
NewHeadersUnmarked ==
    [][\A b \in mapBlockIndex' \ mapBlockIndex : Anc[b] \cap failedValid = {}]_vars

\* Every activation comes to an end.
ActivationEnds == \A t \in Threads : pindexMostWork[t] # Idle ~> pindexMostWork[t] = Idle

==============================================================================
