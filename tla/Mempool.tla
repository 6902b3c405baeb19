------------------------------- MODULE Mempool -------------------------------
(***************************************************************************)
(* The pool of transactions that wait for a block (txmempool.cpp), and how *)
(* validation.cpp keeps it in step with the active chain.  A transaction   *)
(* may spend outputs of the chain only, as the amounts of one in the pool  *)
(* are final when it is mined; so a transaction gets a parent in the pool  *)
(* in one way, when the block of the parent is disconnected.               *)
(*                                                                         *)
(* A change of the chain holds cs_main throughout, but the lock of the     *)
(* pool only for each call of it; PrioritiseTransaction, which LoadMempool *)
(* calls without cs_main, may run between any two of them.                 *)
(*                                                                         *)
(* All transactions have the same size.  The limits on chains of pool      *)
(* transactions are left out, as one that is accepted has no parents in    *)
(* the pool; so are the rolling minimum fee and the fee estimator, which   *)
(* may refuse a transaction, as the model may at any time, but never one   *)
(* from a disconnected block.  Registrations of nicknames have no inputs   *)
(* and no relatives, and are not modelled.                                 *)
(***************************************************************************)
EXTENDS Integers, SequencesExt, FiniteSetsExt

CONSTANTS Txs, Coinbases,
          Vin,           \* the outputs a transaction spends: pairs of a transaction and a number
          Fee, LockHeight,
          Standard,      \* the transactions that a pool takes, and not only a block
          Replaceable,   \* those that signal that they may be replaced
          Blocks, Genesis, Parent, Vtx,
          COINBASE_MATURITY, IncrementalRelayFee,
          MaxMempool, MaxDisconnected, \* limits on memory, as numbers of transactions
          Prioritised, FeeDelta

VARIABLES pool,  \* mapTx with mapLinks, mapNextTx and mapDeltas
          tip,
          step   \* the change of the chain that is going on

vars == <<pool, tip, step>>

-----------------------------------------------------------------------------
(* The chain and its coins.                                                *)

Upto == LET up[b \in Blocks] == IF b = Genesis THEN {b} ELSE {b} \cup up[Parent[b]] IN up

Height == [b \in Blocks |-> Cardinality(Upto[b]) - 1]

\* The transactions of a chain, and the height of each.
Mined == [b \in Blocks |-> UNION {Range(Vtx[a]) : a \in Upto[b]}]

MinedAt == [b \in Blocks |-> [t \in Mined[b] |->
    Height[CHOOSE a \in Upto[b] : Contains(Vtx[a], t)]]]

HaveCoin(b, out) == out[1] \in Mined[b] /\ \A t \in Mined[b] : ~Contains(Vin[t], out)

Mature(b, out) == out[1] \in Coinbases =>
    Height[b] + 1 - MinedAt[b][out[1]] >= COINBASE_MATURITY

CheckFinalTx(b, t) == LockHeight[t] < Height[b] + 1

-----------------------------------------------------------------------------
(* Entries and their relatives.                                            *)

InPool(P) == DOMAIN P.mapTx

GetModifiedFee(P, t) == Fee[t] + P.mapTx[t].feeDelta

Fees(P, S) == MapThenSumSet(LAMBDA t : GetModifiedFee(P, t), S)

\* The transactions in S and all that links lead to from there.
Reach(links, S) ==
    LET n == Cardinality(DOMAIN links)
        r[i \in 0..n] == IF i = 0 THEN S ELSE r[i - 1] \cup UNION {links[t] : t \in r[i - 1]}
    IN  r[n]

CalculateDescendants(P, S) == Reach([t \in InPool(P) |-> P.mapTx[t].children], S)

CalculateMemPoolAncestors(P, parents) == Reach([t \in InPool(P) |-> P.mapTx[t].parents], parents)

\* The parents by the inputs (fSearchForParents).
SearchParents(P, t) == {Vin[t][i][1] : i \in DOMAIN Vin[t]} \cap InPool(P)

-----------------------------------------------------------------------------
(* Adding and removing entries.                                            *)

\* addUnchecked, with what PrioritiseTransaction has set before.
AddUnchecked(P, t) ==
    LET delta == P.mapDeltas[t]
        parents == SearchParents(P, t)
        anc == CalculateMemPoolAncestors(P, parents)
        fee == Fee[t] + delta
        new == [feeDelta |-> delta, parents |-> parents, children |-> {},
                nCountWithAncestors |-> 1 + Cardinality(anc),
                nModFeesWithAncestors |-> fee + Fees(P, anc),
                nCountWithDescendants |-> 1, nModFeesWithDescendants |-> fee]
        With(u) == [P.mapTx[u] EXCEPT
                !.children = IF u \in parents THEN @ \cup {t} ELSE @,
                !.nCountWithDescendants = IF u \in anc THEN @ + 1 ELSE @,
                !.nModFeesWithDescendants = IF u \in anc THEN @ + fee ELSE @]
    IN  [P EXCEPT !.mapTx = [u \in InPool(P) \cup {t} |-> IF u = t THEN new ELSE With(u)],
                  !.mapNextTx = [out \in DOMAIN @ \cup Range(Vin[t]) |->
                        IF out \in DOMAIN @ THEN @[out] ELSE t]]

\* UpdateForRemoveFromMempool.  Ancestors are those of mapLinks, which need not be all in the
\* middle of a reorganisation.
UpdateForRemoveFromMempool(P, stage, updateDescendants) ==
    LET above(t) == {r \in stage \ {t} : updateDescendants /\ t \in CalculateDescendants(P, {r})}
        below(t) == {r \in stage : t \in CalculateMemPoolAncestors(P, P.mapTx[r].parents)}
    IN  [P EXCEPT !.mapTx = [t \in InPool(P) |-> [P.mapTx[t] EXCEPT
            !.parents = @ \ stage, !.children = @ \ stage,
            !.nCountWithAncestors = @ - Cardinality(above(t)),
            !.nModFeesWithAncestors = @ - Fees(P, above(t)),
            !.nCountWithDescendants = @ - Cardinality(below(t)),
            !.nModFeesWithDescendants = @ - Fees(P, below(t))]]]

RemoveUnchecked(P, stage) ==
    [P EXCEPT !.mapTx = Restrict(@, InPool(P) \ stage),
              !.mapNextTx = Restrict(@, DOMAIN @ \ UNION {Range(Vin[t]) : t \in stage})]

RemoveStaged(P, stage, updateDescendants) ==
    RemoveUnchecked(UpdateForRemoveFromMempool(P, stage, updateDescendants), stage)

\* The transactions in the pool that spend an output of t.
Spenders(P, t) == {P.mapNextTx[out] : out \in {o \in DOMAIN P.mapNextTx : o[1] = t}}

\* removeRecursive.  The first is a variant that does nothing when t itself is not in the pool.
RemoveRecursiveIfThere(P, t) ==
    RemoveStaged(P, CalculateDescendants(P, {t} \cap InPool(P)), FALSE)

RemoveRecursive(P, t) ==
    RemoveStaged(P, CalculateDescendants(P, IF t \in InPool(P) THEN {t} ELSE Spenders(P, t)), FALSE)

ClearPrioritisation(P, t) == [P EXCEPT !.mapDeltas[t] = 0]

RemoveConflicts(P, t) ==
    LET Conflict(Q, out) == IF out \in DOMAIN Q.mapNextTx /\ Q.mapNextTx[out] # t
                              THEN RemoveRecursive(ClearPrioritisation(Q, Q.mapNextTx[out]),
                                                   Q.mapNextTx[out])
                              ELSE Q
    IN  FoldLeft(Conflict, P, Vin[t])

\* The children of a transaction that is mined stay, without it in their totals.
MinedFromPool(P, t) == RemoveStaged(P, {t} \cap InPool(P), TRUE)

RemoveForBlock(P, b) ==
    LET One(Q, t) == ClearPrioritisation(RemoveConflicts(MinedFromPool(Q, t), t), t)
    IN  FoldLeft(One, P, Vtx[b])

-----------------------------------------------------------------------------
(* Transactions of disconnected blocks that are back in the pool.          *)

\* One transaction of UpdateTransactionsFromBlock, with UpdateForDescendants.
UpdateFromBlock(P, t, included) ==
    LET children == Spenders(P, t) \ included
        Q == [P EXCEPT !.mapTx = [u \in InPool(P) |-> [@[u] EXCEPT
                !.children = IF u = t THEN @ \cup children ELSE @,
                !.parents = IF u \in children THEN @ \cup {t} ELSE @]]]
        all == CalculateDescendants(Q, {t}) \ (included \cup {t})
    IN  IF t \notin InPool(P) THEN P
        ELSE [Q EXCEPT !.mapTx = [u \in InPool(P) |-> [@[u] EXCEPT
                !.nCountWithAncestors = IF u \in all THEN @ + 1 ELSE @,
                !.nModFeesWithAncestors = IF u \in all THEN @ + GetModifiedFee(P, t) ELSE @,
                !.nCountWithDescendants = IF u = t THEN @ + Cardinality(all) ELSE @,
                !.nModFeesWithDescendants = IF u = t THEN @ + Fees(P, all) ELSE @]]]

\* The first is a variant that links nothing.
NotUpdatedFromBlock(P, hashes) == P

UpdateTransactionsFromBlock(P, hashes) ==
    FoldRight(LAMBDA t, Q : UpdateFromBlock(Q, t, Range(hashes)), hashes, P)

-----------------------------------------------------------------------------
(* The limits of the pool.                                                 *)

\* The fee and the size by which TrimToSize compares: those of the transaction, or with all its
\* descendants if that is a better rate.
Score(P, t) ==
    LET e == P.mapTx[t]
    IN  IF e.nModFeesWithDescendants > GetModifiedFee(P, t) * e.nCountWithDescendants
          THEN [fee |-> e.nModFeesWithDescendants, size |-> e.nCountWithDescendants]
          ELSE [fee |-> GetModifiedFee(P, t), size |-> 1]

Lowest(P) == {t \in InPool(P) : \A u \in InPool(P) :
    Score(P, t).fee * Score(P, u).size <= Score(P, u).fee * Score(P, t).size}

\* TrimToSize: the pools it may leave.  Which of equal scores goes depends on the times of entry.
TrimToSize(P) ==
    LET n == Cardinality(InPool(P))
        Trim(Q) == IF Cardinality(InPool(Q)) <= MaxMempool THEN {Q}
                   ELSE {RemoveStaged(Q, CalculateDescendants(Q, {t}), FALSE) : t \in Lowest(Q)}
        trimmed[i \in 0..n] == IF i = 0 THEN {P} ELSE UNION {Trim(Q) : Q \in trimmed[i - 1]}
    IN  trimmed[n]

\* Expire, when the transactions in old are too old.
Expire(P, old) == RemoveStaged(P, CalculateDescendants(P, old), FALSE)

-----------------------------------------------------------------------------
(* Transactions from peers, the wallet and the file of an earlier run.     *)

\* The transactions in the pool that spend what t spends.
Conflicts(P, t) == {P.mapNextTx[out] : out \in Range(Vin[t]) \cap DOMAIN P.mapNextTx}

\* What a replacement has to pay, and that it brings in no unconfirmed inputs.
Replaces(P, t) ==
    LET fee == Fee[t] + P.mapDeltas[t]
        old == Conflicts(P, t)
    IN  /\ old \subseteq Replaceable
        /\ \A u \in old : fee > GetModifiedFee(P, u)
        /\ fee >= Fees(P, CalculateDescendants(P, old)) + IncrementalRelayFee
        /\ SearchParents(P, t) \subseteq UNION {{Vin[u][i][1] : i \in DOMAIN Vin[u]} : u \in old}

\* Unlike in Bitcoin, the pool is not searched for inputs.
HaveInputs(b, t) == \A out \in Range(Vin[t]) : HaveCoin(b, out) /\ Mature(b, out)

\* What AcceptToMemoryPool checks.
Acceptable(P, b, t) ==
    /\ t \in Standard \ Coinbases /\ CheckFinalTx(b, t)
    /\ t \notin InPool(P)
    /\ HaveInputs(b, t)
    /\ Conflicts(P, t) \cap CalculateMemPoolAncestors(P, SearchParents(P, t)) = {}
    /\ Conflicts(P, t) # {} => Replaces(P, t)

Accepted(P, t) ==
    AddUnchecked(RemoveStaged(P, CalculateDescendants(P, Conflicts(P, t)), FALSE), t)

Idle == [phase |-> "idle", target |-> Genesis, oldTip |-> Genesis, queue |-> <<>>, hashes |-> <<>>,
         disconnected |-> FALSE, add |-> FALSE, left |-> {}]

Init ==
    /\ pool = [mapTx |-> <<>>, mapNextTx |-> <<>>, mapDeltas |-> [t \in Txs |-> 0]]
    /\ tip = Genesis
    /\ step = Idle

\* AcceptToMemoryPool, with LimitMempoolSize.
AcceptToMemoryPool(t) ==
    /\ step.phase = "idle"
    /\ Acceptable(pool, tip, t)
    /\ \E old \in SUBSET InPool(pool) :
        LET added == Accepted(pool, t)
        IN  pool' \in TrimToSize(Expire(added, old \cap InPool(added)))
    /\ UNCHANGED <<tip, step>>

\* PrioritiseTransaction: the difference and the entry of t, and those of its relatives.
PrioritisedAlone(P, t, delta) ==
    LET Q == [P EXCEPT !.mapDeltas[t] = @ + delta]
    IN  IF t \notin InPool(P) THEN Q
        ELSE [Q EXCEPT !.mapTx[t].feeDelta = Q.mapDeltas[t],
                       !.mapTx[t].nModFeesWithAncestors = @ + delta,
                       !.mapTx[t].nModFeesWithDescendants = @ + delta]

Prioritise(P, t, delta) ==
    LET Q == PrioritisedAlone(P, t, delta)
        anc == CalculateMemPoolAncestors(P, P.mapTx[t].parents)
        desc == CalculateDescendants(P, {t}) \ {t}
    IN  IF t \notin InPool(P) THEN Q
        ELSE [Q EXCEPT !.mapTx = [u \in InPool(P) |-> [@[u] EXCEPT
                !.nModFeesWithDescendants = IF u \in anc THEN @ + delta ELSE @,
                !.nModFeesWithAncestors = IF u \in desc THEN @ + delta ELSE @]]]

PrioritiseTransaction(t) ==
    /\ pool.mapDeltas[t] = 0
    /\ pool' = Prioritise(pool, t, FeeDelta)
    /\ UNCHANGED <<tip, step>>

-----------------------------------------------------------------------------
(* A change of the chain.                                                  *)

\* ActivateBestChainStep towards the block with most work, or InvalidateBlock of the block above
\* target.
ActivateBestChainStep(target) ==
    /\ step.phase = "idle" /\ target # tip
    /\ step' = [Idle EXCEPT !.phase = "chain", !.target = target, !.oldTip = tip]
    /\ UNCHANGED <<pool, tip>>

\* What follows when the tip is at b: the step ends at its target, or with more work than before.
Phase(b, disconnected) ==
    IF b # step.target /\ Height[b] <= Height[step.oldTip] THEN "chain"
    ELSE IF disconnected THEN "update" ELSE "idle"

After(s, b) ==
    IF Phase(b, s.disconnected) = "idle" THEN Idle
    ELSE [s EXCEPT !.phase = Phase(b, s.disconnected), !.add = TRUE]

\* DisconnectTip queues the transactions, last one first, and drops the oldest of the queue with
\* their descendants in the pool when it is too long.  Each of these is a call of its own under the
\* lock of the pool; they are one step here, since nothing but a fee difference can come between.
DisconnectTip ==
    LET queue == step.queue \o Reverse(Vtx[tip])
        n == IF Len(queue) > MaxDisconnected THEN Len(queue) - MaxDisconnected ELSE 0
        dropped == SubSeq(queue, 1, n)
    IN  /\ step.phase = "chain" /\ tip \notin Upto[step.target]
        /\ pool' = FoldLeft(RemoveRecursive, pool, dropped)
        /\ tip' = Parent[tip]
        /\ step' = After([step EXCEPT !.queue = SubSeq(queue, n + 1, Len(queue)),
                                      !.disconnected = TRUE,
                                      !.left = (@ \cup Range(Vtx[tip])) \ Range(dropped)], tip')

\* The block after the tip on the way to the target.
NextBlock == CHOOSE b \in Upto[step.target] : Height[b] = Height[tip] + 1

ConnectTip ==
    /\ step.phase = "chain" /\ tip \in Upto[step.target]
    /\ pool' = RemoveForBlock(pool, NextBlock)
    /\ tip' = NextBlock
    /\ step' = After([step EXCEPT !.queue =
                        SelectSeq(@, LAMBDA t : ~Contains(Vtx[NextBlock], t))], tip')

\* The next block turns out to be invalid.
InvalidFound ==
    /\ step.phase = "chain" /\ tip \in Upto[step.target]
    /\ step' = IF step.disconnected THEN [step EXCEPT !.phase = "update", !.add = TRUE] ELSE Idle
    /\ UNCHANGED <<pool, tip>>

\* DisconnectTip or ConnectTip cannot read the block.  (A flush that fails in them ends the process;
\* what the pool does until then is not modelled.)
SystemError ==
    /\ step.phase = "chain"
    /\ step' = [step EXCEPT !.phase = "update", !.add = FALSE]
    /\ UNCHANGED <<pool, tip>>

\* A transaction that comes back is added without regard to the limits (bypass_limits).  The first
\* is a variant that applies them.
ReturnedLimited(P, t) == TrimToSize(Accepted(P, t))

Returned(P, t) == {Accepted(P, t)}

\* UpdateMempoolForReorg takes the transactions from the end of the queue, and removes what
\* depends on those that cannot come back.
Readd ==
    /\ step.phase = "update" /\ step.queue # <<>>
    /\ LET t == Last(step.queue)
           back == step.add /\ Acceptable(pool, tip, t)
       IN  /\ pool' \in IF back THEN Returned(pool, t) ELSE {RemoveRecursive(pool, t)}
           /\ step' = [step EXCEPT !.queue = Front(@),
                                   !.hashes = IF back THEN Append(@, t) ELSE @]
    /\ UNCHANGED tip

Link ==
    /\ step.phase = "update" /\ step.queue = <<>>
    /\ pool' = UpdateTransactionsFromBlock(pool, step.hashes)
    /\ step' = [step EXCEPT !.phase = "prune", !.hashes = <<>>]
    /\ UNCHANGED tip

\* The transactions removeForReorg looks for.
NoLongerValid(P, b) ==
    {t \in InPool(P) : ~CheckFinalTx(b, t)} \cup
    {t \in InPool(P) :
        /\ \E out \in Range(Vin[t]) : out[1] \in Coinbases
        /\ \E out \in Range(Vin[t]) : out[1] \notin InPool(P) /\ (HaveCoin(b, out) => ~Mature(b, out))}

RemoveForReorg ==
    /\ step.phase = "prune"
    /\ pool' = RemoveStaged(pool, CalculateDescendants(pool, NoLongerValid(pool, tip)), FALSE)
    /\ step' = [step EXCEPT !.phase = "expire", !.left = {}]
    /\ UNCHANGED tip

\* LimitMempoolSize.
ExpireOld ==
    /\ step.phase = "expire"
    /\ \E old \in SUBSET InPool(pool) : pool' = Expire(pool, old)
    /\ step' = [step EXCEPT !.phase = "trim"]
    /\ UNCHANGED tip

\* The first is a variant that does not trim.
LimitSkipped ==
    /\ step.phase = "trim"
    /\ step' = Idle
    /\ UNCHANGED <<pool, tip>>

LimitMempoolSize ==
    /\ step.phase = "trim"
    /\ pool' \in TrimToSize(pool)
    /\ step' = Idle
    /\ UNCHANGED tip

Next ==
    \/ \E t \in Txs : AcceptToMemoryPool(t)
    \/ \E t \in Prioritised : PrioritiseTransaction(t)
    \/ \E b \in Blocks : ActivateBestChainStep(b)
    \/ DisconnectTip \/ ConnectTip \/ InvalidFound \/ SystemError
    \/ Readd \/ Link \/ RemoveForReorg \/ ExpireOld \/ LimitMempoolSize

Spec == Init /\ [][Next]_vars

-----------------------------------------------------------------------------
(* Properties.                                                             *)

\* mapNextTx has each input of each transaction in the pool, and no two of them spend the same
\* output: replacements, blocks and returning transactions remove what they conflict with.
NoDoubleSpend ==
    /\ DOMAIN pool.mapNextTx = UNION {Range(Vin[t]) : t \in InPool(pool)}
    /\ \A t \in InPool(pool) : \A out \in Range(Vin[t]) : pool.mapNextTx[out] = t

\* The totals with ancestors and with descendants that UpdateForRemoveFromMempool, addUnchecked,
\* UpdateForDescendants and PrioritiseTransaction adjust one by one are at any time, within a
\* reorganisation too, the sums over the relatives by mapLinks; so the assertions of
\* UpdateAncestorState and UpdateDescendantState hold.
TotalsAgree == \A t \in InPool(pool) :
    LET e == pool.mapTx[t]
        anc == CalculateMemPoolAncestors(pool, e.parents) \cup {t}
        desc == CalculateDescendants(pool, {t})
    IN  /\ e.nCountWithAncestors = Cardinality(anc) /\ e.nModFeesWithAncestors = Fees(pool, anc)
        /\ e.nCountWithDescendants = Cardinality(desc)
        /\ e.nModFeesWithDescendants = Fees(pool, desc)

\* CTxMemPool::check asserts this of mapLinks between two changes of the chain: transactions from
\* disconnected blocks, added as if they had no children, have been linked to all of them.
LinksAgree == step.phase = "idle" => \A t \in InPool(pool) :
    /\ pool.mapTx[t].parents = SearchParents(pool, t)
    /\ pool.mapTx[t].children = Spenders(pool, t)

\* Between two changes of the chain, every input of a transaction in the pool is a coin of the
\* active chain or an output of a transaction in the pool, whatever blocks were disconnected,
\* dropped from the queue, or not taken back.
InputsAvailable == step.phase = "idle" =>
    \A t \in InPool(pool) : \A out \in Range(Vin[t]) : out[1] \in InPool(pool) \/ HaveCoin(tip, out)

\* Between two changes of the chain, a transaction whose inputs are all in the chain may be part
\* of the next block: the coinbases it spends are mature and its lock time has passed.
ReadyToMine == step.phase = "idle" =>
    \A t \in InPool(pool) :
        /\ CheckFinalTx(tip, t)
        /\ \A out \in Range(Vin[t]) : HaveCoin(tip, out) => Mature(tip, out)

\* UpdateMempoolForReorg brings back every transaction of a disconnected block that the new chain
\* has not mined and that could be mined next, unless the queue was too long: nothing that is left
\* in the pool keeps it out.
DisconnectedReturn == step.phase = "prune" /\ step.add =>
    \A t \in step.left \cap Standard :
        HaveInputs(tip, t) /\ CheckFinalTx(tip, t) => t \in InPool(pool)

\* The difference that PrioritiseTransaction has set for a transaction, before it was in the pool
\* or while it is, and until it is mined, is the one its entry counts with.
DeltasAgree == \A t \in InPool(pool) : pool.mapTx[t].feeDelta = pool.mapDeltas[t]

\* All that CTxMemPool::check asserts of the maps of the pool, and that their entries count with the
\* differences set for them.
PoolChecked == NoDoubleSpend /\ TotalsAgree /\ LinksAgree /\ DeltasAgree

\* Both: after any change of the chain nothing in the pool has lost an input or is premature.
InputsReady == InputsAvailable /\ ReadyToMine

\* Between two changes of the chain the pool is within its limit, although transactions of
\* disconnected blocks are added without regard to it.
PoolBounded == step.phase = "idle" => Cardinality(InPool(pool)) <= MaxMempool
=============================================================================
