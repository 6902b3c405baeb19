-------------------------- MODULE ChainStateProofs --------------------------
(***************************************************************************)
(* Safety of ChainState for every block tree, every set of threads and     *)
(* every bound: the type invariant, that no block which fails ConnectBlock *)
(* enters the active chain, that activation only meets linked blocks, that *)
(* the active chain holds no block marked failed, that every mark has a    *)
(* cause, and that PruneBlockIndexCandidates always leaves a candidate.    *)
(*                                                                         *)
(* Zenon is the default prover; a leaf that needs SMT cites it.            *)
(***************************************************************************)
EXTENDS ChainState, FiniteSetTheorems, TLAPS

USE Zenon
USE DEF BLOCK_VALID_UNKNOWN, BLOCK_VALID_TREE, BLOCK_VALID_TRANSACTIONS, BLOCK_VALID_SCRIPTS, Idle, Null

\* The candidate FindMostWorkChain returns is a block or Null, and what it erases are blocks.
LEMMA TargetType ==
    ASSUME TypeOK, NEW t \in Threads, NEW m \in StepTargets(t), pindexMostWork[t] # Idle
    PROVE  /\ m = Null \/ m \in Blocks
           /\ pindexMostWork[t] = Null /\ m # Null => m \in setBlockIndexCandidates
           /\ pindexMostWork[t] # Null => m = pindexMostWork[t]
           /\ Erased(t, m) \subseteq Blocks
  <1>1. /\ m = Null \/ m \in Blocks
        /\ pindexMostWork[t] = Null /\ m # Null => m \in setBlockIndexCandidates
        /\ pindexMostWork[t] # Null => m = pindexMostWork[t]
    BY DEF TypeOK, StepTargets, MostWorkChain, Usable
  <1>2. \A c \in setBlockIndexCandidates : FailedSegment(c) \subseteq Blocks
    BY BlocksAssumption DEF TypeOK, FailedSegment, OffChain
  <1>3. Erased(t, m) \subseteq Blocks
    BY <1>2 DEF Erased, ErasedBefore, Unusable
  <1> QED
    BY <1>1, <1>3

\* The blocks that a step towards m connects lie on the way to m and all connect.
LEMMA ConnectableFacts ==
    ASSUME TypeOK, NEW m \in Blocks
    PROVE  /\ Connectable(m) \subseteq Anc[m] \ Anc[tip]
           /\ Connectable(m) \subseteq Blocks
           /\ FailedConnect(m) \subseteq Blocks
           /\ Anc[m] \subseteq Blocks /\ Anc[tip] \subseteq Blocks
  BY BlocksAssumption DEF TypeOK, Connectable, FailedConnect, OffChain

\* Genesis stands in for its own missing parent, so pprev stays within Blocks.
LEMMA ParentType == \A b \in Blocks : pprev[b] \in Blocks
  BY BlocksAssumption

\* What a step of ActivateBestChain towards m does, x being the new tip.
LEMMA ActivateEffect ==
    ASSUME TypeOK, NEW t \in Threads, ActivateBestChainStep(t)
    PROVE  \E m \in Blocks, x \in Blocks :
            /\ m \in setBlockIndexCandidates \/ m = pindexMostWork[t]
            /\ x \in Connectable(m) \cup (Anc[m] \cap Anc[tip])
            /\ tip' = x
            /\ \E raised \in SUBSET (Connectable(m) \cup FailedConnect(m)) :
                  validity' = [b \in Blocks |-> IF b \in raised THEN BLOCK_VALID_SCRIPTS ELSE validity[b]]
            /\ setBlockIndexCandidates' \subseteq setBlockIndexCandidates
            /\ node' \in {node, "aborted"}
            /\ failedChild' \subseteq Blocks /\ failedValid' \subseteq Blocks /\ m_failed_blocks' \subseteq Blocks
            /\ \E p \in {Idle, Null, m} : pindexMostWork' = [pindexMostWork EXCEPT ![t] = p]
            /\ UNCHANGED <<linked, seqVars, preciousVars, mapBlocksUnlinked>>
  <1>1. PICK m \in StepTargets(t) : ActivateBestChainStep(t)!2!(m)
    BY DEF ActivateBestChainStep
  <1>2. /\ m \in Blocks /\ Erased(t, m) \subseteq Blocks
        /\ m \in setBlockIndexCandidates \/ m = pindexMostWork[t]
    BY <1>1, TargetType DEF ActivateBestChainStep
  <1>3. PICK x \in Connectable(m) \cup (Anc[m] \cap Anc[tip]) :
          /\ tip' = x
          /\ \E raised \in SUBSET (Connectable(m) \cup FailedConnect(m)) :
                validity' = [b \in Blocks |-> IF b \in raised THEN BLOCK_VALID_SCRIPTS ELSE validity[b]]
          /\ setBlockIndexCandidates' \subseteq setBlockIndexCandidates
          /\ node' \in {node, "aborted"}
          /\ failedChild' = failedChild \cup (Erased(t, m) \ Failed)
          /\ failedValid' = failedValid \cup FailedConnect(m)
          /\ m_failed_blocks' = m_failed_blocks \cup FailedConnect(m)
          /\ \E p \in {Idle, Null, m} : pindexMostWork' = [pindexMostWork EXCEPT ![t] = p]
    BY <1>1 DEF Pruned
  <1>4. x \in Blocks /\ FailedConnect(m) \subseteq Blocks
    BY <1>2, <1>3, ConnectableFacts
  <1>5. failedChild' \subseteq Blocks /\ failedValid' \subseteq Blocks /\ m_failed_blocks' \subseteq Blocks
    BY <1>2, <1>3, <1>4 DEF TypeOK
  <1>6. UNCHANGED <<linked, seqVars, preciousVars, mapBlocksUnlinked>>
    BY DEF ActivateBestChainStep
  <1> QED
    BY <1>2, <1>3, <1>4, <1>5, <1>6

\* The same for a step that a system error cuts short.
LEMMA FailEffect ==
    ASSUME TypeOK, NEW t \in Threads, FailActivateBestChainStep(t)
    PROVE  \E m \in Blocks, x \in Blocks :
            /\ m \in setBlockIndexCandidates \/ m = pindexMostWork[t]
            /\ \/ x \in Anc[tip]
               \/ \E y \in Connectable(m) \cup FailedConnect(m) : x = pprev[y]
            /\ tip' = x
            /\ \E raised \in SUBSET (Connectable(m) \cup FailedConnect(m)) :
                  validity' = [b \in Blocks |-> IF b \in raised THEN BLOCK_VALID_SCRIPTS ELSE validity[b]]
            /\ setBlockIndexCandidates' \subseteq setBlockIndexCandidates
            /\ node' \in {node, "aborted", "shutdown"}
            /\ failedChild' \subseteq Blocks
            /\ pindexMostWork' = [pindexMostWork EXCEPT ![t] = Idle]
            /\ UNCHANGED <<failedValid, linked, seqVars, preciousVars, mapBlocksUnlinked, m_failed_blocks>>
  <1>1. PICK m \in StepTargets(t) : FailActivateBestChainStep(t)!2!(m)
    BY DEF FailActivateBestChainStep
  <1>2. /\ m \in Blocks /\ Erased(t, m) \subseteq Blocks
        /\ m \in setBlockIndexCandidates \/ m = pindexMostWork[t]
    BY <1>1, TargetType DEF FailActivateBestChainStep
  <1>3. PICK x \in (Anc[tip] \ Anc[m]) \cup {pprev[y] : y \in Connectable(m) \cup FailedConnect(m)} :
          /\ tip' = x
          /\ \E raised \in SUBSET (Connectable(m) \cup FailedConnect(m)) :
                validity' = [b \in Blocks |-> IF b \in raised THEN BLOCK_VALID_SCRIPTS ELSE validity[b]]
          /\ setBlockIndexCandidates' \subseteq setBlockIndexCandidates
          /\ node' \in {node, "aborted", "shutdown"}
    <2> DEFINE up == Connectable(m)
    <2>1. PICK x \in (Anc[tip] \ Anc[m]) \cup {pprev[y] : y \in up \cup FailedConnect(m)} :
            /\ tip' = x
            /\ \E raised \in {up \cap Anc[x], (up \cap Anc[x]) \cup {y \in up : pprev[y] = x}} :
                 validity' = [b \in Blocks |-> IF b \in raised \ (Failed \cup Erased(t, m))
                                                 THEN BLOCK_VALID_SCRIPTS ELSE validity[b]]
            /\ setBlockIndexCandidates' \subseteq setBlockIndexCandidates
            /\ node' \in {node, "aborted", "shutdown"}
      BY <1>1 DEF Pruned
    <2>2. PICK raised \in {up \cap Anc[x], (up \cap Anc[x]) \cup {y \in up : pprev[y] = x}} :
             validity' = [b \in Blocks |-> IF b \in raised \ (Failed \cup Erased(t, m))
                                             THEN BLOCK_VALID_SCRIPTS ELSE validity[b]]
      BY <2>1
    <2>3. raised \ (Failed \cup Erased(t, m)) \in SUBSET (Connectable(m) \cup FailedConnect(m))
      BY <2>2
    <2> QED
      BY <2>1, <2>2, <2>3
  <1>4. x \in Blocks
    <2>1. Anc[tip] \subseteq Blocks /\ Connectable(m) \cup FailedConnect(m) \subseteq Blocks
      BY <1>2, ConnectableFacts
    <2>2. CASE x \in Anc[tip] \ Anc[m]
      BY <2>1, <2>2
    <2>3. ASSUME NEW y \in Connectable(m) \cup FailedConnect(m), x = pprev[y] PROVE x \in Blocks
      BY <2>1, <2>3, ParentType
    <2> QED
      BY <1>3, <2>2, <2>3
  <1>5. /\ UNCHANGED <<failedValid, linked, seqVars, preciousVars, mapBlocksUnlinked, m_failed_blocks>>
        /\ pindexMostWork' = [pindexMostWork EXCEPT ![t] = Idle]
    BY DEF FailActivateBestChainStep
  <1>6. failedChild' \subseteq Blocks
    BY <1>1, <1>2 DEF TypeOK
  <1> QED
    BY <1>2, <1>3, <1>4, <1>5, <1>6

\* The state LoadGenesisBlock leaves is type correct.
LEMMA InitType == Init => TypeOK
  BY SMT, BlocksAssumption, BoundsAssumption DEF Init, TypeOK

\* Counts of blocks are natural numbers.
LEMMA BlockCount == ASSUME NEW S \in SUBSET Blocks PROVE Cardinality(S) \in Nat
  BY BlocksAssumption, FS_Subset, FS_CardinalityType

\* ReceivedBlockTransactions leaves the index, the sequence ids and the two sets well typed.
LEMMA ReceivedType ==
    ASSUME TypeOK, NEW b \in Blocks, ReceivedBlockTransactions(b)
    PROVE  /\ validity' \in [Blocks -> {BLOCK_VALID_UNKNOWN, BLOCK_VALID_TREE,
                                        BLOCK_VALID_TRANSACTIONS, BLOCK_VALID_SCRIPTS}]
           /\ linked' \subseteq Blocks
           /\ nSequenceId' \in [Blocks -> Int] /\ nBlockSequenceId' \in Int
           /\ setBlockIndexCandidates' \subseteq Blocks
           /\ mapBlocksUnlinked' \in [Blocks -> Nat]
  <1> DEFINE L == NewlyLinked(b)
             before(d) == {c \in L : LinkedBefore(c, d)}
             siblings == {c \in Blocks \ {Genesis} : pprev[c] = pprev[b] /\ mapBlocksUnlinked[c] # 0}
             seq == [d \in Blocks |-> IF d \in L THEN nBlockSequenceId + Cardinality(before(d))
                                                  ELSE nSequenceId[d]]
  <1>1. L \subseteq Blocks
    BY DEF NewlyLinked
  <1>2. Cardinality(L) \in Nat /\ Cardinality(siblings) \in Nat /\ \A d : Cardinality(before(d)) \in Nat
    <2> HIDE DEF L
    <2>1. \A d : before(d) \subseteq Blocks
      BY <1>1
    <2> QED
      BY <1>1, <2>1, BlockCount
  <1>3. seq \in [Blocks -> Int]
    <2> HIDE DEF L, before
    <2> QED BY SMT, <1>2 DEF TypeOK
  <1>4. nSequenceId' = seq
    BY DEF ReceivedBlockTransactions
  <1>5. /\ validity' = [validity EXCEPT ![b] = BLOCK_VALID_TRANSACTIONS]
        /\ linked' = linked \cup L
        /\ nBlockSequenceId' = nBlockSequenceId + Cardinality(L)
        /\ setBlockIndexCandidates' = setBlockIndexCandidates \cup {d \in L : ~Worse(seq, d, tip)}
    BY DEF ReceivedBlockTransactions
  <1>6. mapBlocksUnlinked' = [d \in Blocks |-> IF d \in L THEN 0
                                 ELSE IF d = b /\ Waits(b)
                                        THEN 1 + Cardinality(siblings)
                                 ELSE mapBlocksUnlinked[d]]
    BY DEF ReceivedBlockTransactions
  <1> HIDE DEF L, before, siblings, seq
  <1>7. mapBlocksUnlinked' \in [Blocks -> Nat]
    BY SMT, <1>2, <1>6 DEF TypeOK
  <1>8. setBlockIndexCandidates' \subseteq Blocks /\ linked' \subseteq Blocks
    BY <1>1, <1>5 DEF TypeOK
  <1>9. nBlockSequenceId' \in Int
    BY SMT, <1>2, <1>5 DEF TypeOK
  <1>10. validity' \in [Blocks -> {BLOCK_VALID_UNKNOWN, BLOCK_VALID_TREE,
                                  BLOCK_VALID_TRANSACTIONS, BLOCK_VALID_SCRIPTS}]
    BY <1>5 DEF TypeOK
  <1> QED
    BY <1>3, <1>4, <1>7, <1>8, <1>9, <1>10

\* Every handler of CChainState and every RPC keeps the state type correct.
LEMMA TypeStep == TypeOK /\ [Next]_vars => TypeOK'
  <1> SUFFICES ASSUME TypeOK, [Next]_vars PROVE TypeOK'
    OBVIOUS
  <1> USE BlocksAssumption, BoundsAssumption
  <1>1. CASE UNCHANGED vars
    BY <1>1 DEF vars, indexVars, seqVars, preciousVars, TypeOK
  <1>2. ASSUME NEW t \in Threads, NEW b \in Blocks, AcceptBlockHeader(t, b) PROVE TypeOK'
    BY <1>2 DEF AcceptBlockHeader, WithHeader, seqVars, preciousVars, TypeOK
  <1>3. ASSUME NEW t \in Threads, NEW b \in Blocks, RejectBlockHeader(t, b) PROVE TypeOK'
    BY <1>3 DEF RejectBlockHeader, seqVars, preciousVars, TypeOK
  <1>4. ASSUME NEW t \in Threads, NEW b \in Blocks, StoreBlock(t, b) PROVE TypeOK'
    <2>1. ReceivedBlockTransactions(b)
      BY <1>4 DEF StoreBlock
    <2> QED
      BY <1>4, <2>1, ReceivedType DEF StoreBlock, EnterActivateBestChain, preciousVars, TypeOK
  <1>5. ASSUME NEW t \in Threads, NEW b \in Blocks, IgnoreBlock(t, b) PROVE TypeOK'
    BY <1>5 DEF IgnoreBlock, WithHeader, EnterActivateBestChain, seqVars, preciousVars, TypeOK
  <1>6. ASSUME NEW t \in Threads, NEW b \in Blocks, RejectBlock(t, b) PROVE TypeOK'
    BY <1>6 DEF RejectBlock, WithHeader, seqVars, preciousVars, TypeOK
  <1>7. ASSUME NEW t \in Threads, ActivateBestChain(t) PROVE TypeOK'
    BY <1>7 DEF ActivateBestChain, EnterActivateBestChain, indexVars, seqVars, preciousVars, TypeOK
  <1>8. ASSUME NEW t \in Threads, ActivateNothing(t) PROVE TypeOK'
    BY <1>8, TargetType DEF ActivateNothing, seqVars, preciousVars, TypeOK
  <1>9. ASSUME NEW t \in Threads, ActivateBestChainStep(t) PROVE TypeOK'
    <2>1. /\ tip' \in Blocks
          /\ \E raised : validity' = [b \in Blocks |-> IF b \in raised THEN BLOCK_VALID_SCRIPTS ELSE validity[b]]
          /\ setBlockIndexCandidates' \subseteq setBlockIndexCandidates
          /\ node' \in {node, "aborted"}
          /\ failedChild' \subseteq Blocks /\ failedValid' \subseteq Blocks /\ m_failed_blocks' \subseteq Blocks
          /\ \E p \in {Idle, Null} \cup Blocks : pindexMostWork' = [pindexMostWork EXCEPT ![t] = p]
          /\ UNCHANGED <<linked, seqVars, preciousVars, mapBlocksUnlinked>>
      BY <1>9, ActivateEffect
    <2> QED
      BY SMT, <2>1 DEF seqVars, preciousVars, TypeOK
  <1>10. ASSUME NEW t \in Threads, NEW b \in Blocks, PreciousBlock(t, b) PROVE TypeOK'
    <2>1. CASE nChainWork[b] < nChainWork[tip]
      BY <1>10, <2>1 DEF PreciousBlock, indexVars, preciousVars, TypeOK
    <2>2. CASE ~(nChainWork[b] < nChainWork[tip])
      <3>1. PICK id \in {-1, nBlockReverseSequenceId} :
              /\ nSequenceId' = [nSequenceId EXCEPT ![b] = id]
              /\ nBlockReverseSequenceId' = IF id > -ReverseSequenceIds THEN id - 1 ELSE id
        BY <1>10, <2>2 DEF PreciousBlock, NextReverseId
      <3>2. id \in -ReverseSequenceIds .. -1
        BY SMT, <3>1 DEF TypeOK
      <3>3. nSequenceId' \in [Blocks -> Int] /\ nBlockReverseSequenceId' \in -ReverseSequenceIds .. -1
        BY SMT, <3>1, <3>2 DEF TypeOK
      <3>4. /\ nLastPreciousChainwork' = nChainWork[tip]
            /\ setBlockIndexCandidates' \subseteq setBlockIndexCandidates \cup {b}
        BY <1>10, <2>2 DEF PreciousBlock, Pruned
      <3>5. node' \in {"aborted", node} /\ pindexMostWork' = [pindexMostWork EXCEPT ![t] = Null]
        BY <1>10, <2>2 DEF PreciousBlock, EnterActivateBestChain
      <3> QED
        <4>1. UNCHANGED <<indexVars, nBlockSequenceId, mapBlocksUnlinked, m_failed_blocks, tip>>
          BY <1>10 DEF PreciousBlock
        <4> QED
          BY <3>3, <3>4, <3>5, <4>1 DEF indexVars, TypeOK
    <2> QED
      BY <2>1, <2>2
  <1>11. ASSUME NEW t \in Threads, NEW b \in Blocks, InvalidateBlock(t, b) PROVE TypeOK'
    BY <1>11 DEF InvalidateBlock, EnterActivateBestChain, seqVars, preciousVars, TypeOK
  <1>12. ASSUME NEW t \in Threads, NEW b \in Blocks, ReconsiderBlock(t, b) PROVE TypeOK'
    BY <1>12 DEF ReconsiderBlock, ResetBlockFailureFlags, EnterActivateBestChain, seqVars, preciousVars, TypeOK
  <1>13. ASSUME NEW t \in Threads, ReconsiderAllBlocks(t) PROVE TypeOK'
    BY <1>13 DEF ReconsiderAllBlocks, ResetBlockFailureFlags, EnterActivateBestChain, seqVars, preciousVars, TypeOK
  <1>14. ASSUME StartShutdown PROVE TypeOK'
    BY <1>14 DEF StartShutdown, indexVars, seqVars, preciousVars, TypeOK
  <1>15. ASSUME NEW t \in Threads, NEW b \in Blocks, FailToStoreBlock(t, b) PROVE TypeOK'
    BY <1>15 DEF FailToStoreBlock, WithHeader, seqVars, preciousVars, TypeOK
  <1>16. ASSUME NEW t \in Threads, NEW b \in Blocks, FailInvalidateBlock(t, b) PROVE TypeOK'
    BY <1>16 DEF FailInvalidateBlock, EnterActivateBestChain, indexVars, seqVars, preciousVars, TypeOK
  <1>17. ASSUME NEW t \in Threads, FailActivateBestChainStep(t) PROVE TypeOK'
    <2>1. /\ tip' \in Blocks
          /\ \E raised : validity' = [b \in Blocks |-> IF b \in raised THEN BLOCK_VALID_SCRIPTS ELSE validity[b]]
          /\ setBlockIndexCandidates' \subseteq setBlockIndexCandidates
          /\ node' \in {node, "aborted", "shutdown"}
          /\ failedChild' \subseteq Blocks
          /\ pindexMostWork' = [pindexMostWork EXCEPT ![t] = Idle]
          /\ UNCHANGED <<failedValid, linked, seqVars, preciousVars, mapBlocksUnlinked, m_failed_blocks>>
      BY <1>17, FailEffect
    <2> QED
      BY <2>1 DEF seqVars, preciousVars, TypeOK
  <1> QED
    BY <1>1, <1>2, <1>3, <1>4, <1>5, <1>6, <1>7, <1>8, <1>9, <1>10, <1>11, <1>12, <1>13, <1>14,
       <1>15, <1>16, <1>17
    DEF Next, ReceiveNext, ActivateNext, OperatorNext, FailureNext

\* Every reachable state of the model is type correct.
THEOREM TypeCorrect == Spec => []TypeOK
  BY InitType, TypeStep, PTL DEF Spec

-----------------------------------------------------------------------------
(* The active chain holds no block that fails ConnectBlock. *)

\* A chain that ends below the tip, or in a block the step connects, has no bad block.
LEMMA PathValid ==
    ASSUME TypeOK, ConnectedAreValid, NEW m \in Blocks, NEW x \in Anc[tip] \cup Connectable(m)
    PROVE  Anc[x] \cap BadConnect = {}
  <1>1. CASE x \in Anc[tip]
    BY <1>1, TreeAssumption DEF TypeOK, ConnectedAreValid
  <1>2. CASE x \in Connectable(m)
    <2>1. x \in Anc[m] /\ Anc[x] \cap (Anc[m] \ Anc[tip]) \cap BadConnect = {}
      BY <1>2 DEF Connectable, OffChain
    <2>2. Anc[x] \subseteq Anc[m]
      BY <2>1, TreeAssumption
    <2> QED
      BY <2>1, <2>2 DEF ConnectedAreValid
  <1> QED
    BY <1>1, <1>2

\* The chain of a block's parent is part of the block's chain.
LEMMA ParentChain == \A b \in Blocks : pprev[b] \in Anc[b] /\ Anc[pprev[b]] \subseteq Anc[b]
  BY BlocksAssumption, TreeAssumption

\* No handler brings a block that fails ConnectBlock into the active chain.
LEMMA ValidStep == TypeOK /\ ConnectedAreValid /\ [Next]_vars => ConnectedAreValid'
  <1> SUFFICES ASSUME TypeOK, ConnectedAreValid, [Next]_vars PROVE ConnectedAreValid'
    OBVIOUS
  <1>1. CASE UNCHANGED tip
    BY <1>1 DEF ConnectedAreValid
  <1>2. ASSUME NEW x \in Anc[tip], tip' = x PROVE ConnectedAreValid'
    BY <1>2, PathValid DEF ConnectedAreValid, TypeOK
  <1>3. ASSUME NEW t \in Threads, ActivateBestChainStep(t) PROVE ConnectedAreValid'
    <2>1. PICK m \in Blocks, x \in Blocks : x \in Connectable(m) \cup (Anc[m] \cap Anc[tip]) /\ tip' = x
      BY <1>3, ActivateEffect
    <2> QED
      BY <2>1, PathValid DEF ConnectedAreValid
  <1>4. ASSUME NEW t \in Threads, FailActivateBestChainStep(t) PROVE ConnectedAreValid'
    <2>1. PICK m \in Blocks, x \in Blocks :
             /\ \/ x \in Anc[tip]
                \/ \E y \in Connectable(m) \cup FailedConnect(m) : x = pprev[y]
             /\ tip' = x
      BY <1>4, FailEffect
    <2>2. ASSUME NEW y \in Connectable(m), x = pprev[y] PROVE Anc[x] \cap BadConnect = {}
      <3>1. y \in Blocks
        BY <2>2, ConnectableFacts
      <3> QED
        BY <2>2, <3>1, PathValid, ParentChain
    <2>3. ASSUME NEW y \in FailedConnect(m), x = pprev[y] PROVE Anc[x] \cap BadConnect = {}
      <3>1. pprev[y] \in Connectable(m) \cup Anc[tip]
        BY DEF FailedConnect
      <3> QED
        BY <2>3, <3>1, PathValid
    <2>4. Anc[x] \cap BadConnect = {}
      BY <2>1, <2>2, <2>3, PathValid
    <2> QED
      BY <2>1, <2>4 DEF ConnectedAreValid
  <1>5. ASSUME NEW t \in Threads, NEW b \in Blocks, InvalidateBlock(t, b) PROVE ConnectedAreValid'
    <2>1. tip' = tip \/ (b \in Anc[tip] /\ tip' = pprev[b])
      BY <1>5 DEF InvalidateBlock
    <2>2. b \in Anc[tip] => pprev[b] \in Anc[tip]
      BY ParentChain, TreeAssumption DEF TypeOK
    <2> QED
      BY <1>1, <1>2, <2>1, <2>2
  <1>6. ASSUME NEW t \in Threads, NEW b \in Blocks, FailInvalidateBlock(t, b) PROVE ConnectedAreValid'
    BY <1>2, <1>6 DEF FailInvalidateBlock
  <1>7. CASE UNCHANGED vars
    BY <1>1, <1>7 DEF vars
  <1>8. ASSUME NEW t \in Threads, NEW b \in Blocks, ReceiveNext(t, b) PROVE ConnectedAreValid'
    BY <1>1, <1>8 DEF ReceiveNext, AcceptBlockHeader, RejectBlockHeader, StoreBlock, IgnoreBlock, RejectBlock
  <1>9. ASSUME NEW t \in Threads, ActivateBestChain(t) \/ ActivateNothing(t) PROVE ConnectedAreValid'
    BY <1>1, <1>9 DEF ActivateBestChain, ActivateNothing
  <1>10. ASSUME NEW t \in Threads, OperatorNext(t) PROVE ConnectedAreValid'
    BY <1>1, <1>5, <1>10 DEF OperatorNext, PreciousBlock, ReconsiderBlock, ReconsiderAllBlocks, StartShutdown
  <1>11. ASSUME NEW t \in Threads, FailureNext(t) PROVE ConnectedAreValid'
    BY <1>1, <1>4, <1>6, <1>11 DEF FailureNext, FailToStoreBlock
  <1> QED
    BY <1>3, <1>7, <1>8, <1>9, <1>10, <1>11 DEF Next, ActivateNext

\* The chain that is only Genesis has no bad block.
LEMMA InitValid == Init => ConnectedAreValid
  BY SMT, BlocksAssumption, TreeAssumption DEF Init, ConnectedAreValid, BadConnect

\* No block that fails ConnectBlock is ever part of the active chain, for any tree, any number of
\* threads in ActivateBestChain at once, any operator calls and any disk errors.
THEOREM ActiveChainValid == Spec => []ConnectedAreValid
  <1>1. TypeOK /\ ConnectedAreValid /\ [Next]_vars => TypeOK' /\ ConnectedAreValid'
    BY TypeStep, ValidStep
  <1> QED
    BY <1>1, InitType, InitValid, PTL DEF Spec

-----------------------------------------------------------------------------
(* Activation only meets blocks whose whole chain is on disk. *)

\* The state LoadGenesisBlock leaves: Genesis is linked and is the only candidate.
LEMMA InitLinked == Init => LinkedChain
  BY SMT, BlocksAssumption, TreeAssumption DEF Init, LinkedChain, HaveData

\* ReceivedBlockTransactions links a block only when its parent is linked or linked with it, and
\* only blocks whose data are there.
LEMMA NewlyLinkedChain ==
    ASSUME TypeOK, LinkedChain, NEW b \in Blocks, NEW d \in NewlyLinked(b)
    PROVE  /\ Anc[d] \subseteq linked \cup NewlyLinked(b)
           /\ d = b \/ HaveData(d)
  <1>1. /\ pprev[b] \in linked /\ d \in Blocks /\ b \in Anc[d]
        /\ \A x \in Anc[d] \ Anc[b] : mapBlocksUnlinked[x] # 0
    BY DEF NewlyLinked
  <1>2. Anc[pprev[b]] \subseteq linked
    BY <1>1 DEF LinkedChain
  <1>3. Anc[b] \subseteq linked \cup {b}
    BY SMT, <1>1, <1>2, TreeAssumption
  <1>4. ASSUME NEW x \in Anc[d] PROVE x \in linked \cup NewlyLinked(b)
    <2>1. CASE x \in Anc[b] \ {b}
      BY <1>3, <2>1
    <2>2. CASE x = b
      BY <1>1, <2>2, TreeAssumption DEF NewlyLinked
    <2>3. CASE x \notin Anc[b]
      <3>1. x \in Blocks /\ b \in Anc[x] /\ Anc[x] \subseteq Anc[d]
        BY <1>1, <2>3, BlocksAssumption, TreeAssumption
      <3> QED
        BY <1>1, <3>1 DEF NewlyLinked
    <2> QED
      BY <2>1, <2>2, <2>3
  <1>5. d = b \/ HaveData(d)
    <2>1. CASE d \in Anc[b]
      BY <1>3, <2>1 DEF LinkedChain
    <2>2. CASE d \notin Anc[b]
      BY <1>1, <2>2, TreeAssumption DEF LinkedChain
    <2> QED
      BY <2>1, <2>2
  <1> QED
    BY <1>4, <1>5

\* Storing a block keeps LinkedChain: AcceptBlock stores only a block that has no data yet.
LEMMA StoreLinked ==
    ASSUME TypeOK, LinkedChain, NEW t \in Threads, NEW b \in Blocks, StoreBlock(t, b)
    PROVE  LinkedChain'
  <1> DEFINE L == NewlyLinked(b)
  <1>1. /\ validity' = [validity EXCEPT ![b] = BLOCK_VALID_TRANSACTIONS]
        /\ linked' = linked \cup L
        /\ setBlockIndexCandidates' \subseteq setBlockIndexCandidates \cup L
        /\ \A d \in Blocks : mapBlocksUnlinked'[d] # 0 =>
              d \notin L /\ (mapBlocksUnlinked[d] # 0 \/ (d = b /\ L = {}))
        /\ tip' = tip /\ pindexMostWork' = [pindexMostWork EXCEPT ![t] = Null]
    BY DEF StoreBlock, ReceivedBlockTransactions, NewlyLinked, Waits, EnterActivateBestChain, TypeOK
  <1>2. ~HaveData(b)
    BY DEF StoreBlock, IgnoresBlock
  <1>3. b \notin linked
    BY <1>2 DEF LinkedChain
  <1>4. HaveData(b)' /\ \A d \in Blocks : HaveData(d) => HaveData(d)'
    BY SMT, <1>1 DEF HaveData, TypeOK
  <1>5. \A d \in L : d \in Blocks /\ Anc[d] \subseteq linked \cup L /\ (d = b \/ HaveData(d))
    BY NewlyLinkedChain DEF NewlyLinked
  <1> HIDE DEF L
  <1>6. \A d \in linked' : HaveData(d)' /\ Anc[d] \subseteq linked'
    BY <1>1, <1>4, <1>5 DEF LinkedChain, TypeOK
  <1>7. \A d \in Blocks : mapBlocksUnlinked'[d] # 0 => HaveData(d)' /\ d \notin linked'
    BY <1>1, <1>3, <1>4 DEF LinkedChain
  <1>8. /\ setBlockIndexCandidates' \subseteq linked' /\ tip' \in linked'
        /\ \A s \in Threads : pindexMostWork'[s] \in linked' \cup {Idle, Null}
    BY <1>1 DEF LinkedChain, TypeOK
  <1> QED
    BY <1>6, <1>7, <1>8 DEF LinkedChain

\* A handler that takes away no data, links nothing new, and whose new tip, candidates and cached
\* pindexMostWork are linked keeps LinkedChain.
LEMMA LinkedFrame ==
    ASSUME TypeOK, LinkedChain,
           \A d \in Blocks : HaveData(d) => HaveData(d)',
           UNCHANGED <<linked, mapBlocksUnlinked>>,
           setBlockIndexCandidates' \subseteq linked, tip' \in linked,
           \A s \in Threads : pindexMostWork'[s] \in linked \cup {Idle, Null}
    PROVE  LinkedChain'
  BY DEF LinkedChain, TypeOK

\* Every handler keeps LinkedChain.
LEMMA LinkedStep == TypeOK /\ LinkedChain /\ [Next]_vars => LinkedChain'
  <1> SUFFICES ASSUME TypeOK, LinkedChain, [Next]_vars PROVE LinkedChain'
    OBVIOUS
  <1>1. Anc[tip] \subseteq linked
    BY DEF LinkedChain
  <1>2. CASE UNCHANGED vars
    BY <1>2, LinkedFrame DEF vars, indexVars, HaveData, LinkedChain
  <1>3. ASSUME NEW t \in Threads, NEW b \in Blocks,
               AcceptBlockHeader(t, b) \/ IgnoreBlock(t, b) \/ RejectBlock(t, b) \/ FailToStoreBlock(t, b)
        PROVE  LinkedChain'
    <2>1. \A d \in Blocks : HaveData(d) => HaveData(d)'
      <3>1. validity' = WithHeader(b)
        BY <1>3 DEF AcceptBlockHeader, IgnoreBlock, RejectBlock, FailToStoreBlock
      <3> QED
        BY SMT, <3>1 DEF WithHeader, HaveData, mapBlockIndex, TypeOK
    <2>2. /\ UNCHANGED <<linked, mapBlocksUnlinked, setBlockIndexCandidates, tip>>
          /\ \/ UNCHANGED pindexMostWork
             \/ pindexMostWork' = [pindexMostWork EXCEPT ![t] = Null]
      BY <1>3 DEF AcceptBlockHeader, IgnoreBlock, RejectBlock, FailToStoreBlock, EnterActivateBestChain
    <2>3. \A s \in Threads : pindexMostWork'[s] \in linked \cup {Idle, Null}
      BY <2>2 DEF LinkedChain, TypeOK
    <2> QED
      BY <2>1, <2>2, <2>3, LinkedFrame DEF LinkedChain
  <1>4. ASSUME NEW t \in Threads, NEW b \in Blocks, StoreBlock(t, b) PROVE LinkedChain'
    BY <1>4, StoreLinked
  <1>5. ASSUME NEW t \in Threads, ActivateBestChainStep(t) PROVE LinkedChain'
    <2>1. PICK m \in Blocks, x \in Blocks :
            /\ m \in setBlockIndexCandidates \/ m = pindexMostWork[t]
            /\ x \in Connectable(m) \cup (Anc[m] \cap Anc[tip])
            /\ tip' = x
            /\ \E raised : validity' = [b \in Blocks |-> IF b \in raised THEN BLOCK_VALID_SCRIPTS ELSE validity[b]]
            /\ setBlockIndexCandidates' \subseteq setBlockIndexCandidates
            /\ \E p \in {Idle, Null, m} : pindexMostWork' = [pindexMostWork EXCEPT ![t] = p]
            /\ UNCHANGED <<linked, mapBlocksUnlinked>>
      BY <1>5, ActivateEffect
    <2>2. m \in linked
      BY SMT, <2>1, BlocksAssumption DEF LinkedChain
    <2>3. x \in linked
      BY <1>1, <2>1, <2>2, ConnectableFacts DEF LinkedChain
    <2>4. \A d \in Blocks : HaveData(d) => HaveData(d)'
      BY SMT, <2>1 DEF HaveData
    <2>5. \A s \in Threads : pindexMostWork'[s] \in linked \cup {Idle, Null}
      BY SMT, <2>1, <2>2 DEF LinkedChain, TypeOK
    <2>6. setBlockIndexCandidates' \subseteq linked
      BY <2>1 DEF LinkedChain
    <2> QED
      BY <2>1, <2>3, <2>4, <2>5, <2>6, LinkedFrame
  <1>6. ASSUME NEW t \in Threads, FailActivateBestChainStep(t) PROVE LinkedChain'
    <2>1. PICK m \in Blocks, x \in Blocks :
            /\ m \in setBlockIndexCandidates \/ m = pindexMostWork[t]
            /\ \/ x \in Anc[tip]
               \/ \E y \in Connectable(m) \cup FailedConnect(m) : x = pprev[y]
            /\ tip' = x
            /\ \E raised : validity' = [b \in Blocks |-> IF b \in raised THEN BLOCK_VALID_SCRIPTS ELSE validity[b]]
            /\ setBlockIndexCandidates' \subseteq setBlockIndexCandidates
            /\ pindexMostWork' = [pindexMostWork EXCEPT ![t] = Idle]
            /\ UNCHANGED <<linked, mapBlocksUnlinked>>
      BY SMT, <1>6, FailEffect
    <2>2. m \in linked
      BY SMT, <2>1, BlocksAssumption DEF LinkedChain
    <2>3. Anc[m] \subseteq linked
      BY <2>2 DEF LinkedChain
    <2>4. ASSUME NEW y \in Connectable(m) \cup FailedConnect(m) PROVE pprev[y] \in linked
      <3>1. y \in Anc[m] /\ y \in Blocks
        BY ConnectableFacts DEF FailedConnect, OffChain
      <3> QED
        BY <2>3, <3>1, ParentChain, TreeAssumption
    <2>5. x \in linked
      BY <1>1, <2>1, <2>4
    <2>6. \A d \in Blocks : HaveData(d) => HaveData(d)'
      BY SMT, <2>1 DEF HaveData
    <2>7. \A s \in Threads : pindexMostWork'[s] \in linked \cup {Idle, Null}
      BY <2>1 DEF LinkedChain, TypeOK
    <2>8. setBlockIndexCandidates' \subseteq linked
      BY <2>1 DEF LinkedChain
    <2> QED
      BY <2>1, <2>5, <2>6, <2>7, <2>8, LinkedFrame
  <1>7. ASSUME NEW t \in Threads,
               validity' = validity, linked' = linked, mapBlocksUnlinked' = mapBlocksUnlinked,
               setBlockIndexCandidates' \subseteq setBlockIndexCandidates \cup linked,
               tip' \in Anc[tip] \cup {tip},
               \E p \in {pindexMostWork[t], Idle, Null} : pindexMostWork' = [pindexMostWork EXCEPT ![t] = p]
        PROVE  LinkedChain'
    <2>1. setBlockIndexCandidates' \subseteq linked /\ tip' \in linked
      BY <1>1, <1>7 DEF LinkedChain
    <2>2. \A s \in Threads : pindexMostWork'[s] \in linked \cup {Idle, Null}
      BY <1>7 DEF LinkedChain, TypeOK
    <2>3. \A d \in Blocks : HaveData(d) => HaveData(d)'
      BY <1>7 DEF HaveData
    <2> QED
      BY <1>7, <2>1, <2>2, <2>3, LinkedFrame
  <1>8. \A t \in Threads : UNCHANGED pindexMostWork =>
           \E p \in {pindexMostWork[t], Idle, Null} : pindexMostWork' = [pindexMostWork EXCEPT ![t] = p]
    BY DEF TypeOK
  <1>9. ASSUME NEW t \in Threads, ActivateNothing(t) \/ ActivateBestChain(t) PROVE LinkedChain'
    BY <1>7, <1>9 DEF ActivateNothing, ActivateBestChain, EnterActivateBestChain, indexVars
  <1>10. ASSUME NEW t \in Threads, NEW b \in Blocks, RejectBlockHeader(t, b) PROVE LinkedChain'
    BY <1>7, <1>8, <1>10 DEF RejectBlockHeader
  <1>11. ASSUME NEW t \in Threads, NEW b \in Blocks, PreciousBlock(t, b) PROVE LinkedChain'
    <2>1. setBlockIndexCandidates' \subseteq setBlockIndexCandidates \cup linked
      BY <1>11 DEF PreciousBlock, Pruned
    <2>2. UNCHANGED pindexMostWork \/ pindexMostWork' = [pindexMostWork EXCEPT ![t] = Null]
      BY <1>11 DEF PreciousBlock, EnterActivateBestChain
    <2>3. UNCHANGED <<validity, linked, mapBlocksUnlinked, tip>>
      BY <1>11 DEF PreciousBlock, indexVars
    <2> QED
      BY <1>7, <1>8, <2>1, <2>2, <2>3
  <1>12. ASSUME NEW t \in Threads, NEW b \in Blocks, InvalidateBlock(t, b) PROVE LinkedChain'
    <2>1. tip' = tip \/ (b \in Anc[tip] /\ tip' = pprev[b])
      BY <1>12 DEF InvalidateBlock
    <2>2. b \in Anc[tip] => pprev[b] \in Anc[tip]
      BY ParentChain, TreeAssumption DEF TypeOK
    <2>3. setBlockIndexCandidates' \subseteq setBlockIndexCandidates \cup linked
      BY <1>12 DEF InvalidateBlock
    <2>4. /\ UNCHANGED <<validity, linked, mapBlocksUnlinked>>
          /\ pindexMostWork' = [pindexMostWork EXCEPT ![t] = Null]
      BY <1>12 DEF InvalidateBlock, EnterActivateBestChain
    <2> QED
      BY <1>7, <2>1, <2>2, <2>3, <2>4
  <1>13. ASSUME NEW t \in Threads, NEW b \in Blocks, FailInvalidateBlock(t, b) PROVE LinkedChain'
    BY <1>7, <1>8, <1>13 DEF FailInvalidateBlock, EnterActivateBestChain, indexVars
  <1>14. ASSUME NEW t \in Threads, ReconsiderAllBlocks(t) \/ \E b \in Blocks : ReconsiderBlock(t, b)
         PROVE LinkedChain'
    <2>1. setBlockIndexCandidates' \subseteq setBlockIndexCandidates \cup linked
      BY <1>14 DEF ReconsiderBlock, ReconsiderAllBlocks, ResetBlockFailureFlags
    <2>2. /\ UNCHANGED <<validity, linked, mapBlocksUnlinked, tip>>
          /\ pindexMostWork' = [pindexMostWork EXCEPT ![t] = Null]
      BY <1>14 DEF ReconsiderBlock, ReconsiderAllBlocks, EnterActivateBestChain
    <2> QED
      BY <1>7, <2>1, <2>2
  <1>15. ASSUME NEW t \in Threads, StartShutdown PROVE LinkedChain'
    BY <1>7, <1>8, <1>15 DEF StartShutdown, indexVars
  <1> QED
    BY <1>2, <1>3, <1>4, <1>5, <1>6, <1>9, <1>10, <1>11, <1>12, <1>13, <1>14, <1>15
    DEF Next, ReceiveNext, ActivateNext, OperatorNext, FailureNext

\* Every candidate, every cached pindexMostWork and the tip have the data of their whole chain, and
\* what waits in mapBlocksUnlinked is not linked, whatever threads, operators and errors do:
\* ActivateBestChainStep never has to read a block that was not received.
THEOREM ActivationMeetsLinkedBlocks == Spec => []LinkedChain
  <1>1. TypeOK /\ LinkedChain /\ [Next]_vars => TypeOK' /\ LinkedChain'
    BY TypeStep, LinkedStep
  <1> QED
    BY <1>1, InitType, InitLinked, PTL DEF Spec

-----------------------------------------------------------------------------
(* The active chain holds no block that is marked failed. *)

\* Calls into validation come one at a time.
Sequential == \A t, u \in Threads : t = u

\* AcceptBlock stores no block that fails CheckBlock or ContextualCheckBlock.
DataGood == \A b \in Blocks : HaveData(b) => b \notin BadBlock

\* On the way to a cached pindexMostWork the only marked blocks are those that a block which fails
\* ConnectBlock has below it or is: the step stops before them.
TargetsStop ==
    \A t \in Threads : pindexMostWork[t] \in Blocks =>
        \A f \in Anc[pindexMostWork[t]] \cap Failed : Anc[f] \cap BadConnect # {}

\* What holds of flags and tips under every interleaving.
ActiveInv ==
    /\ TypeOK /\ ConnectedAreValid /\ LinkedChain
    /\ DataGood /\ ActiveNotFailed /\ TargetsStop

\* Of two blocks of a chain one is below the other.
LEMMA ChainOrder ==
    \A b \in Blocks : \A a, c \in Anc[b] : a \in Blocks /\ c \in Blocks /\ (a \in Anc[c] \/ c \in Anc[a])
  BY BlocksAssumption, TreeAssumption

\* The chain of an ancestor is part of the chain.
LEMMA ChainOfAncestor == \A b \in Blocks : \A a \in Anc[b] : a \in Blocks /\ Anc[a] \subseteq Anc[b]
  BY BlocksAssumption, TreeAssumption

\* What a step of t towards m that connected the blocks of up, the last of them x, leaves of the
\* candidates.
Kept(t, m, up, x) ==
    LET left == setBlockIndexCandidates \ Erased(t, m)
    IN  IF up = {} THEN left ELSE Pruned(nSequenceId, left, x)

\* Thread t takes a step of ActivateBestChain with the target m and the new tip x.
StepTo(t, m, x) ==
    /\ node # "aborted" /\ pindexMostWork[t] # Idle
    /\ m \in Blocks /\ m \in StepTargets(t) /\ m # tip /\ Erased(t, m) \subseteq Blocks
    /\ x \in Blocks /\ x \in Connectable(m) \cup (Anc[m] \cap Anc[tip]) /\ x \in Anc[m]
    /\ Connectable(m) \cup (Anc[m] \cap Anc[tip]) \subseteq Anc[x]
    /\ tip' = x
    /\ validity' = [b \in Blocks |->
          IF b \in (Connectable(m) \cup (FailedConnect(m) \cap BadConversion)) \ (Failed \cup Erased(t, m))
            THEN BLOCK_VALID_SCRIPTS ELSE validity[b]]
    /\ setBlockIndexCandidates' = Kept(t, m, Connectable(m), x) \ FailedConnect(m)
    /\ node' = IF Kept(t, m, Connectable(m), x) = {} THEN "aborted" ELSE node
    /\ failedChild' = failedChild \cup (Erased(t, m) \ Failed)
    /\ failedValid' = failedValid \cup FailedConnect(m)
    /\ m_failed_blocks' = m_failed_blocks \cup FailedConnect(m)
    /\ pindexMostWork' = [pindexMostWork EXCEPT ![t] =
           IF node = "shutdown" \/ (FailedConnect(m) = {} /\ x = m) THEN Idle
           ELSE IF FailedConnect(m) # {} THEN Null ELSE m]
    /\ UNCHANGED <<linked, seqVars, preciousVars, mapBlocksUnlinked>>

\* Every step of ActivateBestChain has a target and a new tip.
LEMMA StepExact ==
    ASSUME TypeOK, NEW t \in Threads, ActivateBestChainStep(t)
    PROVE  \E m \in Blocks, x \in Blocks : StepTo(t, m, x)
  <1>1. PICK m \in StepTargets(t) : ActivateBestChainStep(t)!2!(m)
    BY DEF ActivateBestChainStep
  <1>2. /\ m \in Blocks /\ m # tip /\ Erased(t, m) \subseteq Blocks
    BY <1>1, TargetType DEF ActivateBestChainStep
  <1>3. \A x \in Connectable(m) \cup (Anc[m] \cap Anc[tip]) : x \in Blocks /\ x \in Anc[m]
    BY <1>2, ConnectableFacts
  <1>4. /\ UNCHANGED <<linked, seqVars, preciousVars, mapBlocksUnlinked>>
        /\ node # "aborted" /\ pindexMostWork[t] # Idle
    BY DEF ActivateBestChainStep
  <1> QED
    BY <1>1, <1>2, <1>3, <1>4 DEF StepTo, Kept

\* Thread t takes a step with the target m that a system error cuts short when the tip is x.
FailStepTo(t, m, x) ==
    LET done == Connectable(m) \cap Anc[x]
    IN
    /\ node # "aborted" /\ pindexMostWork[t] # Idle
    /\ m \in Blocks /\ m \in StepTargets(t) /\ m # tip /\ Erased(t, m) \subseteq Blocks
    /\ x \in Blocks
    /\ \/ x \in Anc[tip] \ Anc[m]
       \/ \E y \in Connectable(m) \cup FailedConnect(m) : x = pprev[y]
    /\ tip' = x
    /\ \E raised \in {done, done \cup {y \in Connectable(m) : pprev[y] = x}} :
         validity' = [b \in Blocks |->
            IF b \in raised \ (Failed \cup Erased(t, m)) THEN BLOCK_VALID_SCRIPTS ELSE validity[b]]
    /\ setBlockIndexCandidates' = Kept(t, m, done, x)
    /\ node' \in IF Kept(t, m, done, x) = {} THEN {"aborted"} ELSE {node, "shutdown"}
    /\ failedChild' = failedChild \cup (Erased(t, m) \ Failed)
    /\ pindexMostWork' = [pindexMostWork EXCEPT ![t] = Idle]
    /\ UNCHANGED <<failedValid, linked, seqVars, preciousVars, mapBlocksUnlinked, m_failed_blocks>>

\* Every step that an error cuts short has a target and a tip it stops at.
LEMMA FailExact ==
    ASSUME TypeOK, NEW t \in Threads, FailActivateBestChainStep(t)
    PROVE  \E m \in Blocks, x \in Blocks : FailStepTo(t, m, x)
  <1>1. PICK m \in StepTargets(t) : FailActivateBestChainStep(t)!2!(m)
    BY DEF FailActivateBestChainStep
  <1>2. /\ m \in Blocks /\ m # tip /\ Erased(t, m) \subseteq Blocks
    BY <1>1, TargetType DEF FailActivateBestChainStep
  <1>3. \A x \in (Anc[tip] \ Anc[m]) \cup {pprev[y] : y \in Connectable(m) \cup FailedConnect(m)} :
          /\ x \in Blocks
          /\ \/ x \in Anc[tip] \ Anc[m]
             \/ \E y \in Connectable(m) \cup FailedConnect(m) : x = pprev[y]
    BY <1>2, ConnectableFacts, ParentType
  <1>4. /\ UNCHANGED <<failedValid, linked, seqVars, preciousVars, mapBlocksUnlinked, m_failed_blocks>>
        /\ node # "aborted" /\ pindexMostWork[t] # Idle
        /\ pindexMostWork' = [pindexMostWork EXCEPT ![t] = Idle]
    BY DEF FailActivateBestChainStep
  <1>5. failedChild' = failedChild \cup (Erased(t, m) \ Failed)
    BY <1>1
  <1> QED
    BY <1>1, <1>2, <1>3, <1>4, <1>5 DEF FailStepTo, Kept

\* What FindMostWorkChain erases lies above a block marked failed.
LEMMA ErasedAboveFailed ==
    ASSUME TypeOK, NEW t \in Threads, NEW m \in StepTargets(t), pindexMostWork[t] # Idle
    PROVE  \A x \in Erased(t, m) : x \in Blocks /\ Anc[x] \cap Failed # {}
  <1> SUFFICES ASSUME NEW x \in Erased(t, m) PROVE x \in Blocks /\ Anc[x] \cap Failed # {}
    OBVIOUS
  <1>1. PICK c \in Unusable : x \in FailedSegment(c)
    BY DEF Erased, ErasedBefore
  <1> QED
    BY <1>1, BlocksAssumption DEF FailedSegment, Unusable, OffChain, TypeOK

\* The chain of a target that FindMostWorkChain has just chosen has no failed block; that of one
\* cached from an earlier step has failed blocks only above one that does not connect.
LEMMA TargetStops ==
    ASSUME ActiveInv, NEW t \in Threads, NEW m \in StepTargets(t), m \in Blocks, pindexMostWork[t] # Idle
    PROVE  \A f \in Anc[m] \cap Failed : Anc[f] \cap BadConnect # {}
  <1>1. CASE pindexMostWork[t] # Null
    BY <1>1 DEF StepTargets, ActiveInv, TargetsStop
  <1>2. CASE pindexMostWork[t] = Null
    <2>1. m \in Usable
      BY SMT, <1>2, BlocksAssumption DEF StepTargets, MostWorkChain
    <2>2. (Anc[m] \ Anc[tip]) \cap Failed = {}
      BY <2>1 DEF Usable, Unusable, OffChain
    <2> QED
      BY <2>2 DEF ActiveInv, ActiveNotFailed
  <1> QED
    BY <1>1, <1>2

\* Only blocks that pass CheckBlock and ContextualCheckBlock ever have their data.
LEMMA DataGoodStep ==
    ASSUME TypeOK, LinkedChain, DataGood, [Next]_vars
    PROVE  DataGood'
  <1>1. ASSUME \A b \in Blocks : HaveData(b)' => HaveData(b) \/ b \notin BadBlock PROVE DataGood'
    BY <1>1 DEF DataGood
  <1>2. ASSUME UNCHANGED validity PROVE DataGood'
    BY <1>1, <1>2 DEF HaveData
  <1>3. ASSUME NEW b \in Blocks, validity' = WithHeader(b) PROVE DataGood'
    BY SMT, <1>1, <1>3 DEF HaveData, WithHeader, TypeOK
  <1>4. ASSUME NEW t \in Threads, NEW b \in Blocks, StoreBlock(t, b) PROVE DataGood'
    BY <1>1, <1>4 DEF StoreBlock, ReceivedBlockTransactions, HaveData, TypeOK
  <1>5. ASSUME NEW m \in Blocks, NEW raised \in SUBSET (Connectable(m) \cup FailedConnect(m)), m \in linked,
               validity' = [b \in Blocks |-> IF b \in raised THEN BLOCK_VALID_SCRIPTS ELSE validity[b]]
        PROVE  DataGood'
    <2>1. raised \subseteq Anc[m]
      BY ConnectableFacts DEF FailedConnect, OffChain
    <2>2. \A b \in raised : HaveData(b)
      BY <1>5, <2>1 DEF LinkedChain
    <2> QED
      BY <1>1, <1>5, <2>2 DEF HaveData, TypeOK
  <1>6. ASSUME NEW t \in Threads, ActivateBestChainStep(t) PROVE DataGood'
    <2>1. PICK m \in Blocks :
            /\ m \in setBlockIndexCandidates \/ m = pindexMostWork[t]
            /\ \E raised \in SUBSET (Connectable(m) \cup FailedConnect(m)) :
                  validity' = [b \in Blocks |-> IF b \in raised THEN BLOCK_VALID_SCRIPTS ELSE validity[b]]
      BY <1>6, ActivateEffect
    <2>2. m \in linked
      BY SMT, <2>1, BlocksAssumption DEF LinkedChain
    <2> QED
      BY <1>5, <2>1, <2>2
  <1>7. ASSUME NEW t \in Threads, FailActivateBestChainStep(t) PROVE DataGood'
    <2>1. PICK m \in Blocks :
            /\ m \in setBlockIndexCandidates \/ m = pindexMostWork[t]
            /\ \E raised \in SUBSET (Connectable(m) \cup FailedConnect(m)) :
                  validity' = [b \in Blocks |-> IF b \in raised THEN BLOCK_VALID_SCRIPTS ELSE validity[b]]
      BY <1>7, FailEffect
    <2>2. m \in linked
      BY SMT, <2>1, BlocksAssumption DEF LinkedChain
    <2> QED
      BY <1>5, <2>1, <2>2
  <1>8. ASSUME NEW t \in Threads, NEW b \in Blocks, ReceiveNext(t, b) PROVE DataGood'
    BY <1>2, <1>3, <1>4, <1>8 DEF ReceiveNext, AcceptBlockHeader, RejectBlockHeader, IgnoreBlock, RejectBlock
  <1>9. ASSUME NEW t \in Threads, OperatorNext(t) PROVE DataGood'
    BY <1>2, <1>9 DEF OperatorNext, PreciousBlock, InvalidateBlock, ReconsiderBlock, ReconsiderAllBlocks,
                             StartShutdown, indexVars
  <1>10. ASSUME NEW t \in Threads, FailureNext(t) PROVE DataGood'
    BY <1>2, <1>3, <1>7, <1>10 DEF FailureNext, FailToStoreBlock, FailInvalidateBlock, indexVars
  <1>11. ASSUME NEW t \in Threads, ActivateBestChain(t) \/ ActivateNothing(t) PROVE DataGood'
    BY <1>2, <1>11 DEF ActivateBestChain, ActivateNothing, indexVars
  <1>12. CASE UNCHANGED vars
    BY <1>2, <1>12 DEF vars, indexVars
  <1> QED
    BY <1>6, <1>8, <1>9, <1>10, <1>11, <1>12 DEF Next, ActivateNext

\* A handler that does not raise the tip, caches no new target, and marks only blocks that are not
\* linked or lie above a marked one, keeps marked blocks out of the active chain.
LEMMA FlagsFrame ==
    ASSUME ActiveInv,
           tip' \in Anc[tip],
           \A u \in Threads : pindexMostWork'[u] \in Blocks => pindexMostWork'[u] = pindexMostWork[u],
           \A f \in Failed' : f \in Failed \/ f \notin linked \/ Anc[f] \cap Failed # {}
    PROVE  ActiveNotFailed' /\ TargetsStop'
  <1>1. /\ tip \in Blocks /\ Anc[tip] \subseteq linked /\ Anc[tip'] \subseteq Anc[tip]
    BY ChainOfAncestor DEF ActiveInv, TypeOK, LinkedChain
  <1>2. ActiveNotFailed'
    <2>1. ASSUME NEW f \in Anc[tip], f \in Failed' PROVE FALSE
      <3>1. Anc[f] \subseteq Anc[tip]
        BY <1>1, ChainOfAncestor
      <3> QED
        BY <1>1, <2>1, <3>1 DEF ActiveInv, ActiveNotFailed
    <2> QED
      BY <1>1, <2>1 DEF ActiveNotFailed
  <1>3. TargetsStop'
    <2> SUFFICES ASSUME NEW u \in Threads, pindexMostWork'[u] \in Blocks,
                        NEW f \in Anc[pindexMostWork'[u]], f \in Failed'
                 PROVE  Anc[f] \cap BadConnect # {}
      BY DEF TargetsStop
    <2> DEFINE m == pindexMostWork[u]
    <2>1. m \in Blocks /\ m \in linked /\ f \in Anc[m]
      BY SMT, BlocksAssumption DEF ActiveInv, LinkedChain
    <2>2. f \in linked /\ f \in Blocks /\ Anc[f] \subseteq Anc[m]
      BY <2>1, ChainOfAncestor DEF ActiveInv, LinkedChain
    <2>3. CASE f \in Failed
      BY <2>1, <2>3 DEF ActiveInv, TargetsStop
    <2>4. CASE f \notin Failed
      <3>1. PICK g \in Anc[f] : g \in Failed
        BY <2>2, <2>4
      <3>2. Anc[g] \cap BadConnect # {}
        BY <2>1, <2>2, <3>1 DEF ActiveInv, TargetsStop
      <3> QED
        BY <2>2, <3>1, <3>2, ChainOfAncestor
    <2> QED
      BY <2>3, <2>4
  <1> QED
    BY <1>2, <1>3

\* A step of ActivateBestChain, cut short or not, marks what FindMostWorkChain erased and the block
\* that did not connect; its new tip is below the target or the old tip.
LEMMA FlagsActivate ==
    ASSUME ActiveInv, NEW t \in Threads, NEW m \in StepTargets(t), m \in Blocks, pindexMostWork[t] # Idle,
           \A f \in Failed' : f \in Failed \/ f \in Erased(t, m) \/ f \in FailedConnect(m),
           tip' \in Anc[m] \cup Anc[tip], ConnectedAreValid',
           \A u \in Threads : pindexMostWork'[u] \in Blocks => pindexMostWork'[u] \in {m, pindexMostWork[u]}
    PROVE  ActiveNotFailed' /\ TargetsStop'
  <1>1. ASSUME NEW c \in Blocks, \A f \in Anc[c] \cap Failed : Anc[f] \cap BadConnect # {},
               NEW f \in Anc[c], f \in Failed'
        PROVE  Anc[f] \cap BadConnect # {}
    <2>1. f \in Blocks /\ Anc[f] \subseteq Anc[c] /\ f \in Anc[f]
      BY ChainOfAncestor, TreeAssumption
    <2>2. CASE f \in Failed
      BY <1>1, <2>2
    <2>3. CASE f \in Erased(t, m)
      <3>1. PICK g \in Anc[f] : g \in Failed
        BY <2>3, ErasedAboveFailed DEF ActiveInv
      <3>2. Anc[g] \cap BadConnect # {}
        BY <1>1, <2>1, <3>1
      <3> QED
        BY <2>1, <3>1, <3>2, ChainOfAncestor
    <2>4. CASE f \in FailedConnect(m)
      BY <2>1, <2>4 DEF FailedConnect
    <2> QED
      BY <1>1, <2>2, <2>3, <2>4
  <1>2. \A f \in Anc[m] \cap Failed' : Anc[f] \cap BadConnect # {}
    BY <1>1, TargetStops
  <1>3. \A f \in Anc[tip] \cap Failed' : Anc[f] \cap BadConnect # {}
    BY <1>1 DEF ActiveInv, ActiveNotFailed, TypeOK
  <1>4. ActiveNotFailed'
    <2> SUFFICES ASSUME NEW f \in Anc[tip'], f \in Failed' PROVE FALSE
      BY DEF ActiveNotFailed
    <2>1. tip' \in Blocks /\ Anc[tip'] \subseteq Anc[m] \cup Anc[tip]
      BY ChainOfAncestor DEF ActiveInv, TypeOK
    <2>2. Anc[f] \cap BadConnect # {} /\ Anc[f] \subseteq Anc[tip']
      BY <1>2, <1>3, <2>1, ChainOfAncestor
    <2> QED
      BY <2>2 DEF ConnectedAreValid
  <1>5. TargetsStop'
    <2> SUFFICES ASSUME NEW u \in Threads, pindexMostWork'[u] \in Blocks,
                        NEW f \in Anc[pindexMostWork'[u]], f \in Failed'
                 PROVE  Anc[f] \cap BadConnect # {}
      BY DEF TargetsStop
    <2>1. CASE pindexMostWork'[u] = m
      BY <1>2, <2>1
    <2>2. CASE pindexMostWork'[u] = pindexMostWork[u]
      <3>1. pindexMostWork[u] \in Blocks /\ f \in Anc[pindexMostWork[u]]
        BY <2>2
      <3> QED
        BY <1>1, <3>1 DEF ActiveInv, TargetsStop
    <2> QED
      BY <2>1, <2>2
  <1> QED
    BY <1>4, <1>5

\* InvalidateBlock disconnects what it marks; no other thread has a target cached.
LEMMA FlagsInvalidate ==
    ASSUME ActiveInv, Sequential, NEW t \in Threads, NEW b \in Blocks, InvalidateBlock(t, b)
    PROVE  ActiveNotFailed' /\ TargetsStop'
  <1>1. pindexMostWork' = [pindexMostWork EXCEPT ![t] = Null]
    BY DEF InvalidateBlock, EnterActivateBestChain
  <1>2. TargetsStop'
    BY SMT, <1>1, BlocksAssumption DEF TargetsStop, Sequential, ActiveInv, TypeOK
  <1>3. b # Genesis
    BY DEF InvalidateBlock
  <1>4. CASE b \in Anc[tip]
    <2>1. /\ tip' = pprev[b]
          /\ failedChild' = failedChild \cup (Anc[tip] \ Anc[b])
          /\ failedValid' = failedValid \cup {b}
      BY <1>4 DEF InvalidateBlock
    <2>2. Anc[pprev[b]] \subseteq Anc[b] /\ b \notin Anc[pprev[b]] /\ Anc[b] \subseteq Anc[tip]
      BY <1>3, <1>4, ParentChain, TreeAssumption DEF ActiveInv, TypeOK
    <2> QED
      BY <1>2, <2>1, <2>2 DEF ActiveInv, ActiveNotFailed, Failed
  <1>5. CASE b \notin Anc[tip]
    BY <1>2, <1>5 DEF InvalidateBlock, ActiveInv, ActiveNotFailed, Failed
  <1> QED
    BY <1>4, <1>5

\* No handler makes a marked block part of the active chain, as long as invalidateblock does not
\* run beside another thread.
LEMMA FlagsStep ==
    ASSUME ActiveInv, "invalidateblock" \in Calls => Sequential, [Next]_vars
    PROVE  ActiveNotFailed' /\ TargetsStop'
  <1>1. TypeOK /\ tip \in Blocks /\ tip \in Anc[tip] /\ ConnectedAreValid' /\ Anc[tip] \subseteq linked
    BY ValidStep, TreeAssumption DEF ActiveInv, TypeOK, LinkedChain
  <1>2. ASSUME NEW t \in Threads, NEW p \in {Idle, Null, pindexMostWork[t]},
               pindexMostWork' = [pindexMostWork EXCEPT ![t] = p]
        PROVE  \A u \in Threads : pindexMostWork'[u] \in Blocks => pindexMostWork'[u] = pindexMostWork[u]
    BY SMT, <1>1, <1>2, BlocksAssumption DEF TypeOK
  <1>3. ASSUME tip' \in Anc[tip], Failed' \subseteq Failed,
               \/ UNCHANGED pindexMostWork
               \/ \E t \in Threads : \E p \in {Idle, Null} : pindexMostWork' = [pindexMostWork EXCEPT ![t] = p]
        PROVE  ActiveNotFailed' /\ TargetsStop'
    BY <1>2, <1>3, FlagsFrame
  <1>4. ASSUME NEW t \in Threads, NEW b \in Blocks, RejectBlockHeader(t, b) PROVE ActiveNotFailed' /\ TargetsStop'
    <2>1. /\ UNCHANGED <<failedValid, tip, pindexMostWork>>
          /\ \/ failedChild' = failedChild
             \/ \E f \in FailedAncestors(pprev[b]) :
                  f \in failedValid /\ failedChild' = failedChild \cup (Anc[pprev[b]] \ Anc[f])
      BY <1>4 DEF RejectBlockHeader
    <2>2. ASSUME NEW f \in FailedAncestors(pprev[b]), NEW x \in Anc[pprev[b]] \ Anc[f] PROVE f \in Anc[x]
      BY ChainOrder, ParentType DEF FailedAncestors
    <2>3. \A f \in Failed' : f \in Failed \/ Anc[f] \cap Failed # {}
      BY <2>1, <2>2 DEF Failed
    <2> QED
      BY <1>1, <2>1, <2>3, FlagsFrame
  <1>5. ASSUME NEW t \in Threads, NEW b \in Blocks, RejectBlock(t, b) PROVE ActiveNotFailed' /\ TargetsStop'
    <2>1. b \notin linked
      BY <1>5 DEF RejectBlock, ActiveInv, LinkedChain, DataGood, TypeOK
    <2>2. /\ UNCHANGED <<failedChild, tip, pindexMostWork>> /\ failedValid' = failedValid \cup {b}
      BY <1>5 DEF RejectBlock
    <2> QED
      BY <1>1, <2>1, <2>2, FlagsFrame DEF Failed
  <1>6. ASSUME NEW t \in Threads, NEW b \in Blocks,
               AcceptBlockHeader(t, b) \/ StoreBlock(t, b) \/ IgnoreBlock(t, b) \/ FailToStoreBlock(t, b)
        PROVE  ActiveNotFailed' /\ TargetsStop'
    BY <1>1, <1>3, <1>6 DEF AcceptBlockHeader, StoreBlock, IgnoreBlock, FailToStoreBlock, EnterActivateBestChain, Failed
  <1>7. ASSUME NEW t \in Threads, ActivateNothing(t) PROVE ActiveNotFailed' /\ TargetsStop'
    <2>1. PICK m \in StepTargets(t) : failedChild' = failedChild \cup (Erased(t, m) \ Failed)
      BY <1>7 DEF ActivateNothing
    <2>2. /\ UNCHANGED <<failedValid, tip>> /\ pindexMostWork' = [pindexMostWork EXCEPT ![t] = Idle]
          /\ pindexMostWork[t] # Idle
      BY <1>7 DEF ActivateNothing
    <2>3. \A f \in Failed' : f \in Failed \/ Anc[f] \cap Failed # {}
      BY <1>1, <2>1, <2>2, ErasedAboveFailed DEF Failed
    <2> QED
      BY <1>1, <1>2, <2>2, <2>3, FlagsFrame
  <1>8. ASSUME NEW t \in Threads, ActivateBestChainStep(t) PROVE ActiveNotFailed' /\ TargetsStop'
    <2>1. PICK m \in Blocks, x \in Blocks : StepTo(t, m, x)
      BY <1>1, <1>8, StepExact
    <2>2. \A f \in Failed' : f \in Failed \/ f \in Erased(t, m) \/ f \in FailedConnect(m)
      BY <2>1 DEF StepTo, Failed
    <2>3. \A u \in Threads : pindexMostWork'[u] \in Blocks => pindexMostWork'[u] \in {m, pindexMostWork[u]}
      BY SMT, <1>1, <2>1, BlocksAssumption DEF StepTo, TypeOK
    <2>4. m \in StepTargets(t) /\ pindexMostWork[t] # Idle /\ tip' \in Anc[m]
      BY <2>1 DEF StepTo
    <2> QED
      BY <1>1, <2>2, <2>3, <2>4, FlagsActivate
  <1>9. ASSUME NEW t \in Threads, FailActivateBestChainStep(t) PROVE ActiveNotFailed' /\ TargetsStop'
    <2>1. PICK m \in Blocks, x \in Blocks : FailStepTo(t, m, x)
      BY <1>1, <1>9, FailExact
    <2>2. ASSUME NEW y \in Connectable(m) \cup FailedConnect(m) PROVE pprev[y] \in Anc[m]
      <3>1. y \in Anc[m] /\ y \in Blocks
        BY <1>1, ConnectableFacts DEF FailedConnect, OffChain
      <3> QED
        BY <3>1, ParentChain, ChainOfAncestor
    <2>3. tip' \in Anc[m] \cup Anc[tip]
      BY <2>1, <2>2 DEF FailStepTo
    <2>4. \A f \in Failed' : f \in Failed \/ f \in Erased(t, m)
      BY <2>1 DEF FailStepTo, Failed
    <2>5. \A u \in Threads : pindexMostWork'[u] \in Blocks => pindexMostWork'[u] = pindexMostWork[u]
      BY <1>2, <2>1 DEF FailStepTo
    <2>6. m \in StepTargets(t) /\ pindexMostWork[t] # Idle
      BY <2>1 DEF FailStepTo
    <2> QED
      BY <1>1, <2>3, <2>4, <2>5, <2>6, FlagsActivate
  <1>10. ASSUME NEW t \in Threads, ActivateBestChain(t) PROVE ActiveNotFailed' /\ TargetsStop'
    BY <1>1, <1>3, <1>10 DEF ActivateBestChain, EnterActivateBestChain, indexVars, Failed
  <1>11. ASSUME NEW t \in Threads, NEW b \in Blocks, PreciousBlock(t, b) PROVE ActiveNotFailed' /\ TargetsStop'
    <2>1. /\ UNCHANGED <<failedValid, failedChild, tip>>
          /\ UNCHANGED pindexMostWork \/ pindexMostWork' = [pindexMostWork EXCEPT ![t] = Null]
      BY <1>11 DEF PreciousBlock, EnterActivateBestChain, indexVars
    <2> QED
      BY <1>1, <1>3, <2>1 DEF Failed
  <1>12. ASSUME NEW t \in Threads, ReconsiderAllBlocks(t) \/ \E b \in Blocks : ReconsiderBlock(t, b)
         PROVE ActiveNotFailed' /\ TargetsStop'
    <2>1. /\ failedValid' \subseteq failedValid /\ failedChild' \subseteq failedChild /\ UNCHANGED tip
          /\ pindexMostWork' = [pindexMostWork EXCEPT ![t] = Null]
      BY <1>12 DEF ReconsiderAllBlocks, ReconsiderBlock, ResetBlockFailureFlags, EnterActivateBestChain
    <2> QED
      BY <1>1, <1>3, <2>1 DEF Failed
  <1>13. ASSUME NEW t \in Threads, NEW b \in Blocks, FailInvalidateBlock(t, b) PROVE ActiveNotFailed' /\ TargetsStop'
    <2>1. /\ UNCHANGED <<failedValid, failedChild>> /\ tip' \in Anc[tip]
          /\ UNCHANGED pindexMostWork \/ pindexMostWork' = [pindexMostWork EXCEPT ![t] = Null]
      BY <1>13 DEF FailInvalidateBlock, EnterActivateBestChain, indexVars
    <2> QED
      BY <1>1, <1>3, <2>1 DEF Failed
  <1>14. ASSUME StartShutdown \/ UNCHANGED vars PROVE ActiveNotFailed' /\ TargetsStop'
    BY <1>1, <1>3, <1>14 DEF StartShutdown, vars, indexVars, Failed
  <1>15. ASSUME NEW t \in Threads, NEW b \in Blocks, InvalidateBlock(t, b), "invalidateblock" \in Calls
         PROVE  ActiveNotFailed' /\ TargetsStop'
    BY <1>15, FlagsInvalidate
  <1>16. ASSUME NEW t \in Threads, OperatorNext(t) PROVE ActiveNotFailed' /\ TargetsStop'
    BY <1>11, <1>12, <1>14, <1>15, <1>16 DEF OperatorNext
  <1>17. ASSUME NEW t \in Threads, FailureNext(t) PROVE ActiveNotFailed' /\ TargetsStop'
    BY <1>6, <1>9, <1>13, <1>17 DEF FailureNext
  <1>18. ASSUME NEW t \in Threads, NEW b \in Blocks, ReceiveNext(t, b) PROVE ActiveNotFailed' /\ TargetsStop'
    BY <1>4, <1>5, <1>6, <1>18 DEF ReceiveNext
  <1> QED
    BY <1>7, <1>8, <1>10, <1>14, <1>16, <1>17, <1>18 DEF Next, ActivateNext

\* The state LoadGenesisBlock leaves: nothing is marked and nothing is cached.
LEMMA InitActive == Init => ActiveInv
  <1>1. Init => DataGood /\ ActiveNotFailed /\ TargetsStop
    BY SMT, BlocksAssumption DEF Init, DataGood, HaveData, ActiveNotFailed, TargetsStop, Failed
  <1> QED
    BY <1>1, InitType, InitValid, InitLinked DEF ActiveInv

\* Every handler keeps the invariant about flags and tips.
LEMMA ActiveStep ==
    ASSUME ActiveInv, "invalidateblock" \in Calls => Sequential, [Next]_vars
    PROVE  ActiveInv'
  BY TypeStep, ValidStep, LinkedStep, DataGoodStep, FlagsStep DEF ActiveInv

\* The active chain never holds a block that is marked failed, for any tree, with any number of
\* threads in ActivateBestChain at once and with any errors and operator calls, except that
\* invalidateblock must not run beside another thread: ConnectTip does not look at the flags.
THEOREM ActiveChainNotFailed ==
    ASSUME "invalidateblock" \in Calls => Sequential
    PROVE  Spec => []ActiveNotFailed
  <1>1. ActiveInv /\ [Next]_vars => ActiveInv'
    BY ActiveStep
  <1>2. ActiveInv => ActiveNotFailed
    BY DEF ActiveInv
  <1> QED
    BY <1>1, <1>2, InitActive, PTL DEF Spec

-----------------------------------------------------------------------------
(* Every mark has a cause. *)

\* Neither reconsiderblock nor reconsiderallblocks takes marks away again.
MarksStay == Calls \cap {"reconsiderblock", "reconsiderallblocks"} = {}

\* m_failed_blocks remembers only blocks marked BLOCK_FAILED_VALID.
MarksKnown == m_failed_blocks \subseteq failedValid

\* A handler that takes no BLOCK_FAILED_VALID away and marks only what lies above a marked block
\* keeps the cause of every mark.
LEMMA CauseFrame ==
    ASSUME TypeOK, FailedHaveCause, failedValid \subseteq failedValid', Failed' \subseteq Blocks,
           \A g \in Failed' : Anc[g] \cap (Failed \cup failedValid') # {}
    PROVE  FailedHaveCause'
  <1> SUFFICES ASSUME NEW g \in Failed' PROVE Anc[g] \cap failedValid' # {}
    BY DEF FailedHaveCause
  <1>1. PICK f \in Anc[g] : f \in Failed \cup failedValid'
    OBVIOUS
  <1>2. f \in Failed => Anc[f] \cap failedValid # {} /\ Anc[f] \subseteq Anc[g]
    BY <1>1, ChainOfAncestor DEF FailedHaveCause
  <1> QED
    BY <1>1, <1>2

\* As long as no mark is taken away, every handler gives its marks a cause.
LEMMA CauseStep ==
    ASSUME TypeOK, MarksStay, FailedHaveCause, MarksKnown, [Next]_vars
    PROVE  FailedHaveCause' /\ MarksKnown' /\ failedValid \subseteq failedValid'
  <1>1. Failed' \subseteq Blocks /\ \A b \in Blocks : b \in Anc[b]
    BY TypeStep, TreeAssumption DEF TypeOK, Failed
  <1>2. ASSUME failedValid \subseteq failedValid', m_failed_blocks' \subseteq m_failed_blocks \cup failedValid',
               \A g \in Failed' : g \in Failed \/ Anc[g] \cap (Failed \cup failedValid') # {}
        PROVE  FailedHaveCause' /\ MarksKnown' /\ failedValid \subseteq failedValid'
    BY <1>1, <1>2, CauseFrame DEF MarksKnown
  <1>3. CASE UNCHANGED <<failedValid, failedChild, m_failed_blocks>>
    BY <1>2, <1>3 DEF Failed
  <1>4. ASSUME NEW t \in Threads, NEW b \in Blocks, RejectBlockHeader(t, b)
        PROVE  FailedHaveCause' /\ MarksKnown' /\ failedValid \subseteq failedValid'
    <2>1. /\ UNCHANGED <<failedValid, m_failed_blocks>>
          /\ \/ failedChild' = failedChild
             \/ \E f \in FailedAncestors(pprev[b]) :
                  f \in failedValid /\ failedChild' = failedChild \cup (Anc[pprev[b]] \ Anc[f])
      BY <1>4 DEF RejectBlockHeader
    <2>2. ASSUME NEW f \in FailedAncestors(pprev[b]), NEW x \in Anc[pprev[b]] \ Anc[f] PROVE f \in Anc[x]
      BY ChainOrder, ParentType DEF FailedAncestors
    <2>3. \A g \in Failed' : g \in Failed \/ Anc[g] \cap Failed # {}
      BY <2>1, <2>2 DEF Failed
    <2> QED
      BY <1>2, <2>1, <2>3
  <1>5. ASSUME NEW t \in Threads, NEW b \in Blocks, RejectBlock(t, b)
        PROVE  FailedHaveCause' /\ MarksKnown' /\ failedValid \subseteq failedValid'
    BY <1>1, <1>2, <1>5 DEF RejectBlock, Failed
  <1>6. ASSUME NEW t \in Threads, ActivateNothing(t)
        PROVE  FailedHaveCause' /\ MarksKnown' /\ failedValid \subseteq failedValid'
    <2>1. PICK m \in StepTargets(t) : failedChild' = failedChild \cup (Erased(t, m) \ Failed)
      BY <1>6 DEF ActivateNothing
    <2>2. /\ UNCHANGED <<failedValid, m_failed_blocks>> /\ pindexMostWork[t] # Idle
      BY <1>6 DEF ActivateNothing
    <2>3. \A f \in Failed' : f \in Failed \/ Anc[f] \cap Failed # {}
      BY <2>1, <2>2, ErasedAboveFailed DEF Failed
    <2> QED
      BY <1>2, <2>2, <2>3
  <1>7. ASSUME NEW t \in Threads, ActivateBestChainStep(t)
        PROVE  FailedHaveCause' /\ MarksKnown' /\ failedValid \subseteq failedValid'
    <2>1. PICK m \in Blocks, x \in Blocks : StepTo(t, m, x)
      BY <1>7, StepExact
    <2>2. /\ m \in StepTargets(t) /\ pindexMostWork[t] # Idle
          /\ failedChild' = failedChild \cup (Erased(t, m) \ Failed)
          /\ failedValid' = failedValid \cup FailedConnect(m)
          /\ m_failed_blocks' = m_failed_blocks \cup FailedConnect(m)
      BY <2>1 DEF StepTo
    <2>3. \A f \in Failed' : f \in Failed \/ Anc[f] \cap (Failed \cup failedValid') # {}
      BY SMT, <1>1, <2>2, ErasedAboveFailed DEF Failed
    <2> QED
      BY <1>2, <2>2, <2>3
  <1>8. ASSUME NEW t \in Threads, FailActivateBestChainStep(t)
        PROVE  FailedHaveCause' /\ MarksKnown' /\ failedValid \subseteq failedValid'
    <2>1. PICK m \in Blocks, x \in Blocks : FailStepTo(t, m, x)
      BY <1>8, FailExact
    <2>2. /\ m \in StepTargets(t) /\ pindexMostWork[t] # Idle
          /\ failedChild' = failedChild \cup (Erased(t, m) \ Failed)
          /\ UNCHANGED <<failedValid, m_failed_blocks>>
      BY <2>1 DEF FailStepTo
    <2>3. \A f \in Failed' : f \in Failed \/ Anc[f] \cap Failed # {}
      BY <2>2, ErasedAboveFailed DEF Failed
    <2> QED
      BY <1>2, <2>2, <2>3
  <1>9. ASSUME NEW t \in Threads, NEW b \in Blocks, InvalidateBlock(t, b)
        PROVE  FailedHaveCause' /\ MarksKnown' /\ failedValid \subseteq failedValid'
    <2>1. /\ failedValid' = failedValid \cup {b} /\ m_failed_blocks' = m_failed_blocks \cup {b}
          /\ failedChild' = failedChild \cup (IF b \in Anc[tip] THEN Anc[tip] \ Anc[b] ELSE {})
      BY <1>9 DEF InvalidateBlock
    <2>2. ASSUME NEW x \in Anc[tip] \ Anc[b], b \in Anc[tip] PROVE b \in Anc[x]
      BY <2>2, ChainOrder DEF TypeOK
    <2>3. \A g \in Failed' : g \in Failed \/ Anc[g] \cap failedValid' # {}
      BY <1>1, <2>1, <2>2 DEF Failed
    <2> QED
      BY <1>2, <2>1, <2>3
  <1>10. ASSUME NEW t \in Threads, NEW b \in Blocks, ReceiveNext(t, b)
         PROVE  FailedHaveCause' /\ MarksKnown' /\ failedValid \subseteq failedValid'
    BY <1>3, <1>4, <1>5, <1>10 DEF ReceiveNext, AcceptBlockHeader, StoreBlock, IgnoreBlock
  <1>11. ASSUME NEW t \in Threads, OperatorNext(t)
         PROVE  FailedHaveCause' /\ MarksKnown' /\ failedValid \subseteq failedValid'
    BY <1>3, <1>9, <1>11 DEF OperatorNext, MarksStay, PreciousBlock, StartShutdown, indexVars
  <1>12. ASSUME NEW t \in Threads, FailureNext(t)
         PROVE  FailedHaveCause' /\ MarksKnown' /\ failedValid \subseteq failedValid'
    BY <1>3, <1>8, <1>12 DEF FailureNext, FailToStoreBlock, FailInvalidateBlock, indexVars
  <1>13. ASSUME NEW t \in Threads, ActivateBestChain(t)
         PROVE  FailedHaveCause' /\ MarksKnown' /\ failedValid \subseteq failedValid'
    BY <1>3, <1>13 DEF ActivateBestChain, indexVars
  <1>14. CASE UNCHANGED vars
    BY <1>3, <1>14 DEF vars, indexVars
  <1> QED
    BY <1>6, <1>7, <1>10, <1>11, <1>12, <1>13, <1>14 DEF Next, ActivateNext

-----------------------------------------------------------------------------
(* PruneBlockIndexCandidates always leaves a candidate. *)

\* CBlockIndexWorkComparator is a strict total order.
LEMMA WorseOrder ==
    ASSUME NEW seq \in [Blocks -> Int]
    PROVE  /\ \A a \in Blocks : ~Worse(seq, a, a)
           /\ \A a, b \in Blocks : Worse(seq, a, b) => ~Worse(seq, b, a)
           /\ \A a, b \in Blocks : Worse(seq, a, b) \/ Worse(seq, b, a) \/ a = b
           /\ \A a, b, c \in Blocks : ~Worse(seq, a, b) /\ ~Worse(seq, b, c) => ~Worse(seq, a, c)
  BY SMT, BlocksAssumption DEF Worse

\* A block that can be connected with all of its chain and that nothing on its chain marks.
Good(b) == b \in linked /\ Anc[b] \cap Failed = {} /\ Anc[b] \cap BadConnect = {}

\* r is a good candidate, and no linked block as good as r without an invalid ancestor is missing
\* from the candidates.
CompleteFrom(r) ==
    /\ r \in setBlockIndexCandidates /\ Good(r)
    /\ \A b \in linked :
          Anc[b] \cap failedValid = {} /\ ~Worse(nSequenceId, b, r) => b \in setBlockIndexCandidates

Complete == \E r \in Blocks : CompleteFrom(r)

\* What is known of marks.
MarkInv == ActiveInv /\ FailedHaveCause /\ MarksKnown

\* A handler that marks only blocks that are not linked, that do not connect or that lie above a
\* marked one, and that drops only candidates above a marked block, keeps CompleteFrom(r).
LEMMA CompleteFrame ==
    ASSUME MarkInv, MarkInv', UNCHANGED <<linked, nSequenceId>>, failedValid \subseteq failedValid',
           NEW r \in Blocks, CompleteFrom(r),
           \A g \in Failed' : g \in Failed \/ g \notin linked \/ g \in BadConnect \/ Anc[g] \cap Failed # {},
           \A b \in setBlockIndexCandidates : Anc[b] \cap Failed' = {} => b \in setBlockIndexCandidates'
    PROVE  CompleteFrom(r)'
  <1>1. Anc[r] \subseteq linked /\ linked \subseteq Blocks /\ \A g \in Anc[r] : Anc[g] \subseteq Anc[r]
    BY ChainOfAncestor DEF MarkInv, ActiveInv, LinkedChain, TypeOK, CompleteFrom, Good
  <1>2. Anc[r] \cap Failed' = {}
    BY <1>1 DEF CompleteFrom, Good
  <1>3. Good(r)' /\ r \in setBlockIndexCandidates'
    BY <1>2 DEF CompleteFrom, Good
  <1>4. ASSUME NEW b \in linked, Anc[b] \cap failedValid' = {}, ~Worse(nSequenceId, b, r)
        PROVE  b \in setBlockIndexCandidates'
    <2>1. \A g \in Anc[b] : g \in Blocks /\ Anc[g] \subseteq Anc[b]
      BY <1>1, ChainOfAncestor
    <2>2. Anc[b] \cap Failed' = {}
      BY <1>4, <2>1 DEF MarkInv, FailedHaveCause
    <2> QED
      BY <1>4, <2>2 DEF CompleteFrom
  <1> QED
    BY <1>3, <1>4 DEF CompleteFrom

\* A step that connected something and stops at the tip x prunes what is worse than x; r is still
\* there, or x is and takes its place.
LEMMA CompletePruned ==
    ASSUME MarkInv, MarkInv', UNCHANGED <<linked, nSequenceId>>, failedValid \subseteq failedValid',
           NEW r \in Blocks, CompleteFrom(r),
           \A g \in Failed' : g \in Failed \/ g \in BadConnect \/ Anc[g] \cap Failed # {},
           NEW left, \A b \in setBlockIndexCandidates : Anc[b] \cap Failed = {} => b \in left,
           \A b \in Pruned(nSequenceId, left, tip') : Anc[b] \cap Failed' = {} => b \in setBlockIndexCandidates'
    PROVE  (CompleteFrom(r)' \/ CompleteFrom(tip)') /\ Pruned(nSequenceId, left, tip') # {}
  <1> DEFINE x == tip'
  <1>0. nSequenceId \in [Blocks -> Int] /\ x \in Blocks /\ linked \subseteq Blocks /\ setBlockIndexCandidates \subseteq linked
    BY DEF MarkInv, ActiveInv, TypeOK, LinkedChain
  <1>1. x \in linked /\ Anc[x] \cap Failed' = {} /\ Anc[x] \cap BadConnect = {}
    BY DEF MarkInv, ActiveInv, LinkedChain, ActiveNotFailed, ConnectedAreValid
  <1> HIDE DEF x
  <1>2. \A b \in linked : Anc[b] \cap failedValid' = {} => Anc[b] \cap Failed' = {} /\ Anc[b] \cap Failed = {}
    <2> SUFFICES ASSUME NEW b \in linked, Anc[b] \cap failedValid' = {}
                 PROVE  Anc[b] \cap Failed' = {} /\ Anc[b] \cap Failed = {}
      OBVIOUS
    <2>1. \A g \in Anc[b] : Anc[g] \subseteq Anc[b]
      BY <1>0, ChainOfAncestor
    <2>2. \A g \in Failed' : Anc[g] \cap failedValid' # {}
      BY DEF MarkInv, FailedHaveCause
    <2>3. \A g \in Failed : Anc[g] \cap failedValid # {}
      BY DEF MarkInv, FailedHaveCause
    <2> QED
      BY <2>1, <2>2, <2>3
  <1>3. Good(tip)'
    BY <1>1 DEF Good, x
  <1>4. CASE ~Worse(nSequenceId, r, x)
    <2>1. \A g \in Anc[r] : Anc[g] \subseteq Anc[r]
      BY ChainOfAncestor
    <2>2. Anc[r] \cap Failed' = {}
      BY <2>1 DEF CompleteFrom, Good
    <2>3. r \in Pruned(nSequenceId, left, x)
      BY <1>4 DEF CompleteFrom, Good, Pruned
    <2>4. r \in setBlockIndexCandidates' /\ Good(r)'
      BY <2>2, <2>3 DEF CompleteFrom, Good, x
    <2>5. ASSUME NEW b \in linked, Anc[b] \cap failedValid' = {}, ~Worse(nSequenceId, b, r)
          PROVE  b \in setBlockIndexCandidates'
      <3>1. Anc[b] \cap Failed' = {} /\ Anc[b] \cap Failed = {}
        BY <1>2, <2>5
      <3>2. b \in left
        BY <2>5, <3>1 DEF CompleteFrom
      <3>3. ~Worse(nSequenceId, b, x)
        BY <1>0, <1>4, <2>5, WorseOrder
      <3> QED
        BY <3>1, <3>2, <3>3 DEF Pruned, x
    <2> QED
      BY <2>3, <2>4, <2>5 DEF CompleteFrom, x
  <1>5. CASE Worse(nSequenceId, r, x)
    <2>1. \A b \in linked : ~Worse(nSequenceId, b, x) => ~Worse(nSequenceId, b, r)
      BY <1>0, <1>5, WorseOrder
    <2>2. \A b \in linked : Anc[b] \cap failedValid' = {} /\ ~Worse(nSequenceId, b, x)
                               => b \in Pruned(nSequenceId, left, x) /\ b \in setBlockIndexCandidates'
      <3> SUFFICES ASSUME NEW b \in linked, Anc[b] \cap failedValid' = {}, ~Worse(nSequenceId, b, x)
                   PROVE  b \in Pruned(nSequenceId, left, x) /\ b \in setBlockIndexCandidates'
        OBVIOUS
      <3>1. b \in setBlockIndexCandidates
        BY <2>1 DEF CompleteFrom
      <3>2. Anc[b] \cap Failed' = {} /\ Anc[b] \cap Failed = {}
        BY <1>2
      <3>3. b \in Pruned(nSequenceId, left, x)
        BY <3>1, <3>2 DEF Pruned
      <3> QED
        BY <3>2, <3>3 DEF x
    <2>3. Anc[x] \cap failedValid' = {} /\ ~Worse(nSequenceId, x, x)
      BY <1>0, <1>1, WorseOrder DEF Failed
    <2> QED
      BY <1>1, <1>3, <2>2, <2>3 DEF CompleteFrom, x
  <1> QED
    BY <1>4, <1>5

\* Storing b links b and what waited for it, gives these blocks sequence ids from the counter, and
\* makes candidates of those that are as good as the tip.
LEMMA StoreEffect ==
    ASSUME TypeOK, LinkedChain, NEW t \in Threads, NEW b \in Blocks, StoreBlock(t, b)
    PROVE  /\ linked' = linked \cup NewlyLinked(b)
           /\ NewlyLinked(b) \subseteq Blocks /\ NewlyLinked(b) \cap linked = {}
           /\ \A d \in linked : nSequenceId'[d] = nSequenceId[d]
           /\ \A d \in NewlyLinked(b) : nSequenceId'[d] >= nBlockSequenceId
           /\ nBlockSequenceId' >= nBlockSequenceId
           /\ setBlockIndexCandidates' =
                 setBlockIndexCandidates \cup {d \in NewlyLinked(b) : ~Worse(nSequenceId', d, tip)}
           /\ ~HaveData(b) /\ b \notin BadBlock
           /\ pindexMostWork' = [pindexMostWork EXCEPT ![t] = Null]
           /\ UNCHANGED <<failedValid, failedChild, preciousVars, m_failed_blocks, tip, node>>
  <1> DEFINE L == NewlyLinked(b)
             before(d) == {c \in L : LinkedBefore(c, d)}
  <1>1. L \subseteq Blocks /\ \A d \in L : b \in Anc[d]
    BY DEF NewlyLinked
  <1>2. ~HaveData(b) /\ b \notin BadBlock
    BY DEF StoreBlock, IgnoresBlock
  <1>3. L \cap linked = {}
    BY <1>1, <1>2 DEF LinkedChain
  <1>4. Cardinality(L) \in Nat /\ \A d : Cardinality(before(d)) \in Nat
    <2> HIDE DEF L
    <2>1. \A d : before(d) \subseteq Blocks
      BY <1>1
    <2> QED
      BY <1>1, <2>1, BlockCount
  <1>5. nSequenceId' = [d \in Blocks |-> IF d \in L THEN nBlockSequenceId + Cardinality(before(d)) ELSE nSequenceId[d]]
    BY DEF StoreBlock, ReceivedBlockTransactions
  <1>6. /\ linked' = linked \cup L
        /\ nBlockSequenceId' = nBlockSequenceId + Cardinality(L)
        /\ setBlockIndexCandidates' = setBlockIndexCandidates \cup {d \in L : ~Worse(nSequenceId', d, tip)}
    BY DEF StoreBlock, ReceivedBlockTransactions
  <1>7. /\ pindexMostWork' = [pindexMostWork EXCEPT ![t] = Null]
        /\ UNCHANGED <<failedValid, failedChild, preciousVars, m_failed_blocks, tip, node>>
    BY DEF StoreBlock, EnterActivateBestChain
  <1> HIDE DEF L, before
  <1>8. /\ \A d \in linked : nSequenceId'[d] = nSequenceId[d]
        /\ \A d \in L : nSequenceId'[d] >= nBlockSequenceId
        /\ nBlockSequenceId' >= nBlockSequenceId
    BY SMT, <1>1, <1>3, <1>4, <1>5, <1>6 DEF TypeOK
  <1> QED
    BY <1>1, <1>2, <1>3, <1>6, <1>7, <1>8 DEF L

\* A newly linked block is a candidate when it is as good as the tip: completeness from r, or from
\* the tip when the tip is better than r.
LEMMA CompleteStore ==
    ASSUME MarkInv, Complete, NEW t \in Threads, NEW b \in Blocks, StoreBlock(t, b)
    PROVE  Complete'
  <1>1. PICK r \in Blocks : CompleteFrom(r)
    BY DEF Complete
  <1>2. /\ TypeOK /\ LinkedChain /\ tip \in linked /\ r \in linked /\ linked \subseteq Blocks /\ tip \in Blocks
        /\ nSequenceId \in [Blocks -> Int] /\ nSequenceId' \in [Blocks -> Int]
    BY <1>1, TypeStep DEF MarkInv, ActiveInv, LinkedChain, TypeOK, CompleteFrom, Good, Next, ReceiveNext
  <1>3. /\ linked' = linked \cup NewlyLinked(b) /\ NewlyLinked(b) \subseteq Blocks
        /\ \A d \in linked : nSequenceId'[d] = nSequenceId[d]
        /\ setBlockIndexCandidates' =
              setBlockIndexCandidates \cup {d \in NewlyLinked(b) : ~Worse(nSequenceId', d, tip)}
        /\ UNCHANGED <<failedValid, failedChild, tip>>
    BY <1>2, StoreEffect
  <1>4. \A a, c \in linked : Worse(nSequenceId', a, c) <=> Worse(nSequenceId, a, c)
    BY <1>3 DEF Worse
  <1>5. \A c \in linked : Good(c) => Good(c)'
    BY <1>3 DEF Good, Failed
  <1>6. Good(tip)
    BY <1>2 DEF MarkInv, ActiveInv, ActiveNotFailed, ConnectedAreValid, Good
  <1>7. CASE ~Worse(nSequenceId, r, tip)
    <2>1. \A d \in NewlyLinked(b) : ~Worse(nSequenceId', d, r) => ~Worse(nSequenceId', d, tip)
      BY <1>2, <1>3, <1>4, <1>7, WorseOrder
    <2>2. CompleteFrom(r)'
      BY <1>1, <1>2, <1>3, <1>4, <1>5, <2>1 DEF CompleteFrom
    <2> QED
      BY <2>2 DEF Complete
  <1>8. CASE Worse(nSequenceId, r, tip)
    <2>1. tip \in setBlockIndexCandidates
      BY <1>1, <1>2, <1>6, <1>8, WorseOrder DEF CompleteFrom, Good, Failed
    <2>2. \A d \in linked : ~Worse(nSequenceId, d, tip) => ~Worse(nSequenceId, d, r)
      BY <1>2, <1>8, WorseOrder
    <2>3. CompleteFrom(tip)'
      <3>1. tip' \in setBlockIndexCandidates' /\ Good(tip)'
        BY <1>2, <1>3, <1>5, <1>6, <2>1 DEF Good, Failed
      <3>2. ASSUME NEW c \in linked', Anc[c] \cap failedValid' = {}, ~Worse(nSequenceId', c, tip')
            PROVE  c \in setBlockIndexCandidates'
        <4>1. CASE c \in linked
          BY <1>1, <1>2, <1>3, <1>4, <2>2, <3>2, <4>1 DEF CompleteFrom
        <4>2. CASE c \notin linked
          BY <1>3, <3>2, <4>2
        <4> QED
          BY <4>1, <4>2
      <3> QED
        BY <3>1, <3>2 DEF CompleteFrom
    <2> QED
      BY <1>2, <1>3, <2>3 DEF Complete
  <1> QED
    BY <1>7, <1>8

\* InvalidateBlock makes candidates of all blocks as good as the tip it leaves.
LEMMA CompleteInvalidate ==
    ASSUME MarkInv, MarkInv', NEW t \in Threads, NEW b \in Blocks, InvalidateBlock(t, b)
    PROVE  CompleteFrom(tip)' /\ UNCHANGED node
  <1>1. /\ TypeOK' /\ tip' \in linked /\ linked \subseteq Blocks /\ nSequenceId \in [Blocks -> Int]
        /\ UNCHANGED <<linked, nSequenceId, validity, node>>
    BY DEF InvalidateBlock, seqVars, MarkInv, ActiveInv, LinkedChain, TypeOK
  <1>2. {c \in linked \ Failed' : HaveData(c) /\ ~Worse(nSequenceId, c, tip')} \subseteq setBlockIndexCandidates'
    BY DEF InvalidateBlock, Failed
  <1>3. \A c \in linked : HaveData(c)
    BY DEF MarkInv, ActiveInv, LinkedChain
  <1>4. Good(tip)'
    BY <1>1 DEF MarkInv, ActiveInv, ActiveNotFailed, ConnectedAreValid, Good
  <1>5. \A c \in linked : Anc[c] \cap failedValid' = {} => c \notin Failed'
    BY DEF MarkInv, FailedHaveCause
  <1>6. \A c \in linked : Anc[c] \cap failedValid' = {} /\ ~Worse(nSequenceId, c, tip') => c \in setBlockIndexCandidates'
    BY <1>2, <1>3, <1>5
  <1>7. tip' \in setBlockIndexCandidates'
    BY SMT, <1>1, <1>4, <1>6, WorseOrder DEF Good, Failed, TypeOK
  <1> QED
    BY <1>1, <1>4, <1>6, <1>7 DEF CompleteFrom

\* The candidates that have no failed block below them survive FindMostWorkChain.
LEMMA ErasedAreFailed ==
    ASSUME TypeOK, NEW t \in Threads, NEW m \in StepTargets(t), pindexMostWork[t] # Idle
    PROVE  \A b \in setBlockIndexCandidates : Anc[b] \cap Failed = {} => b \in setBlockIndexCandidates \ Erased(t, m)
  BY ErasedAboveFailed

\* Every handler but PreciousBlock keeps the candidates complete and fails no assert.
LEMMA CompleteStep ==
    ASSUME MarkInv, MarkInv', MarksStay, Complete, NoAssertFails, [Next]_vars,
           \A t \in Threads, b \in Blocks :
               "preciousblock" \in Calls /\ PreciousBlock(t, b) => Complete' /\ NoAssertFails'
    PROVE  Complete' /\ NoAssertFails'
  <1>1. PICK r \in Blocks : CompleteFrom(r)
    BY DEF Complete
  <1>2. TypeOK /\ LinkedChain /\ ~(node = "aborted") /\ failedValid \subseteq failedValid'
    BY CauseStep DEF MarkInv, ActiveInv, NoAssertFails
  <1>3. ASSUME UNCHANGED <<linked, nSequenceId, setBlockIndexCandidates>>, node' # "aborted",
               \A g \in Failed' : g \in Failed \/ g \notin linked \/ Anc[g] \cap Failed # {}
        PROVE  Complete' /\ NoAssertFails'
    <2>1. CompleteFrom(r)'
      BY <1>1, <1>2, <1>3, CompleteFrame
    <2> QED
      BY <1>3, <2>1 DEF Complete, NoAssertFails
  <1>4. ASSUME NEW t \in Threads, NEW b \in Blocks, RejectBlockHeader(t, b) PROVE Complete' /\ NoAssertFails'
    <2>1. FailedAncestors(pprev[b]) \subseteq failedValid
      BY DEF FailedAncestors, MarkInv, MarksKnown
    <2>2. /\ UNCHANGED <<linked, nSequenceId, setBlockIndexCandidates, failedValid, node>>
          /\ \/ failedChild' = failedChild
             \/ \E f \in FailedAncestors(pprev[b]) :
                  f \in failedValid /\ failedChild' = failedChild \cup (Anc[pprev[b]] \ Anc[f])
      BY <1>4, <2>1 DEF RejectBlockHeader, seqVars
    <2>3. ASSUME NEW f \in FailedAncestors(pprev[b]), NEW x \in Anc[pprev[b]] \ Anc[f] PROVE f \in Anc[x]
      BY ChainOrder, ParentType DEF FailedAncestors
    <2>4. \A g \in Failed' : g \in Failed \/ Anc[g] \cap Failed # {}
      BY <2>2, <2>3 DEF Failed
    <2> QED
      BY <1>2, <1>3, <2>2, <2>4
  <1>5. ASSUME NEW t \in Threads, NEW b \in Blocks, RejectBlock(t, b) PROVE Complete' /\ NoAssertFails'
    <2>1. b \notin linked
      BY <1>5 DEF RejectBlock, MarkInv, ActiveInv, LinkedChain, DataGood, TypeOK
    <2>2. /\ UNCHANGED <<linked, nSequenceId, setBlockIndexCandidates, failedChild, node>>
          /\ failedValid' = failedValid \cup {b}
      BY <1>5 DEF RejectBlock, seqVars
    <2> QED
      BY <1>2, <1>3, <2>1, <2>2 DEF Failed
  <1>6. ASSUME UNCHANGED <<linked, nSequenceId, setBlockIndexCandidates, failedValid, failedChild>>,
               node' = node \/ node' = "shutdown"
        PROVE  Complete' /\ NoAssertFails'
    BY <1>2, <1>3, <1>6 DEF Failed
  <1>7. ASSUME NEW t \in Threads, NEW b \in Blocks, StoreBlock(t, b) PROVE Complete' /\ NoAssertFails'
    BY <1>2, <1>7, CompleteStore DEF StoreBlock, NoAssertFails
  <1>8. ASSUME NEW t \in Threads, ActivateNothing(t) PROVE Complete' /\ NoAssertFails'
    <2>1. PICK m \in StepTargets(t) : /\ setBlockIndexCandidates' = setBlockIndexCandidates \ Erased(t, m)
                                      /\ failedChild' = failedChild \cup (Erased(t, m) \ Failed)
      BY <1>8 DEF ActivateNothing
    <2>2. UNCHANGED <<linked, nSequenceId, failedValid, node>> /\ pindexMostWork[t] # Idle
      BY <1>8 DEF ActivateNothing, seqVars
    <2>3. \A g \in Failed' : g \in Failed \/ Anc[g] \cap Failed # {}
      BY <1>2, <2>1, <2>2, ErasedAboveFailed DEF Failed
    <2>4. \A b \in setBlockIndexCandidates : Anc[b] \cap Failed' = {} => b \in setBlockIndexCandidates'
      BY <1>2, <2>1, <2>2, ErasedAreFailed DEF Failed
    <2>5. CompleteFrom(r)'
      BY <1>1, <1>2, <2>2, <2>3, <2>4, CompleteFrame
    <2> QED
      BY <1>2, <2>2, <2>5 DEF Complete, NoAssertFails
  <1>9. ASSUME NEW t \in Threads, NEW m \in StepTargets(t), pindexMostWork[t] # Idle, NEW up,
               NEW bad \in SUBSET BadConnect,
               UNCHANGED <<linked, nSequenceId>>,
               failedChild' = failedChild \cup (Erased(t, m) \ Failed), failedValid' = failedValid \cup bad,
               setBlockIndexCandidates' = Kept(t, m, up, tip') \ bad,
               Kept(t, m, up, tip') # {} => node' \in {node, "shutdown"}
        PROVE  Complete' /\ NoAssertFails'
    <2>1. \A g \in Failed' : g \in Failed \/ g \in BadConnect \/ Anc[g] \cap Failed # {}
      BY <1>2, <1>9, ErasedAboveFailed DEF Failed
    <2> DEFINE left == setBlockIndexCandidates \ Erased(t, m)
    <2>2. \A b \in setBlockIndexCandidates : Anc[b] \cap Failed = {} => b \in left
      BY <1>2, <1>9, ErasedAreFailed
    <2>3. \A b \in Blocks : Anc[b] \cap Failed' = {} => b \notin bad /\ Anc[b] \cap Failed = {}
      BY <1>2, <1>9, TreeAssumption DEF Failed
    <2>4. CASE up = {}
      <3>1. Kept(t, m, up, tip') = left
        BY <2>4 DEF Kept
      <3>2. \A b \in setBlockIndexCandidates : Anc[b] \cap Failed' = {} => b \in setBlockIndexCandidates'
        BY <1>2, <1>9, <2>2, <2>3, <3>1 DEF TypeOK
      <3>3. CompleteFrom(r)'
        BY <1>1, <1>2, <1>9, <2>1, <3>2, CompleteFrame
      <3>4. left # {}
        BY <1>1, <2>2 DEF CompleteFrom, Good
      <3> QED
        BY <1>2, <1>9, <3>1, <3>3, <3>4 DEF Complete, NoAssertFails
    <2>5. CASE up # {}
      <3>1. Kept(t, m, up, tip') = Pruned(nSequenceId, left, tip')
        BY <2>5 DEF Kept
      <3>2. Pruned(nSequenceId, left, tip') \subseteq Blocks
        BY <1>2 DEF Pruned, TypeOK
      <3>3. \A b \in Pruned(nSequenceId, left, tip') : Anc[b] \cap Failed' = {} => b \in setBlockIndexCandidates'
        BY <1>9, <2>3, <3>1, <3>2
      <3> HIDE DEF left
      <3>4. (CompleteFrom(r)' \/ CompleteFrom(tip)') /\ Pruned(nSequenceId, left, tip') # {}
        BY <1>1, <1>2, <1>9, <2>1, <2>2, <3>3, CompletePruned
      <3>5. tip' \in Blocks
        BY DEF MarkInv, ActiveInv, TypeOK
      <3> QED
        BY <1>2, <1>9, <3>1, <3>4, <3>5 DEF Complete, NoAssertFails
    <2> QED
      BY <2>4, <2>5
  <1>10. ASSUME NEW t \in Threads, ActivateBestChainStep(t) PROVE Complete' /\ NoAssertFails'
    <2>1. PICK m \in Blocks, x \in Blocks : StepTo(t, m, x)
      BY <1>2, <1>10, StepExact
    <2>2. FailedConnect(m) \subseteq BadConnect
      BY DEF FailedConnect
    <2>3. /\ m \in StepTargets(t) /\ pindexMostWork[t] # Idle /\ UNCHANGED <<linked, nSequenceId>>
          /\ failedChild' = failedChild \cup (Erased(t, m) \ Failed)
          /\ failedValid' = failedValid \cup FailedConnect(m)
          /\ setBlockIndexCandidates' = Kept(t, m, Connectable(m), tip') \ FailedConnect(m)
          /\ Kept(t, m, Connectable(m), tip') # {} => node' \in {node, "shutdown"}
      BY <2>1 DEF StepTo, seqVars
    <2> QED
      BY <1>9, <2>2, <2>3
  <1>11. ASSUME NEW t \in Threads, FailActivateBestChainStep(t) PROVE Complete' /\ NoAssertFails'
    <2>1. PICK m \in Blocks, x \in Blocks : FailStepTo(t, m, x)
      BY <1>2, <1>11, FailExact
    <2> DEFINE none == {}
               done == Connectable(m) \cap Anc[x]
    <2>2. /\ m \in StepTargets(t) /\ pindexMostWork[t] # Idle /\ UNCHANGED <<linked, nSequenceId>>
          /\ failedChild' = failedChild \cup (Erased(t, m) \ Failed)
          /\ failedValid' = failedValid \cup none
          /\ setBlockIndexCandidates' = Kept(t, m, done, tip') \ none
          /\ Kept(t, m, done, tip') # {} => node' \in {node, "shutdown"}
      BY <2>1 DEF FailStepTo, seqVars
    <2>3. none \in SUBSET BadConnect
      OBVIOUS
    <2> HIDE DEF none, done
    <2> QED
      BY <1>9, <2>2, <2>3
  <1>12. ASSUME NEW t \in Threads, NEW b \in Blocks, InvalidateBlock(t, b) PROVE Complete' /\ NoAssertFails'
    BY <1>2, <1>12, CompleteInvalidate DEF Complete, NoAssertFails, MarkInv, ActiveInv, TypeOK
  <1>13. ASSUME NEW t \in Threads, NEW b \in Blocks, ReceiveNext(t, b) PROVE Complete' /\ NoAssertFails'
    BY <1>4, <1>5, <1>6, <1>7, <1>13 DEF ReceiveNext, AcceptBlockHeader, IgnoreBlock, seqVars
  <1>14. ASSUME NEW t \in Threads, OperatorNext(t) PROVE Complete' /\ NoAssertFails'
    BY <1>6, <1>12, <1>14 DEF OperatorNext, MarksStay, StartShutdown, indexVars, seqVars
  <1>15. ASSUME NEW t \in Threads, FailureNext(t) PROVE Complete' /\ NoAssertFails'
    BY <1>6, <1>11, <1>15 DEF FailureNext, FailToStoreBlock, FailInvalidateBlock, indexVars, seqVars
  <1>16. ASSUME NEW t \in Threads, ActivateBestChain(t) PROVE Complete' /\ NoAssertFails'
    BY <1>6, <1>16 DEF ActivateBestChain, indexVars, seqVars
  <1>17. CASE UNCHANGED vars
    BY <1>6, <1>17 DEF vars, indexVars, seqVars
  <1> QED
    BY <1>8, <1>10, <1>13, <1>14, <1>15, <1>16, <1>17 DEF Next, ActivateNext

\* The state LoadGenesisBlock leaves: Genesis is the only linked block and a candidate.
LEMMA InitComplete == Init => MarkInv /\ Complete /\ NoAssertFails
  <1> SUFFICES ASSUME Init PROVE MarkInv /\ Complete /\ NoAssertFails
    OBVIOUS
  <1>1. FailedHaveCause /\ MarksKnown /\ NoAssertFails
    BY DEF Init, FailedHaveCause, Failed, MarksKnown, NoAssertFails
  <1>2. CompleteFrom(Genesis)
    BY BlocksAssumption, TreeAssumption DEF Init, CompleteFrom, Good, Failed, BadConnect
  <1> QED
    BY <1>1, <1>2, InitActive, BlocksAssumption DEF MarkInv, Complete

\* Without preciousblock that is enough for the active chain to be sound.
LEMMA SoundWithoutPrecious ==
    ASSUME MarksStay, "preciousblock" \notin Calls, "invalidateblock" \in Calls => Sequential
    PROVE  Spec => []ActiveChainSound
  <1> DEFINE Inv == MarkInv /\ Complete /\ NoAssertFails
  <1>1. ASSUME Inv, [Next]_vars PROVE Inv'
    <2>1. MarkInv'
      BY <1>1, ActiveStep, CauseStep DEF MarkInv, ActiveInv
    <2> QED
      BY <1>1, <2>1, CompleteStep
  <1>2. Inv => ActiveChainSound
    BY DEF MarkInv, ActiveInv, ActiveChainSound
  <1>3. Init => Inv
    BY InitComplete
  <1> QED
    BY <1>1, <1>2, <1>3, PTL DEF Spec

=============================================================================
