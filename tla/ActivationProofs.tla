-------------------------- MODULE ActivationProofs --------------------------
(***************************************************************************)
(* What ActivateBestChain reaches, for every block tree: with calls that   *)
(* come one at a time it ends on the best eligible chain, CheckBlockIndex  *)
(* passes after every step, and no header is accepted on an invalid block. *)
(*                                                                         *)
(* Zenon is the default prover; a leaf that needs SMT cites it.            *)
(***************************************************************************)
EXTENDS ChainStateProofs, WellFoundedInduction

USE Zenon
USE DEF BLOCK_VALID_UNKNOWN, BLOCK_VALID_TREE, BLOCK_VALID_TRANSACTIONS, BLOCK_VALID_SCRIPTS, Idle, Null

-----------------------------------------------------------------------------
(* The best chain is activated and CheckBlockIndex passes, when calls come one at a time. *)

\* Work grows along a chain: by the least height at which it would not.
LEMMA AncestorWork == \A b \in Blocks : \A a \in Anc[b] : a = b \/ nChainWork[a] < nChainWork[b]
  <1> DEFINE Odd == {b \in Blocks : \E a \in Anc[b] : a # b /\ ~(nChainWork[a] < nChainWork[b])}
             Heights == {nHeight[b] : b \in Odd}
  <1> SUFFICES ASSUME Odd # {} PROVE FALSE
    OBVIOUS
  <1>0. \A b \in Blocks : nHeight[b] \in Nat /\ nChainWork[b] \in Nat
    BY BlocksAssumption
  <1>1. Heights \in SUBSET Nat /\ Heights # {}
    <2>1. Odd \subseteq Blocks
      OBVIOUS
    <2> HIDE DEF Odd
    <2> QED BY <1>0, <2>1
  <1>2. PICK h \in Heights : \A k \in Heights : ~(<<k, h>> \in OpToRel(<, Nat))
    <2> HIDE DEF Heights
    <2> QED BY <1>1, NatLessThanWellFounded, WFMin
  <1>3. \A k \in Heights : ~(k < h)
    BY <1>1, <1>2 DEF OpToRel
  <1>4. PICK b \in Odd : nHeight[b] = h
    OBVIOUS
  <1>5. PICK a \in Anc[b] : a # b /\ ~(nChainWork[a] < nChainWork[b])
    BY <1>4
  <1>6. b \in Blocks /\ b # Genesis /\ a \in Blocks
    BY <1>4, <1>5, BlocksAssumption, TreeAssumption
  <1>7. /\ a \in Anc[pprev[b]] /\ pprev[b] \in Blocks
        /\ nHeight[b] = nHeight[pprev[b]] + 1 /\ nChainWork[b] > nChainWork[pprev[b]]
    BY SMT, <1>5, <1>6, BlocksAssumption, TreeAssumption, WorkAssumption
  <1>8. nHeight[pprev[b]] < h
    BY SMT, <1>0, <1>4, <1>6, <1>7
  <1>9. pprev[b] \notin Odd
    BY <1>3, <1>8
  <1>10. a = pprev[b] \/ nChainWork[a] < nChainWork[pprev[b]]
    BY <1>7, <1>9
  <1> QED
    BY SMT, <1>0, <1>5, <1>6, <1>7, <1>10

\* So no block is worse than one of its ancestors.
LEMMA AncestorWorse ==
    ASSUME NEW seq \in [Blocks -> Int], NEW b \in Blocks, NEW a \in Anc[b]
    PROVE  ~Worse(seq, b, a)
  <1>1. a \in Blocks /\ (a = b \/ nChainWork[a] < nChainWork[b])
    BY AncestorWork, ChainOfAncestor
  <1> QED
    BY SMT, <1>1, WorseOrder, BlocksAssumption DEF Worse

\* Neither shutdown requests nor disk errors.
Quiet == Calls \cap {"stop", "errors"} = {}

\* No candidate is worse than the tip.
NotWorse == \A c \in setBlockIndexCandidates : ~Worse(nSequenceId, c, tip)

\* A candidate FindMostWorkChain can choose, and that none of the others is better than.
BestCandidate(m) ==
    /\ m \in setBlockIndexCandidates /\ Anc[m] \cap Failed = {}
    /\ \A c \in setBlockIndexCandidates : Anc[c] \cap Failed = {} => ~Worse(nSequenceId, m, c)

\* A cached pindexMostWork is still what FindMostWorkChain would choose.
TargetsBest == \A t \in Threads : pindexMostWork[t] \in Blocks => BestCandidate(pindexMostWork[t])

\* No chain that could be activated is better than the active one.
TipBest == \A b \in linked : Eligible(b) => ~Worse(nSequenceId, tip, b)

\* The target of a step is the best candidate: a good one exists, so FindMostWorkChain finds one.
LEMMA TargetBest ==
    ASSUME MarkInv, Complete, TargetsBest, NEW t \in Threads, NEW m \in StepTargets(t), pindexMostWork[t] # Idle
    PROVE  m \in Blocks /\ BestCandidate(m)
  <1>1. setBlockIndexCandidates \subseteq Blocks
    BY DEF MarkInv, ActiveInv, TypeOK
  <1>2. \A c \in setBlockIndexCandidates : c \in Usable <=> Anc[c] \cap Failed = {}
    BY DEF Usable, Unusable, OffChain, MarkInv, ActiveInv, ActiveNotFailed
  <1>3. CASE pindexMostWork[t] # Null
    BY <1>3 DEF StepTargets, TargetsBest, MarkInv, ActiveInv, TypeOK
  <1>4. CASE pindexMostWork[t] = Null
    <2>1. Usable # {}
      BY <1>2 DEF Complete, CompleteFrom, Good
    <2>2. m \in Usable /\ \A c \in Usable : ~Worse(nSequenceId, m, c)
      BY <1>4, <2>1 DEF StepTargets, MostWorkChain
    <2>3. m \in setBlockIndexCandidates
      BY <2>2 DEF Usable
    <2> QED
      BY <1>1, <1>2, <2>2, <2>3 DEF BestCandidate
  <1> QED
    BY <1>3, <1>4

\* When the tip is the best candidate, no eligible block is better, candidate or not.
LEMMA BestIsTip ==
    ASSUME MarkInv, Complete, NEW m \in Blocks, BestCandidate(m)
    PROVE  \A b \in linked : Eligible(b) => ~Worse(nSequenceId, m, b)
  <1> SUFFICES ASSUME NEW b \in linked, Eligible(b) PROVE ~Worse(nSequenceId, m, b)
    OBVIOUS
  <1>1. PICK r \in Blocks : CompleteFrom(r)
    BY DEF Complete
  <1>2. nSequenceId \in [Blocks -> Int] /\ b \in Blocks
    BY DEF MarkInv, ActiveInv, TypeOK
  <1>3. ~Worse(nSequenceId, m, r)
    BY <1>1 DEF CompleteFrom, Good, BestCandidate
  <1>4. CASE b \in setBlockIndexCandidates
    BY <1>4 DEF BestCandidate, Eligible
  <1>5. CASE b \notin setBlockIndexCandidates
    <2>1. Worse(nSequenceId, b, r)
      BY <1>1, <1>5 DEF CompleteFrom, Eligible, Failed
    <2> QED
      BY <1>2, <1>3, <2>1, WorseOrder
  <1> QED
    BY <1>4, <1>5

\* The blocks a step can connect towards m reach down to the active chain without a gap.
LEMMA ConnectableDown ==
    ASSUME TypeOK, NEW m \in Blocks, NEW y \in Connectable(m) \cup FailedConnect(m)
    PROVE  pprev[y] \in Connectable(m) \cup Anc[tip]
  <1>1. CASE y \in FailedConnect(m)
    BY <1>1 DEF FailedConnect
  <1>2. CASE y \in Connectable(m)
    <2>1. y \in Blocks /\ y # Genesis /\ y \in Anc[m]
      BY <1>2, ConnectableFacts, TreeAssumption DEF TypeOK
    <2>2. /\ pprev[y] \in Blocks /\ Anc[pprev[y]] \subseteq Anc[y] /\ y \notin Anc[pprev[y]] /\ pprev[y] \in Anc[m]
      BY <2>1, ParentType, ParentChain, TreeAssumption
    <2>3. /\ Anc[y] \cap OffChain(m) \cap BadConnect = {}
          /\ \A z \in (Anc[y] \cap OffChain(m)) \ {y} : nChainWork[z] <= nChainWork[tip]
      BY <1>2 DEF Connectable
    <2> QED
      BY <2>2, <2>3 DEF Connectable, OffChain
  <1> QED
    BY <1>1, <1>2

\* No handler leaves a candidate that is worse than the tip.
LEMMA NotWorseStep ==
    ASSUME MarkInv, NotWorse, [Next]_vars
    PROVE  NotWorse'
  <1>1. /\ TypeOK /\ LinkedChain /\ tip \in Blocks /\ setBlockIndexCandidates \subseteq Blocks
        /\ nSequenceId \in [Blocks -> Int] /\ tip \in Anc[tip] /\ TypeOK'
    BY TypeStep, TreeAssumption DEF MarkInv, ActiveInv, TypeOK
  <1>2. ASSUME NEW x \in Anc[tip], tip' = x, UNCHANGED nSequenceId,
               \A c \in setBlockIndexCandidates' : c \in setBlockIndexCandidates \/ ~Worse(nSequenceId, c, x)
        PROVE  NotWorse'
    <2>1. x \in Blocks /\ ~Worse(nSequenceId, tip, x)
      BY <1>1, AncestorWorse, ChainOfAncestor
    <2>2. \A c \in setBlockIndexCandidates : ~Worse(nSequenceId, c, x)
      BY <1>1, <2>1, WorseOrder DEF NotWorse
    <2> QED
      BY <1>2, <2>2 DEF NotWorse
  <1>3. CASE UNCHANGED <<tip, setBlockIndexCandidates, nSequenceId>>
    BY <1>3 DEF NotWorse
  <1>4. ASSUME NEW t \in Threads, NEW b \in Blocks, StoreBlock(t, b) PROVE NotWorse'
    <2>1. /\ \A d \in linked : nSequenceId'[d] = nSequenceId[d]
          /\ setBlockIndexCandidates' =
                 setBlockIndexCandidates \cup {d \in NewlyLinked(b) : ~Worse(nSequenceId', d, tip)}
          /\ tip' = tip
      BY <1>1, <1>4, StoreEffect
    <2>2. setBlockIndexCandidates \subseteq linked /\ tip \in linked
      BY <1>1 DEF LinkedChain
    <2>3. \A c \in setBlockIndexCandidates : ~Worse(nSequenceId', c, tip)
      BY <2>1, <2>2 DEF Worse, NotWorse
    <2> QED
      BY <2>1, <2>3 DEF NotWorse
  <1>5. ASSUME NEW t \in Threads, NEW m \in Blocks, NEW up, NEW bad,
               UNCHANGED nSequenceId, up # {} \/ tip' \in Anc[tip],
               setBlockIndexCandidates' = Kept(t, m, up, tip') \ bad
        PROVE  NotWorse'
    <2>1. CASE up = {}
      <3>1. setBlockIndexCandidates' \subseteq setBlockIndexCandidates
        BY <1>5, <2>1 DEF Kept
      <3> QED
        BY <1>2, <1>5, <2>1, <3>1
    <2>2. CASE up # {}
      BY <1>5, <2>2 DEF Kept, Pruned, NotWorse
    <2> QED
      BY <2>1, <2>2
  <1>6. ASSUME NEW t \in Threads, ActivateBestChainStep(t) PROVE NotWorse'
    <2>1. PICK m \in Blocks, x \in Blocks : StepTo(t, m, x)
      BY <1>1, <1>6, StepExact
    <2>2. /\ UNCHANGED nSequenceId
          /\ Connectable(m) # {} \/ tip' \in Anc[tip]
          /\ setBlockIndexCandidates' = Kept(t, m, Connectable(m), tip') \ FailedConnect(m)
      BY <2>1 DEF StepTo, seqVars
    <2> QED
      BY <1>5, <2>2
  <1>7. ASSUME NEW t \in Threads, FailActivateBestChainStep(t) PROVE NotWorse'
    <2>1. PICK m \in Blocks, x \in Blocks : FailStepTo(t, m, x)
      BY <1>1, <1>7, FailExact
    <2> DEFINE none == {}
               done == Connectable(m) \cap Anc[x]
    <2>2. /\ UNCHANGED nSequenceId /\ tip' = x
          /\ \/ x \in Anc[tip]
             \/ \E y \in Connectable(m) \cup FailedConnect(m) : x = pprev[y]
          /\ setBlockIndexCandidates' = Kept(t, m, done, tip') \ none
      BY <2>1 DEF FailStepTo, seqVars
    <2>3. done # {} \/ tip' \in Anc[tip]
      <3>1. x \in Anc[tip] \/ x \in Connectable(m)
        BY <1>1, <2>2, ConnectableDown
      <3> QED
        BY <2>2, <3>1, TreeAssumption
    <2> HIDE DEF none, done
    <2> QED
      BY <1>5, <2>2, <2>3
  <1>8. ASSUME NEW t \in Threads, ActivateNothing(t) PROVE NotWorse'
    <2>1. setBlockIndexCandidates' \subseteq setBlockIndexCandidates /\ UNCHANGED <<nSequenceId, tip>>
      BY <1>8 DEF ActivateNothing, seqVars
    <2> QED
      BY <1>1, <1>2, <2>1
  <1>9. ASSUME NEW t \in Threads, NEW b \in Blocks, PreciousBlock(t, b) PROVE NotWorse'
    <2>1. CASE nChainWork[b] < nChainWork[tip]
      BY <1>3, <1>9, <2>1 DEF PreciousBlock
    <2>2. CASE ~(nChainWork[b] < nChainWork[tip])
      <3>1. /\ tip' = tip
            /\ \/ setBlockIndexCandidates' = Pruned(nSequenceId', setBlockIndexCandidates \cup {b}, tip)
               \/ /\ setBlockIndexCandidates' = setBlockIndexCandidates \ {b}
                  /\ ~(IsValid(b, BLOCK_VALID_TRANSACTIONS) /\ b \in linked)
            /\ \A d \in Blocks \ {b} : nSequenceId'[d] = nSequenceId[d]
        BY <1>1, <1>9, <2>2 DEF PreciousBlock
      <3>2. IsValid(tip, BLOCK_VALID_TRANSACTIONS) /\ tip \in linked
        BY <1>1, TreeAssumption DEF MarkInv, ActiveInv, ActiveNotFailed, LinkedChain, IsValid, HaveData
      <3>3. CASE setBlockIndexCandidates' = Pruned(nSequenceId', setBlockIndexCandidates \cup {b}, tip)
        BY <3>1, <3>3 DEF Pruned, NotWorse
      <3>4. CASE setBlockIndexCandidates' = setBlockIndexCandidates \ {b} /\ b # tip
        BY <1>1, <3>1, <3>4 DEF Worse, NotWorse
      <3> QED
        BY <3>1, <3>2, <3>3, <3>4
    <2> QED
      BY <2>1, <2>2
  <1>10. ASSUME NEW t \in Threads, NEW b \in Blocks, InvalidateBlock(t, b) PROVE NotWorse'
    <2>1. /\ tip' = IF b \in Anc[tip] THEN pprev[b] ELSE tip
          /\ \A c \in setBlockIndexCandidates' : c \in setBlockIndexCandidates \/ ~Worse(nSequenceId, c, tip')
          /\ UNCHANGED nSequenceId
      BY <1>10 DEF InvalidateBlock, seqVars
    <2>2. tip' \in Anc[tip]
      BY <1>1, <2>1, ParentChain, ChainOfAncestor
    <2> QED
      BY <1>2, <2>1, <2>2
  <1>11. ASSUME NEW t \in Threads, NEW b \in Blocks, FailInvalidateBlock(t, b) PROVE NotWorse'
    <2>1. tip' \in Anc[tip] /\ UNCHANGED <<setBlockIndexCandidates, nSequenceId>>
      BY <1>11 DEF FailInvalidateBlock, seqVars
    <2> QED
      BY <1>2, <2>1
  <1>12. ASSUME NEW t \in Threads, ReconsiderAllBlocks(t) \/ \E b \in Blocks : ReconsiderBlock(t, b) PROVE NotWorse'
    <2>1. /\ UNCHANGED <<tip, nSequenceId>>
          /\ \A c \in setBlockIndexCandidates' :
                c \in setBlockIndexCandidates \/ (c \in linked /\ Worse(nSequenceId, tip, c))
      BY <1>12 DEF ReconsiderAllBlocks, ReconsiderBlock, ResetBlockFailureFlags, seqVars
    <2>2. \A c \in linked : Worse(nSequenceId, tip, c) => ~Worse(nSequenceId, c, tip)
      BY <1>1, WorseOrder DEF TypeOK
    <2> QED
      BY <1>1, <1>2, <2>1, <2>2
  <1>13. ASSUME NEW t \in Threads, NEW b \in Blocks, ReceiveNext(t, b) PROVE NotWorse'
    BY <1>3, <1>4, <1>13 DEF ReceiveNext, AcceptBlockHeader, RejectBlockHeader, IgnoreBlock, RejectBlock, seqVars
  <1>14. ASSUME NEW t \in Threads, OperatorNext(t) PROVE NotWorse'
    BY <1>3, <1>9, <1>10, <1>12, <1>14 DEF OperatorNext, StartShutdown, seqVars
  <1>15. ASSUME NEW t \in Threads, FailureNext(t) PROVE NotWorse'
    BY <1>3, <1>7, <1>11, <1>15 DEF FailureNext, FailToStoreBlock, seqVars
  <1>16. ASSUME NEW t \in Threads, ActivateBestChain(t) PROVE NotWorse'
    BY <1>3, <1>16 DEF ActivateBestChain, seqVars
  <1>17. CASE UNCHANGED vars
    BY <1>3, <1>17 DEF vars, seqVars
  <1> QED
    BY <1>6, <1>8, <1>13, <1>14, <1>15, <1>16, <1>17 DEF Next, ActivateNext

\* Towards the best candidate: when the step reaches it no eligible block is better than the new
\* tip, and when nothing failed on the way it is still the best candidate.
LEMMA StepTowardsBest ==
    ASSUME MarkInv, MarkInv', Complete, TargetsBest, NEW t \in Threads,
           NEW m \in Blocks, NEW x \in Blocks, StepTo(t, m, x)
    PROVE  /\ x = m => TipBest'
           /\ FailedConnect(m) = {} => BestCandidate(m)'
  <1>1. /\ BestCandidate(m) /\ Failed \subseteq Failed' /\ tip' = x /\ UNCHANGED <<linked, nSequenceId>>
        /\ TypeOK /\ nSequenceId \in [Blocks -> Int] /\ pindexMostWork[t] # Idle /\ m \in StepTargets(t) /\ x \in Anc[m]
        /\ setBlockIndexCandidates' = Kept(t, m, Connectable(m), x) \ FailedConnect(m)
        /\ failedChild' = failedChild \cup (Erased(t, m) \ Failed)
        /\ failedValid' = failedValid \cup FailedConnect(m)
    BY SMT, TargetBest DEF StepTo, seqVars, MarkInv, ActiveInv, TypeOK, Failed
  <1>2. \A b \in linked : Eligible(b)' => Eligible(b)
    BY <1>1 DEF Eligible
  <1>3. x = m => TipBest'
    BY <1>1, <1>2, BestIsTip DEF TipBest
  <1>4. ASSUME FailedConnect(m) = {} PROVE BestCandidate(m)'
    <2>1. \A e \in Erased(t, m) : Anc[e] \cap Failed # {}
      BY SMT, <1>1, ErasedAboveFailed
    <2>2. Anc[m] \cap Failed' = {}
      <3>1. \A g \in Anc[m] : Anc[g] \subseteq Anc[m]
        BY ChainOfAncestor
      <3> QED
        BY <1>1, <1>4, <2>1, <3>1 DEF BestCandidate, Failed
    <2>3. m \in setBlockIndexCandidates'
      <3>1. m \in setBlockIndexCandidates \ Erased(t, m)
        BY <1>1, <2>1 DEF BestCandidate
      <3>2. ~Worse(nSequenceId, m, x)
        BY <1>1, AncestorWorse
      <3> QED
        BY <1>1, <1>4, <3>1, <3>2 DEF Kept, Pruned
    <2>4. \A c \in setBlockIndexCandidates' : c \in setBlockIndexCandidates /\ (Anc[c] \cap Failed' = {} => Anc[c] \cap Failed = {})
      BY <1>1 DEF Kept, Pruned
    <2> QED
      BY <1>1, <2>2, <2>3, <2>4 DEF BestCandidate
  <1> QED
    BY <1>3, <1>4

\* With calls one at a time no other thread changes what was cached from step to step.
LEMMA TargetsBestStep ==
    ASSUME Sequential, MarkInv, MarkInv', Complete, TargetsBest, [Next]_vars
    PROVE  TargetsBest'
  <1>1. TypeOK /\ Idle \notin Blocks /\ Null \notin Blocks
    BY SMT, BlocksAssumption DEF MarkInv, ActiveInv
  <1>2. ASSUME NEW t \in Threads, NEW p \in {Idle, Null}, pindexMostWork' = [pindexMostWork EXCEPT ![t] = p]
        PROVE  TargetsBest'
    BY <1>1, <1>2 DEF Sequential, TargetsBest, TypeOK
  <1>3. ASSUME NEW t \in Threads, CanCall(t), UNCHANGED pindexMostWork PROVE TargetsBest'
    BY <1>1, <1>3 DEF CanCall, Sequential, TargetsBest
  <1>4. CASE UNCHANGED <<pindexMostWork, setBlockIndexCandidates, failedValid, failedChild, nSequenceId>>
    BY <1>4 DEF TargetsBest, BestCandidate, Failed
  <1>5. ASSUME NEW t \in Threads, ActivateBestChainStep(t) PROVE TargetsBest'
    <2>1. PICK m \in Blocks, x \in Blocks : StepTo(t, m, x)
      BY <1>1, <1>5, StepExact
    <2>2. FailedConnect(m) = {} => BestCandidate(m)'
      BY <2>1, StepTowardsBest
    <2>3. pindexMostWork' = [pindexMostWork EXCEPT ![t] =
            IF node = "shutdown" \/ (FailedConnect(m) = {} /\ x = m) THEN Idle
            ELSE IF FailedConnect(m) # {} THEN Null ELSE m]
      BY <2>1 DEF StepTo
    <2>4. CASE FailedConnect(m) # {}
      BY <1>2, <2>3, <2>4
    <2>5. CASE FailedConnect(m) = {} /\ pindexMostWork'[t] = m
      BY <1>1, <2>2, <2>5 DEF Sequential, TargetsBest
    <2>6. CASE FailedConnect(m) = {} /\ pindexMostWork'[t] = Idle
      BY <1>1, <2>6 DEF Sequential, TargetsBest
    <2> QED
      BY <1>1, <2>3, <2>4, <2>5, <2>6 DEF TypeOK
  <1>6. ASSUME NEW t \in Threads, ActivateNothing(t) \/ FailActivateBestChainStep(t) PROVE TargetsBest'
    BY <1>2, <1>6 DEF ActivateNothing, FailActivateBestChainStep
  <1>7. ASSUME NEW t \in Threads, NEW b \in Blocks, ReceiveNext(t, b) PROVE TargetsBest'
    BY <1>2, <1>3, <1>7 DEF ReceiveNext, AcceptBlockHeader, RejectBlockHeader, StoreBlock, IgnoreBlock, RejectBlock,
                            EnterActivateBestChain
  <1>8. ASSUME NEW t \in Threads, NEW b \in Blocks,
               PreciousBlock(t, b) \/ InvalidateBlock(t, b) \/ ReconsiderBlock(t, b) \/ ReconsiderAllBlocks(t)
        PROVE  TargetsBest'
    BY <1>2, <1>3, <1>8 DEF PreciousBlock, InvalidateBlock, ReconsiderBlock, ReconsiderAllBlocks, EnterActivateBestChain
  <1>9. ASSUME NEW t \in Threads, NEW b \in Blocks, FailToStoreBlock(t, b) \/ FailInvalidateBlock(t, b)
        PROVE  TargetsBest'
    BY <1>2, <1>3, <1>9 DEF FailToStoreBlock, FailInvalidateBlock, EnterActivateBestChain
  <1>10. ASSUME NEW t \in Threads, OperatorNext(t) PROVE TargetsBest'
    BY <1>4, <1>8, <1>10, BlocksAssumption DEF OperatorNext, StartShutdown, indexVars, seqVars
  <1>11. ASSUME NEW t \in Threads, FailureNext(t) PROVE TargetsBest'
    BY <1>6, <1>9, <1>11 DEF FailureNext
  <1>12. ASSUME NEW t \in Threads, ActivateBestChain(t) PROVE TargetsBest'
    BY <1>2, <1>12 DEF ActivateBestChain, EnterActivateBestChain
  <1>13. CASE UNCHANGED vars
    BY <1>4, <1>13 DEF vars, indexVars, seqVars
  <1> QED
    BY <1>5, <1>6, <1>7, <1>10, <1>11, <1>12, <1>13 DEF Next, ActivateNext

\* When ActivateBestChain returns and was not told to stop, no eligible chain is better.
LEMMA ReturnsBest ==
    ASSUME MarkInv, MarkInv', Complete, TargetsBest, NEW t \in Threads, ActivateNext(t),
           pindexMostWork'[t] = Idle, node # "shutdown"
    PROVE  TipBest' /\ UNCHANGED <<linked, nSequenceId>>
  <1>1. TypeOK /\ Idle \notin Blocks /\ Null \notin Blocks
    BY SMT, BlocksAssumption DEF MarkInv, ActiveInv
  <1>2. CASE ActivateNothing(t)
    <2>1. PICK m \in StepTargets(t) : m \in {Null, tip} /\ failedChild' = failedChild \cup (Erased(t, m) \ Failed)
      BY <1>2 DEF ActivateNothing
    <2>2. UNCHANGED <<linked, nSequenceId, tip, failedValid>> /\ pindexMostWork[t] # Idle
      BY <1>2 DEF ActivateNothing, seqVars
    <2>3. m = tip /\ BestCandidate(m) /\ m \in Blocks
      BY <1>1, <2>1, <2>2, TargetBest
    <2>4. \A b \in linked : Eligible(b)' => Eligible(b)
      BY <2>1, <2>2 DEF Eligible, Failed
    <2> QED
      BY <2>2, <2>3, <2>4, BestIsTip DEF TipBest
  <1>3. CASE ActivateBestChainStep(t)
    <2>1. PICK m \in Blocks, x \in Blocks : StepTo(t, m, x)
      BY <1>1, <1>3, StepExact
    <2>2. x = m /\ UNCHANGED <<linked, nSequenceId>>
      BY SMT, <1>1, <2>1 DEF StepTo, seqVars, TypeOK
    <2> QED
      BY <2>1, <2>2, StepTowardsBest
  <1> QED
    BY <1>2, <1>3 DEF ActivateNext

\* When no thread is in ActivateBestChain no eligible chain is better than the active one.
IdleBest == (\A t \in Threads : pindexMostWork[t] = Idle) => TipBest

\* Without shutdown requests and disk errors ActivateBestChain always goes on to the best chain.
LEMMA IdleBestStep ==
    ASSUME Sequential, Quiet, MarksStay, MarkInv, MarkInv', Complete, TargetsBest,
           IdleBest, node # "shutdown", [Next]_vars
    PROVE  IdleBest' /\ node' # "shutdown"
  <1>1. TypeOK /\ Idle # Null
    BY SMT DEF MarkInv, ActiveInv
  <1>2. ASSUME NEW t \in Threads, pindexMostWork' = [pindexMostWork EXCEPT ![t] = Null] PROVE IdleBest'
    BY <1>1, <1>2 DEF IdleBest, TypeOK
  <1>3. ASSUME UNCHANGED <<pindexMostWork, linked, nSequenceId, tip>>, Failed \subseteq Failed' PROVE IdleBest'
    BY <1>3 DEF IdleBest, TipBest, Eligible
  <1>4. ASSUME NEW t \in Threads, ActivateNext(t) PROVE IdleBest' /\ node' # "shutdown"
    <2>1. node' # "shutdown"
      <3>1. ASSUME ActivateBestChainStep(t) PROVE node' \in {node, "aborted"}
        BY <1>1, <3>1, ActivateEffect
      <3> QED
        BY <1>4, <3>1 DEF ActivateNext, ActivateNothing
    <2>2. CASE pindexMostWork'[t] = Idle
      BY <1>4, <2>1, <2>2, ReturnsBest DEF IdleBest
    <2>3. CASE pindexMostWork'[t] # Idle
      BY <2>1, <2>3 DEF IdleBest
    <2> QED
      BY <2>2, <2>3
  <1>5. ASSUME NEW t \in Threads, NEW b \in Blocks, ReceiveNext(t, b) PROVE IdleBest' /\ node' # "shutdown"
    <2>1. CASE AcceptBlockHeader(t, b) \/ RejectBlock(t, b)
      BY <1>3, <2>1 DEF AcceptBlockHeader, RejectBlock, seqVars, Failed
    <2>2. CASE StoreBlock(t, b) \/ IgnoreBlock(t, b)
      BY <1>2, <2>2 DEF StoreBlock, IgnoreBlock, EnterActivateBestChain
    <2>3. CASE RejectBlockHeader(t, b)
      <3>1. /\ UNCHANGED <<pindexMostWork, linked, nSequenceId, tip, failedValid>> /\ failedChild \subseteq failedChild'
            /\ node' \in {node, "aborted"}
        BY <2>3 DEF RejectBlockHeader, seqVars
      <3> QED
        BY <1>3, <3>1 DEF Failed
    <2> QED
      BY <1>5, <2>1, <2>2, <2>3 DEF ReceiveNext
  <1>6. ASSUME NEW t \in Threads, NEW b \in Blocks, PreciousBlock(t, b) PROVE IdleBest' /\ node' # "shutdown"
    <2>1. \/ /\ UNCHANGED <<pindexMostWork, linked, nSequenceId, tip, failedValid, failedChild>> 
             /\ UNCHANGED node
          \/ pindexMostWork' = [pindexMostWork EXCEPT ![t] = Null] /\ node' \in {node, "aborted"}
      BY <1>6 DEF PreciousBlock, EnterActivateBestChain, indexVars
    <2> QED
      BY <1>2, <1>3, <2>1 DEF Failed
  <1>7. ASSUME NEW t \in Threads, NEW b \in Blocks, InvalidateBlock(t, b) PROVE IdleBest' /\ node' # "shutdown"
    BY <1>2, <1>7 DEF InvalidateBlock, EnterActivateBestChain
  <1>8. ASSUME NEW t \in Threads, ActivateBestChain(t) PROVE IdleBest' /\ node' # "shutdown"
    BY <1>2, <1>8 DEF ActivateBestChain, EnterActivateBestChain
  <1>9. CASE UNCHANGED vars
    BY <1>3, <1>9 DEF vars, indexVars, seqVars, Failed
  <1> QED
    BY <1>4, <1>5, <1>6, <1>7, <1>8, <1>9 DEF Next, OperatorNext, FailureNext, Quiet, MarksStay

\* When the tip is the best block, the candidates are complete from the tip up.
LEMMA TipComplete ==
    ASSUME MarkInv, Complete, TipBest
    PROVE  CompleteFrom(tip)
  <1>1. PICK r \in Blocks : CompleteFrom(r)
    BY DEF Complete
  <1>2. /\ nSequenceId \in [Blocks -> Int] /\ tip \in Blocks /\ linked \subseteq Blocks /\ r \in linked
        /\ Good(tip) /\ tip \in linked
    BY <1>1 DEF MarkInv, ActiveInv, TypeOK, LinkedChain, ActiveNotFailed, ConnectedAreValid, CompleteFrom, Good
  <1>3. ~Worse(nSequenceId, tip, r)
    BY <1>1 DEF TipBest, CompleteFrom, Good, Eligible
  <1>4. \A b \in linked : ~Worse(nSequenceId, b, tip) => ~Worse(nSequenceId, b, r)
    BY <1>2, <1>3, WorseOrder
  <1>5. tip \in setBlockIndexCandidates
    BY <1>1, <1>2, <1>3 DEF CompleteFrom, Good, Failed
  <1> QED
    BY <1>1, <1>2, <1>4, <1>5 DEF CompleteFrom

\* The sequence ids that preciousblock hands out go down while the work it was last used at is
\* that of the tip: no eligible block has one below the next to be handed out, or a negative one
\* above that work.  That work is the work of a chain that can be connected.
SeqInv ==
    /\ nBlockSequenceId > 0
    /\ \A c \in linked : Eligible(c) =>
          /\ nChainWork[c] > nLastPreciousChainwork => nSequenceId[c] >= 0
          /\ nChainWork[c] >= nLastPreciousChainwork => nSequenceId[c] >= nBlockReverseSequenceId
    /\ \E g \in linked : Anc[g] \cap BadConnect = {} /\ nChainWork[g] >= nLastPreciousChainwork
    /\ failedValid \subseteq BadConnect \cup BadBlock

\* Nothing but its own contents marks a block, so a chain that connects stays eligible; the best
\* tip has at least the work at which preciousblock was last used.
LEMMA LastPreciousBelowTip ==
    ASSUME MarkInv, TipBest, SeqInv
    PROVE  nLastPreciousChainwork <= nChainWork[tip]
  <1>1. PICK g \in linked : Anc[g] \cap BadConnect = {} /\ nChainWork[g] >= nLastPreciousChainwork
    BY DEF SeqInv
  <1>2. g \in Blocks /\ tip \in Blocks /\ nLastPreciousChainwork \in Nat /\ Anc[g] \subseteq linked
    BY DEF MarkInv, ActiveInv, TypeOK, LinkedChain
  <1>3. ASSUME NEW f \in Anc[g], f \in Failed PROVE FALSE
    <2>1. PICK h \in Anc[f] : h \in failedValid
      BY <1>3 DEF MarkInv, FailedHaveCause
    <2>2. h \in Anc[g] /\ h \in BadBlock
      BY <1>1, <1>2, <2>1, ChainOfAncestor DEF SeqInv
    <2> QED
      BY <1>2, <2>2 DEF MarkInv, ActiveInv, LinkedChain, DataGood, TypeOK
  <1>4. ~Worse(nSequenceId, tip, g)
    BY <1>3 DEF TipBest, Eligible
  <1> QED
    BY SMT, <1>1, <1>2, <1>4, BlocksAssumption DEF Worse

\* preciousblock on a block of at least the tip's work, when the tip is the best block: it does not
\* make the tip worse, so the candidates stay complete, and the bounds on the ids hold again.
LEMMA PreciousStep ==
    ASSUME MarkInv, Complete, NoAssertFails, TipBest, SeqInv,
           NEW t \in Threads, NEW b \in Blocks, PreciousBlock(t, b), ~(nChainWork[b] < nChainWork[tip])
    PROVE  Complete' /\ NoAssertFails' /\ SeqInv'
  <1> DEFINE id == IF nChainWork[tip] > nLastPreciousChainwork THEN -1 ELSE nBlockReverseSequenceId
             eligible == IsValid(b, BLOCK_VALID_TRANSACTIONS) /\ b \in linked
             kept == IF eligible THEN Pruned(nSequenceId', setBlockIndexCandidates \cup {b}, tip)
                                 ELSE setBlockIndexCandidates \ {b}
  <1>1. /\ nSequenceId' = [nSequenceId EXCEPT ![b] = id]
        /\ nLastPreciousChainwork' = nChainWork[tip]
        /\ nBlockReverseSequenceId' = NextReverseId(id)
        /\ setBlockIndexCandidates' = kept
        /\ node' = IF eligible /\ kept = {} THEN "aborted" ELSE node
        /\ UNCHANGED <<validity, failedValid, failedChild, linked, nBlockSequenceId, tip>>
    BY DEF PreciousBlock, indexVars
  <1>2. /\ TypeOK /\ nSequenceId \in [Blocks -> Int] /\ tip \in Blocks /\ linked \subseteq Blocks /\ tip \in linked
        /\ nBlockReverseSequenceId \in -ReverseSequenceIds .. -1 /\ nLastPreciousChainwork \in Nat
        /\ \A c \in Blocks : nChainWork[c] \in Nat
        /\ ReverseSequenceIds \in Nat
    BY BlocksAssumption, BoundsAssumption DEF MarkInv, ActiveInv, TypeOK, LinkedChain
  <1>3. CompleteFrom(tip)
    BY TipComplete
  <1>4. nLastPreciousChainwork <= nChainWork[tip]
    BY LastPreciousBelowTip
  <1>5. id \in Int /\ id < 0 /\ NextReverseId(id) <= id /\ NextReverseId(id) < 0
    BY SMT, <1>2 DEF NextReverseId
  <1>6. \A c \in linked : Eligible(c) => nChainWork[c] <= nChainWork[tip]
    BY SMT, <1>2 DEF TipBest, Worse
  <1>7. \A c \in linked : Eligible(c) /\ nChainWork[c] = nChainWork[tip] => nSequenceId[c] >= id
    BY SMT, <1>2, <1>4 DEF SeqInv
  <1>8. nSequenceId[tip] >= id
    BY <1>2, <1>3, <1>7 DEF CompleteFrom, Good, Eligible
  <1> HIDE DEF id
  <1>9. nSequenceId' \in [Blocks -> Int] /\ \A c \in Blocks : nSequenceId'[c] = IF c = b THEN id ELSE nSequenceId[c]
    BY <1>1, <1>2, <1>5
  <1>10. \A c \in linked : c # b /\ ~Worse(nSequenceId', c, tip) => ~Worse(nSequenceId, c, tip)
    <2> SUFFICES ASSUME NEW c \in linked, c # b, Worse(nSequenceId, c, tip) PROVE Worse(nSequenceId', c, tip)
      OBVIOUS
    <2>1. nSequenceId'[c] = nSequenceId[c] /\ nSequenceId'[tip] <= nSequenceId[tip]
      BY SMT, <1>2, <1>5, <1>8, <1>9
    <2>2. c \in Blocks /\ tip \in Blocks /\ c \in Int /\ tip \in Int
      BY SMT, <1>2, BlocksAssumption
    <2> QED
      BY SMT, <1>2, <1>9, <2>1, <2>2 DEF Worse
  <1>11. \A c \in linked : Anc[c] \cap failedValid = {} => IsValid(c, BLOCK_VALID_TRANSACTIONS)
    BY DEF MarkInv, ActiveInv, LinkedChain, FailedHaveCause, IsValid, HaveData
  <1>12. Good(tip) /\ Anc[tip] \cap failedValid = {} /\ tip \in setBlockIndexCandidates
    BY <1>3 DEF CompleteFrom, Good, Failed
  <1>13. ~Worse(nSequenceId', tip, tip)
    BY <1>2, <1>9, WorseOrder
  <1>14. \A c \in linked : Anc[c] \cap failedValid = {} /\ ~Worse(nSequenceId', c, tip) => c \in kept
    <2> SUFFICES ASSUME NEW c \in linked, Anc[c] \cap failedValid = {}, ~Worse(nSequenceId', c, tip) PROVE c \in kept
      OBVIOUS
    <2>1. CASE c = b
      BY <1>11, <2>1 DEF Pruned
    <2>2. CASE c # b
      <3>1. c \in setBlockIndexCandidates
        BY <1>3, <1>10, <2>2 DEF CompleteFrom
      <3> QED
        BY <2>2, <3>1 DEF Pruned
    <2> QED
      BY <2>1, <2>2
  <1>15. tip \in kept
    BY <1>2, <1>12, <1>13, <1>14
  <1> HIDE DEF kept, eligible
  <1>16. CompleteFrom(tip)'
    BY <1>1, <1>12, <1>14, <1>15 DEF CompleteFrom, Good, Failed
  <1>17. NoAssertFails'
    BY <1>1, <1>15 DEF NoAssertFails
  <1>18. SeqInv'
    <2>1. \A c \in linked : Eligible(c)' => Eligible(c)
      BY <1>1 DEF Eligible, Failed
    <2>2. \A c \in linked : Eligible(c) =>
             /\ ~(nChainWork[c] > nChainWork[tip])
             /\ nChainWork[c] >= nChainWork[tip] => nSequenceId'[c] >= NextReverseId(id)
      <3> SUFFICES ASSUME NEW c \in linked, Eligible(c)
                   PROVE  /\ ~(nChainWork[c] > nChainWork[tip])
                          /\ nChainWork[c] >= nChainWork[tip] => nSequenceId'[c] >= NextReverseId(id)
        OBVIOUS
      <3>1. c \in Blocks /\ nChainWork[c] <= nChainWork[tip] /\ NextReverseId(id) \in Int
        BY SMT, <1>2, <1>5, <1>6 DEF NextReverseId
      <3>2. nChainWork[c] = nChainWork[tip] => nSequenceId[c] >= id
        BY <1>7
      <3> QED
        BY SMT, <1>2, <1>5, <1>9, <3>1, <3>2
    <2>3. Anc[tip] \cap BadConnect = {} /\ nChainWork[tip] >= nChainWork[tip] /\ nBlockSequenceId > 0
      BY SMT, <1>2, <1>12 DEF Good, SeqInv
    <2> QED
      BY <1>1, <1>2, <2>1, <2>2, <2>3 DEF SeqInv
  <1> QED
    BY <1>1, <1>2, <1>16, <1>17 , <1>18 DEF Complete

\* Without invalidateblock the bounds on sequence ids hold in every state.
LEMMA SeqStep ==
    ASSUME MarksStay, Sequential, "invalidateblock" \notin Calls, MarkInv, MarkInv', Complete, NoAssertFails,
           IdleBest, SeqInv, [Next]_vars
    PROVE  SeqInv'
  <1>1. TypeOK /\ LinkedChain
    BY DEF MarkInv, ActiveInv
  <1>2. ASSUME UNCHANGED <<linked, seqVars, preciousVars>>, failedValid' \subseteq failedValid \cup BadConnect \cup BadBlock,
               Failed \subseteq Failed'
        PROVE  SeqInv'
    BY <1>2 DEF SeqInv, seqVars, preciousVars, Eligible
  <1>3. ASSUME NEW t \in Threads, NEW b \in Blocks, StoreBlock(t, b) PROVE SeqInv'
    <2>1. /\ linked' = linked \cup NewlyLinked(b)
          /\ \A d \in linked : nSequenceId'[d] = nSequenceId[d]
          /\ \A d \in NewlyLinked(b) : nSequenceId'[d] >= nBlockSequenceId /\ d \in Blocks
          /\ nBlockSequenceId' >= nBlockSequenceId
          /\ UNCHANGED <<failedValid, failedChild, nBlockReverseSequenceId, nLastPreciousChainwork>>
      BY <1>1, <1>3, StoreEffect DEF preciousVars
    <2>2. /\ nBlockSequenceId \in Int /\ nBlockReverseSequenceId \in Int /\ nBlockReverseSequenceId < 0
          /\ nSequenceId' \in [Blocks -> Int] /\ nBlockSequenceId' \in Int
      BY SMT, BoundsAssumption DEF MarkInv, ActiveInv, TypeOK
    <2>3. \A d \in NewlyLinked(b) : nSequenceId'[d] >= 0 /\ nSequenceId'[d] >= nBlockReverseSequenceId
      BY SMT, <2>1, <2>2 DEF SeqInv
    <2>4. \A c \in linked : Eligible(c)' => Eligible(c)
      BY <2>1 DEF Eligible, Failed
    <2>5. nBlockSequenceId' > 0
      BY SMT, <2>1, <2>2 DEF SeqInv
    <2> QED
      BY <2>1, <2>3, <2>4, <2>5 DEF SeqInv
  <1>4. ASSUME NEW t \in Threads, NEW b \in Blocks, PreciousBlock(t, b) PROVE SeqInv'
    <2>1. CASE nChainWork[b] < nChainWork[tip]
      BY <1>2, <1>4, <2>1 DEF PreciousBlock, indexVars, seqVars, Failed
    <2>2. CASE ~(nChainWork[b] < nChainWork[tip])
      <3>1. TipBest
        BY <1>4 DEF PreciousBlock, CanCall, Sequential, IdleBest
      <3> QED
        BY <1>4, <2>2, <3>1, PreciousStep
    <2> QED
      BY <2>1, <2>2
  <1>5. ASSUME NEW t \in Threads, ActivateBestChainStep(t) PROVE SeqInv'
    <2>1. PICK m \in Blocks, x \in Blocks : StepTo(t, m, x)
      BY <1>1, <1>5, StepExact
    <2> QED
      BY <1>2, <2>1 DEF StepTo, FailedConnect, Failed
  <1>6. ASSUME NEW t \in Threads, FailActivateBestChainStep(t) PROVE SeqInv'
    <2>1. PICK m \in Blocks, x \in Blocks : FailStepTo(t, m, x)
      BY <1>1, <1>6, FailExact
    <2> QED
      BY <1>2, <2>1 DEF FailStepTo, Failed
  <1>7. ASSUME NEW t \in Threads, ActivateNothing(t) PROVE SeqInv'
    BY <1>2, <1>7 DEF ActivateNothing, Failed
  <1>8. ASSUME NEW t \in Threads, NEW b \in Blocks, RejectBlockHeader(t, b) PROVE SeqInv'
    <2>1. UNCHANGED <<linked, seqVars, preciousVars, failedValid>> /\ failedChild \subseteq failedChild'
      BY <1>8 DEF RejectBlockHeader
    <2> QED
      BY <1>2, <2>1 DEF Failed
  <1>9. ASSUME NEW t \in Threads, NEW b \in Blocks,
               AcceptBlockHeader(t, b) \/ IgnoreBlock(t, b) \/ RejectBlock(t, b) \/ FailToStoreBlock(t, b)
        PROVE  SeqInv'
    BY <1>2, <1>9 DEF AcceptBlockHeader, IgnoreBlock, RejectBlock, FailToStoreBlock, Failed
  <1>10. CASE UNCHANGED <<indexVars, seqVars, preciousVars>>
    BY <1>2, <1>10 DEF indexVars, Failed
  <1>11. ASSUME NEW t \in Threads, OperatorNext(t) PROVE SeqInv'
    BY <1>4, <1>10, <1>11 DEF OperatorNext, MarksStay, StartShutdown
  <1>12. ASSUME NEW t \in Threads, FailureNext(t) PROVE SeqInv'
    BY <1>6, <1>9, <1>12 DEF FailureNext
  <1>13. ASSUME NEW t \in Threads, ActivateBestChain(t) PROVE SeqInv'
    BY <1>10, <1>13 DEF ActivateBestChain
  <1>14. CASE UNCHANGED vars
    BY <1>10, <1>14 DEF vars
  <1> QED
    BY <1>3, <1>5, <1>7, <1>8, <1>9, <1>11, <1>12, <1>13, <1>14 DEF Next, ActivateNext, ReceiveNext

\* Calls come one at a time and take no marks away, and preciousblock is used neither together with
\* invalidateblock nor where a shutdown or an error may stop ActivateBestChain half way.
OrderlyCalls ==
    /\ Sequential /\ MarksStay
    /\ "preciousblock" \in Calls => Quiet /\ "invalidateblock" \notin Calls

\* What holds then between any two calls and steps.
BestInv ==
    /\ MarkInv /\ Complete /\ NoAssertFails /\ TargetsBest /\ NotWorse
    /\ Quiet => IdleBest /\ node # "shutdown"
    /\ "preciousblock" \in Calls => SeqInv

\* The state LoadGenesisBlock leaves: Genesis is the only linked block, and its id is positive.
LEMMA InitBest == Init => BestInv
  <1> SUFFICES ASSUME Init PROVE BestInv
    OBVIOUS
  <1>1. nSequenceId \in [Blocks -> Int] /\ ~Worse(nSequenceId, Genesis, Genesis)
    BY InitType, WorseOrder, BlocksAssumption DEF TypeOK
  <1>2. TargetsBest /\ NotWorse /\ IdleBest /\ node # "shutdown"
    BY SMT, <1>1, BlocksAssumption DEF Init, TargetsBest, NotWorse, IdleBest, TipBest
  <1>3. SeqInv
    BY SMT, BlocksAssumption, TreeAssumption DEF Init, SeqInv, BadConnect
  <1> QED
    BY <1>2, <1>3, InitComplete DEF BestInv

\* Every handler keeps it.
LEMMA BestStep ==
    ASSUME OrderlyCalls, BestInv, [Next]_vars
    PROVE  BestInv'
  <1>1. MarkInv'
    BY ActiveStep, CauseStep DEF MarkInv, ActiveInv, BestInv, OrderlyCalls
  <1>2. ASSUME NEW t \in Threads, NEW b \in Blocks, "preciousblock" \in Calls, PreciousBlock(t, b)
        PROVE  Complete' /\ NoAssertFails'
    <2>1. CASE nChainWork[b] < nChainWork[tip]
      <3>1. UNCHANGED <<linked, nSequenceId, setBlockIndexCandidates, failedValid, failedChild, node>>
        BY <1>2, <2>1 DEF PreciousBlock, indexVars
      <3> QED
        BY <3>1 DEF BestInv, Complete, CompleteFrom, Good, Failed, NoAssertFails
    <2>2. CASE ~(nChainWork[b] < nChainWork[tip])
      <3>1. TipBest
        BY <1>2 DEF PreciousBlock, CanCall, OrderlyCalls, Sequential, BestInv, IdleBest
      <3> QED
        BY <1>2, <2>2, <3>1, PreciousStep DEF BestInv
    <2> QED
      BY <2>1, <2>2
  <1>3. Complete' /\ NoAssertFails'
    BY <1>1, <1>2, CompleteStep DEF BestInv, OrderlyCalls
  <1>4. TargetsBest'
    BY <1>1, TargetsBestStep DEF BestInv, OrderlyCalls
  <1>5. NotWorse'
    BY NotWorseStep DEF BestInv
  <1>6. Quiet => IdleBest' /\ node' # "shutdown"
    BY <1>1, IdleBestStep DEF BestInv, OrderlyCalls
  <1>7. "preciousblock" \in Calls => SeqInv'
    BY <1>1, SeqStep DEF BestInv, OrderlyCalls
  <1> QED
    BY <1>1, <1>3, <1>4, <1>5, <1>6, <1>7 DEF BestInv

\* The active chain holds no marked block and neither the assert of PruneBlockIndexCandidates nor
\* that of AcceptBlockHeader fails: with any number of threads in ActivateBestChain at once and
\* shutdown requests and disk errors at any point, as long as no mark is taken away,
\* invalidateblock does not run beside another thread, and preciousblock is used where calls come
\* one at a time, nothing stops ActivateBestChain half way, and invalidateblock is not used.
THEOREM ActiveChainIsSound ==
    ASSUME MarksStay,
           "invalidateblock" \in Calls => Sequential,
           "preciousblock" \in Calls => Sequential /\ Quiet /\ "invalidateblock" \notin Calls
    PROVE  Spec => []ActiveChainSound
  <1>1. CASE "preciousblock" \notin Calls
    BY <1>1, SoundWithoutPrecious
  <1>2. CASE "preciousblock" \in Calls
    <2>1. BestInv /\ [Next]_vars => BestInv'
      BY <1>2, BestStep DEF OrderlyCalls
    <2>2. BestInv => ActiveChainSound
      BY DEF BestInv, MarkInv, ActiveInv, ActiveChainSound
    <2> QED
      BY <2>1, <2>2, InitBest, PTL DEF Spec
  <1> QED
    BY <1>1, <1>2

\* "The result is either failure or an activated best chain": when calls come one at a time,
\* ActivateBestChain that returns without having been stopped leaves no eligible chain that is
\* better than the active one, for any tree and whatever blocks turn out to be invalid on the way.
THEOREM BestChainIsActivated ==
    ASSUME OrderlyCalls
    PROVE  Spec => BestChainActivated
  <1> DEFINE A == (\E t \in Threads : ActivateNext(t)) /\ node' = "running" /\ (\A t \in Threads : pindexMostWork'[t] = Idle)
                     => \A b \in linked : Eligible(b)' => ~Worse(nSequenceId, tip', b)
  <1>1. BestInv /\ [Next]_vars => BestInv'
    BY BestStep
  <1>2. ASSUME BestInv, BestInv', [Next]_vars PROVE A
    <2> SUFFICES ASSUME NEW t \in Threads, ActivateNext(t), node' = "running", \A u \in Threads : pindexMostWork'[u] = Idle
                 PROVE  \A b \in linked : Eligible(b)' => ~Worse(nSequenceId, tip', b)
      OBVIOUS
    <2>1. node # "shutdown"
      <3>1. ASSUME ActivateBestChainStep(t) PROVE node' \in {node, "aborted"}
        BY <1>2, <3>1, ActivateEffect DEF BestInv, MarkInv, ActiveInv
      <3> QED
        BY <3>1 DEF ActivateNext, ActivateNothing
    <2>2. TipBest' /\ UNCHANGED <<linked, nSequenceId>>
      BY <1>2, <2>1, ReturnsBest DEF BestInv
    <2> QED
      BY <2>2 DEF TipBest
  <1>3. BestInv /\ BestInv' /\ [Next]_vars => [A]_vars
    BY <1>2
  <1>4. Spec => [][A]_vars
    BY <1>1, <1>3, InitBest, PTL DEF Spec
  <1> QED
    BY <1>4 DEF BestChainActivated

-----------------------------------------------------------------------------
(* The rest of CheckBlockIndex. *)

\* The parent of an indexed block is indexed.
ParentsKnown == \A b \in mapBlockIndex : pprev[b] \in mapBlockIndex

\* A block with data whose chain has a gap waits in mapBlocksUnlinked until the gap is closed: it
\* enters when it is stored, since its parent's header is there and is not marked, and leaves when
\* it is linked.
LEMMA UnlinkedStep ==
    ASSUME TypeOK, LinkedChain, MarksStay, FailedHaveCause, MarksKnown, ParentsKnown, UnlinkedChecked, [Next]_vars
    PROVE  ParentsKnown' /\ UnlinkedChecked'
  <1>1. failedValid \subseteq failedValid'
    BY CauseStep
  <1>2. ASSUME UNCHANGED <<linked, mapBlocksUnlinked>>, \A b \in Blocks : HaveData(b)' => HaveData(b) PROVE UnlinkedChecked'
    BY <1>1, <1>2 DEF UnlinkedChecked
  <1>3. CASE UNCHANGED <<validity, linked, mapBlocksUnlinked>>
    BY <1>2, <1>3 DEF ParentsKnown, mapBlockIndex, HaveData
  <1>4. ASSUME NEW b \in Blocks, AcceptsHeader(b), validity' = WithHeader(b), UNCHANGED <<linked, mapBlocksUnlinked>>
        PROVE  ParentsKnown' /\ UnlinkedChecked'
    <2>1. \A d \in Blocks : HaveData(d)' => HaveData(d)
      BY SMT, <1>4 DEF WithHeader, HaveData, TypeOK
    <2>2. mapBlockIndex' = mapBlockIndex \cup {b}
      BY SMT, <1>4 DEF WithHeader, mapBlockIndex, TypeOK
    <2>3. b = Genesis \/ b \in mapBlockIndex \/ pprev[b] \in mapBlockIndex
      BY <1>4 DEF AcceptsHeader
    <2> QED
      BY <1>2, <1>4, <2>1, <2>2, <2>3, TreeAssumption DEF ParentsKnown
  <1>5. ASSUME NEW t \in Threads, NEW b \in Blocks, StoreBlock(t, b) PROVE ParentsKnown' /\ UnlinkedChecked'
    <2>1. /\ AcceptsHeader(b) /\ validity' = [validity EXCEPT ![b] = BLOCK_VALID_TRANSACTIONS]
          /\ linked' = linked \cup NewlyLinked(b)
          /\ \A d \in Blocks \ {b} : d \notin NewlyLinked(b) => mapBlocksUnlinked'[d] = mapBlocksUnlinked[d]
      BY <1>5 DEF StoreBlock, ReceivedBlockTransactions, TypeOK
    <2>2. b \notin NewlyLinked(b) /\ Waits(b) => mapBlocksUnlinked'[b] # 0
      <3>1. \A S \in SUBSET Blocks : 1 + Cardinality(S) # 0
        BY SMT, BlockCount
      <3>2. {c \in Blocks \ {Genesis} : pprev[c] = pprev[b] /\ mapBlocksUnlinked[c] # 0} \in SUBSET Blocks
        OBVIOUS
      <3> QED
        BY <1>5, <3>1, <3>2 DEF StoreBlock, ReceivedBlockTransactions
    <2>3. ~HaveData(b) /\ b # Genesis
      <3>1. ~HaveData(b)
        BY <1>5, StoreEffect
      <3>2. Genesis \in linked
        BY TreeAssumption DEF LinkedChain, TypeOK
      <3> QED
        BY <3>1, <3>2 DEF LinkedChain
    <2>4. mapBlockIndex' = mapBlockIndex \cup {b} /\ pprev[b] \in mapBlockIndex
      BY SMT, <2>1, <2>3 DEF mapBlockIndex, AcceptsHeader, ParentsKnown, TypeOK
    <2>5. Anc[b] \cap failedValid' = {} /\ b \notin NewlyLinked(b) => Waits(b)
      <3>1. pprev[b] \in linked => b \in NewlyLinked(b)
        BY TreeAssumption DEF NewlyLinked
      <3>2. Anc[pprev[b]] \subseteq Anc[b] /\ pprev[b] \in Blocks
        BY ParentChain, ParentType
      <3>3. Anc[b] \cap failedValid' = {} => pprev[b] \notin Failed
        BY <1>1, <3>2 DEF FailedHaveCause
      <3>4. validity[pprev[b]] >= BLOCK_VALID_TREE
        BY SMT, <2>4, <3>2 DEF mapBlockIndex, TypeOK
      <3> QED
        BY <3>1, <3>3, <3>4 DEF Waits, IsValid
    <2>6. \A d \in Blocks \ {b} : HaveData(d)' => HaveData(d)
      BY <2>1 DEF HaveData, TypeOK
    <2>7. UnlinkedChecked'
      BY <1>1, <2>1, <2>2, <2>5, <2>6 DEF UnlinkedChecked
    <2> QED
      BY <2>4, <2>7 DEF ParentsKnown
  <1>6. ASSUME NEW m \in Blocks, NEW raised \in SUBSET (Connectable(m) \cup FailedConnect(m)), m \in linked,
               validity' = [b \in Blocks |-> IF b \in raised THEN BLOCK_VALID_SCRIPTS ELSE validity[b]],
               UNCHANGED <<linked, mapBlocksUnlinked>>
        PROVE  ParentsKnown' /\ UnlinkedChecked'
    <2>1. raised \subseteq Anc[m]
      BY ConnectableFacts DEF FailedConnect, OffChain
    <2>2. \A b \in raised : HaveData(b)
      BY <1>6, <2>1 DEF LinkedChain
    <2>3. \A b \in Blocks : HaveData(b)' => HaveData(b)
      BY <1>6, <2>2 DEF HaveData
    <2>4. mapBlockIndex' = mapBlockIndex
      BY SMT, <1>6, <2>2 DEF mapBlockIndex, HaveData
    <2> QED
      BY <1>2, <1>6, <2>3, <2>4 DEF ParentsKnown
  <1>7. ASSUME NEW t \in Threads, ActivateBestChainStep(t) PROVE ParentsKnown' /\ UnlinkedChecked'
    <2>1. PICK m \in Blocks :
            /\ m \in setBlockIndexCandidates \/ m = pindexMostWork[t]
            /\ \E raised \in SUBSET (Connectable(m) \cup FailedConnect(m)) :
                  validity' = [b \in Blocks |-> IF b \in raised THEN BLOCK_VALID_SCRIPTS ELSE validity[b]]
            /\ UNCHANGED <<linked, mapBlocksUnlinked>>
      BY <1>7, ActivateEffect
    <2>2. m \in linked
      BY SMT, <2>1, BlocksAssumption DEF LinkedChain
    <2> QED
      BY <1>6, <2>1, <2>2
  <1>8. ASSUME NEW t \in Threads, FailActivateBestChainStep(t) PROVE ParentsKnown' /\ UnlinkedChecked'
    <2>1. PICK m \in Blocks :
            /\ m \in setBlockIndexCandidates \/ m = pindexMostWork[t]
            /\ \E raised \in SUBSET (Connectable(m) \cup FailedConnect(m)) :
                  validity' = [b \in Blocks |-> IF b \in raised THEN BLOCK_VALID_SCRIPTS ELSE validity[b]]
            /\ UNCHANGED <<linked, mapBlocksUnlinked>>
      BY <1>8, FailEffect
    <2>2. m \in linked
      BY SMT, <2>1, BlocksAssumption DEF LinkedChain
    <2> QED
      BY <1>6, <2>1, <2>2
  <1>9. ASSUME NEW t \in Threads, NEW b \in Blocks, ReceiveNext(t, b) PROVE ParentsKnown' /\ UnlinkedChecked'
    BY <1>3, <1>4, <1>5, <1>9 DEF ReceiveNext, AcceptBlockHeader, RejectBlockHeader, IgnoreBlock, RejectBlock
  <1>10. ASSUME NEW t \in Threads, OperatorNext(t) PROVE ParentsKnown' /\ UnlinkedChecked'
    BY <1>3, <1>10 DEF OperatorNext, MarksStay, PreciousBlock, InvalidateBlock, StartShutdown, indexVars
  <1>11. ASSUME NEW t \in Threads, FailureNext(t) PROVE ParentsKnown' /\ UnlinkedChecked'
    BY <1>3, <1>4, <1>8, <1>11 DEF FailureNext, FailToStoreBlock, FailInvalidateBlock, indexVars
  <1>12. ASSUME NEW t \in Threads, ActivateBestChain(t) \/ ActivateNothing(t) PROVE ParentsKnown' /\ UnlinkedChecked'
    BY <1>3, <1>12 DEF ActivateBestChain, ActivateNothing, indexVars
  <1>13. CASE UNCHANGED vars
    BY <1>3, <1>13 DEF vars, indexVars
  <1> QED
    BY <1>7, <1>9, <1>10, <1>11, <1>12, <1>13 DEF Next, ActivateNext

\* Every block of the active chain but Genesis has been raised to BLOCK_VALID_SCRIPTS.
TipScripts == \A a \in Anc[tip] \ {Genesis} : validity[a] = BLOCK_VALID_SCRIPTS

\* The blocks of a connectable block's chain are active or connectable, and no step skips raising
\* one because of a mark.
LEMMA ConnectableChain ==
    ASSUME ActiveInv, NEW t \in Threads, NEW m \in StepTargets(t), m \in Blocks, pindexMostWork[t] # Idle
    PROVE  /\ \A y \in Connectable(m) : Anc[y] \subseteq Connectable(m) \cup Anc[tip]
           /\ Connectable(m) \cap (Failed \cup Erased(t, m)) = {}
  <1>1. TypeOK /\ ConnectedAreValid
    BY DEF ActiveInv
  <1>2. ASSUME NEW y \in Connectable(m), NEW a \in Anc[y], a \notin Anc[tip] PROVE a \in Connectable(m)
    <2>1. y \in Blocks /\ y \in Anc[m] /\ a \in Blocks /\ Anc[a] \subseteq Anc[y] /\ a \in Anc[m]
      BY <1>1, ConnectableFacts, ChainOfAncestor
    <2>2. y \in Anc[a] => y = a
      BY SMT, <2>1, AncestorWork, BlocksAssumption
    <2>3. /\ Anc[y] \cap OffChain(m) \cap BadConnect = {}
          /\ \A z \in (Anc[y] \cap OffChain(m)) \ {y} : nChainWork[z] <= nChainWork[tip]
      BY DEF Connectable
    <2>4. a \in OffChain(m)
      BY <1>2, <2>1 DEF OffChain
    <2> QED
      BY <2>1, <2>2, <2>3, <2>4 DEF Connectable
  <1>3. ASSUME NEW y \in Connectable(m), y \in Failed \cup Erased(t, m) PROVE FALSE
    <2>1. y \in Anc[m] /\ y \in Blocks /\ y \in Anc[y]
      BY <1>1, ConnectableFacts, TreeAssumption
    <2>2. PICK g \in Anc[y] : g \in Failed
      BY <1>1, <1>3, <2>1, ErasedAboveFailed
    <2>3. Anc[g] \cap BadConnect # {} /\ Anc[g] \subseteq Anc[y]
      BY <2>1, <2>2, TargetStops, ChainOfAncestor
    <2> QED
      BY <1>1, <2>3, PathValid
  <1> QED
    BY <1>2, <1>3

\* Validity is raised along the chain: a block is raised with or after all of its ancestors.
LEMMA ScriptsStep ==
    ASSUME ActiveInv, ScriptsValidChain, TipScripts, [Next]_vars
    PROVE  ScriptsValidChain' /\ TipScripts'
  <1>1. TypeOK /\ LinkedChain /\ tip \in Blocks /\ tip \in Anc[tip] /\ TypeOK'
    BY TypeStep, TreeAssumption DEF ActiveInv, TypeOK
  <1>2. ASSUME tip' \in Anc[tip], UNCHANGED validity PROVE ScriptsValidChain' /\ TipScripts'
    <2>1. Anc[tip'] \subseteq Anc[tip]
      BY <1>1, <1>2, ChainOfAncestor
    <2> QED
      BY <1>2, <2>1 DEF ScriptsValidChain, TipScripts
  <1>3. ASSUME NEW b \in Blocks, validity[b] # BLOCK_VALID_SCRIPTS, NEW v \in {BLOCK_VALID_TREE, BLOCK_VALID_TRANSACTIONS},
               validity' = [validity EXCEPT ![b] = v], UNCHANGED tip
        PROVE  ScriptsValidChain' /\ TipScripts'
    <2>1. \A d \in Blocks : validity[d] = BLOCK_VALID_SCRIPTS <=> validity'[d] = BLOCK_VALID_SCRIPTS
      BY SMT, <1>1, <1>3 DEF TypeOK
    <2>2. \A d \in Blocks : Anc[d] \subseteq Blocks
      BY BlocksAssumption
    <2> QED
      BY <1>1, <1>3, <2>1, <2>2 DEF ScriptsValidChain, TipScripts
  <1>4. ASSUME NEW b \in Blocks, validity' = WithHeader(b), UNCHANGED tip PROVE ScriptsValidChain' /\ TipScripts'
    <2>1. CASE b \in mapBlockIndex
      BY <1>1, <1>2, <1>4, <2>1 DEF WithHeader
    <2>2. CASE b \notin mapBlockIndex
      <3>1. validity[b] # BLOCK_VALID_SCRIPTS /\ validity' = [validity EXCEPT ![b] = BLOCK_VALID_TREE]
        BY SMT, <1>4, <2>2 DEF WithHeader, mapBlockIndex
      <3> QED
        BY <1>3, <1>4, <3>1
    <2> QED
      BY <2>1, <2>2
  <1>5. ASSUME NEW t \in Threads, NEW b \in Blocks, StoreBlock(t, b) PROVE ScriptsValidChain' /\ TipScripts'
    <2>1. ~HaveData(b)
      BY <1>1, <1>5, StoreEffect
    <2>2. validity[b] # BLOCK_VALID_SCRIPTS
      BY SMT, <1>1, <2>1 DEF HaveData, TypeOK
    <2>3. validity' = [validity EXCEPT ![b] = BLOCK_VALID_TRANSACTIONS] /\ UNCHANGED tip
      BY <1>5 DEF StoreBlock, ReceivedBlockTransactions
    <2> QED
      BY <1>3, <2>2, <2>3
  <1>6. ASSUME NEW raised, validity' = [b \in Blocks |-> IF b \in raised THEN BLOCK_VALID_SCRIPTS ELSE validity[b]],
               \A y \in raised : \A a \in Anc[y] : a \in raised \cup Anc[tip],
               \A a \in Anc[tip'] : a \in raised \cup Anc[tip]
        PROVE  ScriptsValidChain' /\ TipScripts'
    <2>1. \A d \in Blocks : Anc[d] \subseteq Blocks
      BY BlocksAssumption
    <2>2. \A a \in (raised \cup Anc[tip]) \ {Genesis} : a \in Blocks => validity'[a] = BLOCK_VALID_SCRIPTS
      BY <1>6 DEF TipScripts
    <2>3. TipScripts'
      BY <1>1, <1>6, <2>1, <2>2 DEF TipScripts, TypeOK
    <2>4. ScriptsValidChain'
      <3> SUFFICES ASSUME NEW d \in Blocks, validity'[d] = BLOCK_VALID_SCRIPTS, NEW a \in Anc[d] \ {Genesis}
                   PROVE  validity'[a] = BLOCK_VALID_SCRIPTS
        BY DEF ScriptsValidChain
      <3>1. a \in Blocks
        BY <2>1
      <3>2. CASE d \in raised
        BY <1>6, <2>2, <3>1, <3>2
      <3>3. CASE d \notin raised
        <4>1. validity[a] = BLOCK_VALID_SCRIPTS
          BY <1>6, <3>3 DEF ScriptsValidChain
        <4> QED
          BY <1>6, <3>1, <4>1
      <3> QED
        BY <3>2, <3>3
    <2> QED
      BY <2>3, <2>4
  <1>7. ASSUME NEW t \in Threads, ActivateBestChainStep(t) PROVE ScriptsValidChain' /\ TipScripts'
    <2>1. PICK m \in Blocks, x \in Blocks : StepTo(t, m, x)
      BY <1>1, <1>7, StepExact
    <2>2. m \in StepTargets(t) /\ pindexMostWork[t] # Idle /\ tip' = x /\ x \in Connectable(m) \cup Anc[tip]
      BY <2>1 DEF StepTo
    <2>3. /\ \A y \in Connectable(m) : Anc[y] \subseteq Connectable(m) \cup Anc[tip]
          /\ Connectable(m) \cap (Failed \cup Erased(t, m)) = {}
      BY <2>2, ConnectableChain
    <2> DEFINE raised == (Connectable(m) \cup (FailedConnect(m) \cap BadConversion)) \ (Failed \cup Erased(t, m))
    <2>4. Connectable(m) \subseteq raised /\ raised \subseteq Connectable(m) \cup FailedConnect(m)
      BY <2>3
    <2>5. validity' = [b \in Blocks |-> IF b \in raised THEN BLOCK_VALID_SCRIPTS ELSE validity[b]]
      BY <2>1 DEF StepTo
    <2> HIDE DEF raised
    <2>6. \A c \in Anc[tip] : Anc[c] \subseteq Anc[tip]
      BY <1>1, ChainOfAncestor
    <2>7. ASSUME NEW y \in FailedConnect(m) PROVE Anc[y] \subseteq {y} \cup Connectable(m) \cup Anc[tip]
      <3>1. y \in Blocks /\ y # Genesis
        BY <1>1, TreeAssumption, ConnectableFacts DEF FailedConnect, OffChain
      <3>2. pprev[y] \in Connectable(m) \cup Anc[tip] /\ Anc[y] = {y} \cup Anc[pprev[y]]
        BY <1>1, <3>1, ConnectableDown, TreeAssumption
      <3> QED
        BY <2>3, <2>6, <3>2
    <2>8. \A y \in raised : \A a \in Anc[y] : a \in raised \cup Anc[tip]
      BY <2>3, <2>4, <2>7
    <2>9. \A a \in Anc[tip'] : a \in raised \cup Anc[tip]
      BY <2>2, <2>3, <2>4, <2>6
    <2> QED
      BY <1>6, <2>5, <2>8, <2>9
  <1>8. ASSUME NEW t \in Threads, FailActivateBestChainStep(t) PROVE ScriptsValidChain' /\ TipScripts'
    <2>1. PICK m \in Blocks, x \in Blocks : FailStepTo(t, m, x)
      BY <1>1, <1>8, FailExact
    <2> DEFINE done == Connectable(m) \cap Anc[x]
    <2>2. /\ m \in StepTargets(t) /\ pindexMostWork[t] # Idle /\ tip' = x
          /\ \/ x \in Anc[tip]
             \/ \E y \in Connectable(m) \cup FailedConnect(m) : x = pprev[y]
          /\ \E raised \in {done, done \cup {y \in Connectable(m) : pprev[y] = x}} :
               validity' = [b \in Blocks |->
                  IF b \in raised \ (Failed \cup Erased(t, m)) THEN BLOCK_VALID_SCRIPTS ELSE validity[b]]
      BY <2>1 DEF FailStepTo
    <2>3. /\ \A y \in Connectable(m) : Anc[y] \subseteq Connectable(m) \cup Anc[tip]
          /\ Connectable(m) \cap (Failed \cup Erased(t, m)) = {}
      BY <2>2, ConnectableChain
    <2>4. PICK raised \in {done, done \cup {y \in Connectable(m) : pprev[y] = x}} :
             validity' = [b \in Blocks |->
                  IF b \in raised \ (Failed \cup Erased(t, m)) THEN BLOCK_VALID_SCRIPTS ELSE validity[b]]
      BY <2>2
    <2>5. raised \ (Failed \cup Erased(t, m)) = raised
      BY <2>3, <2>4
    <2>6. validity' = [b \in Blocks |-> IF b \in raised THEN BLOCK_VALID_SCRIPTS ELSE validity[b]]
      BY <2>4, <2>5
    <2>7. x \in Connectable(m) \cup Anc[tip]
      BY SMT, <1>1, <2>2, ConnectableDown
    <2>8. Anc[x] \subseteq done \cup Anc[tip]
      BY <1>1, <2>3, <2>7, ChainOfAncestor
    <2>9. ASSUME NEW y \in raised, NEW a \in Anc[y] PROVE a \in raised \cup Anc[tip]
      <3>1. y \in Blocks /\ y \in Connectable(m) /\ y # Genesis
        BY <1>1, <2>4, TreeAssumption, ConnectableFacts DEF Connectable, OffChain
      <3>2. CASE y \in done
        <4>1. a \in Anc[x]
          BY <2>9, <3>2, ChainOfAncestor
        <4> QED
          BY <2>4, <2>8, <4>1
      <3>3. CASE pprev[y] = x
        <4>1. a = y \/ a \in Anc[x]
          BY <2>9, <3>1, <3>3, TreeAssumption
        <4> QED
          BY <2>4, <2>8, <2>9, <4>1
      <3> QED
        BY <2>4, <3>2, <3>3
    <2>10. \A a \in Anc[tip'] : a \in raised \cup Anc[tip]
      BY <2>2, <2>4, <2>8
    <2> HIDE DEF done
    <2> QED
      BY <1>6, <2>6, <2>9, <2>10
  <1>9. ASSUME NEW t \in Threads, NEW b \in Blocks, ReceiveNext(t, b) PROVE ScriptsValidChain' /\ TipScripts'
    BY <1>1, <1>2, <1>4, <1>5, <1>9 DEF ReceiveNext, AcceptBlockHeader, RejectBlockHeader, IgnoreBlock, RejectBlock
  <1>10. ASSUME NEW t \in Threads, NEW b \in Blocks, InvalidateBlock(t, b) PROVE ScriptsValidChain' /\ TipScripts'
    <2>1. tip' = tip \/ (b \in Anc[tip] /\ tip' = pprev[b])
      BY <1>10 DEF InvalidateBlock
    <2>2. UNCHANGED validity
      BY <1>10 DEF InvalidateBlock
    <2>3. tip' \in Anc[tip]
      BY <1>1, <2>1, ParentChain, ChainOfAncestor
    <2> QED
      BY <1>2, <2>2, <2>3
  <1>11. ASSUME NEW t \in Threads, OperatorNext(t) PROVE ScriptsValidChain' /\ TipScripts'
    <2>1. CASE UNCHANGED <<tip, validity>>
      BY <1>1, <1>2, <2>1
    <2> QED
      BY <1>10, <1>11, <2>1 DEF OperatorNext, PreciousBlock, ReconsiderBlock, ReconsiderAllBlocks, StartShutdown, indexVars
  <1>12. ASSUME NEW t \in Threads, FailureNext(t) PROVE ScriptsValidChain' /\ TipScripts'
    BY <1>2, <1>4, <1>8, <1>12 DEF FailureNext, FailToStoreBlock, FailInvalidateBlock, indexVars
  <1>13. ASSUME NEW t \in Threads, ActivateBestChain(t) \/ ActivateNothing(t) PROVE ScriptsValidChain' /\ TipScripts'
    BY <1>1, <1>2, <1>13 DEF ActivateBestChain, ActivateNothing, indexVars
  <1>14. CASE UNCHANGED vars
    BY <1>1, <1>2, <1>14 DEF vars, indexVars
  <1> QED
    BY <1>7, <1>9, <1>11, <1>12, <1>13, <1>14 DEF Next, ActivateNext

\* What the parts of CheckBlockIndex that do not depend on the order of calls rest on.
IndexInv == MarkInv /\ ParentsKnown /\ UnlinkedChecked /\ ScriptsValidChain /\ TipScripts

\* The state LoadGenesisBlock leaves: only Genesis is indexed.
LEMMA InitIndex == Init => IndexInv
  <1>1. Init => ParentsKnown /\ UnlinkedChecked /\ ScriptsValidChain /\ TipScripts
    BY SMT, BlocksAssumption, TreeAssumption
    DEF Init, ParentsKnown, mapBlockIndex, UnlinkedChecked, HaveData, ScriptsValidChain, TipScripts
  <1> QED
    BY <1>1, InitComplete DEF IndexInv

\* Every handler keeps it, as long as no mark is taken away.
LEMMA IndexStep ==
    ASSUME MarksStay, "invalidateblock" \in Calls => Sequential, IndexInv, [Next]_vars
    PROVE  IndexInv'
  <1>1. MarkInv'
    BY ActiveStep, CauseStep DEF MarkInv, ActiveInv, IndexInv
  <1>2. ParentsKnown' /\ UnlinkedChecked'
    BY UnlinkedStep DEF IndexInv, MarkInv, ActiveInv
  <1>3. ScriptsValidChain' /\ TipScripts'
    BY ScriptsStep DEF IndexInv, MarkInv
  <1> QED
    BY <1>1, <1>2, <1>3 DEF IndexInv

\* Between calls the tip is the best eligible block, so the candidates are what the asserts of
\* CheckBlockIndex say.
LEMMA BestCandidatesChecked ==
    ASSUME Quiet, BestInv
    PROVE  CandidatesChecked
  <1> SUFFICES ASSUME \A t \in Threads : pindexMostWork[t] = Idle, NEW b \in mapBlockIndex
               PROVE  IF b \in linked /\ ~Worse(nSequenceId, b, tip)
                        THEN Anc[b] \cap failedValid = {} => b \in setBlockIndexCandidates
                        ELSE b \notin setBlockIndexCandidates
    BY DEF CandidatesChecked, CandidatesConsistent
  <1>1. CompleteFrom(tip)
    BY TipComplete DEF BestInv, IdleBest
  <1>2. setBlockIndexCandidates \subseteq linked
    BY DEF BestInv, MarkInv, ActiveInv, LinkedChain
  <1> QED
    BY <1>1, <1>2 DEF CompleteFrom, BestInv, NotWorse

\* All that CheckBlockIndex would assert holds, for any tree and any number of preciousblock calls
\* or any invalidateblock calls, when calls come one at a time, take no marks away, and no shutdown
\* or disk error stops ActivateBestChain half way.
THEOREM CheckBlockIndexPasses ==
    ASSUME OrderlyCalls, Quiet
    PROVE  Spec => []CheckBlockIndex
  <1> DEFINE Inv == BestInv /\ IndexInv
  <1>1. ASSUME Inv, [Next]_vars PROVE Inv'
    BY <1>1, BestStep, IndexStep DEF OrderlyCalls
  <1>2. ASSUME Inv PROVE CheckBlockIndex
    BY <1>2, BestCandidatesChecked DEF IndexInv, MarkInv, CheckBlockIndex
  <1>3. Init => Inv
    BY InitBest, InitIndex
  <1> QED
    BY <1>1, <1>2, <1>3, PTL DEF Spec

\* The asserts of CheckBlockIndex on marks, on mapBlocksUnlinked and on BLOCK_VALID_SCRIPTS hold in
\* every state, with any number of threads and with shutdowns and disk errors, as long as no mark is
\* taken away and invalidateblock does not run beside another thread.
THEOREM IndexChecked ==
    ASSUME MarksStay, "invalidateblock" \in Calls => Sequential
    PROVE  Spec => [](FailedHaveCause /\ UnlinkedChecked /\ ScriptsValidChain)
  <1>1. IndexInv /\ [Next]_vars => IndexInv'
    BY IndexStep
  <1>2. IndexInv => FailedHaveCause /\ UnlinkedChecked /\ ScriptsValidChain
    BY DEF IndexInv, MarkInv
  <1> QED
    BY <1>1, <1>2, InitIndex, PTL DEF Spec

-----------------------------------------------------------------------------
(* Headers on invalid chains. *)

\* A block marked BLOCK_FAILED_VALID is indexed; m_failed_blocks knows it when it did not connect;
\* and below a block raised to BLOCK_VALID_SCRIPTS without being marked all blocks connect.
HeadersInv ==
    /\ failedValid \subseteq mapBlockIndex
    /\ failedValid \subseteq m_failed_blocks \cup BadBlock
    /\ m_failed_blocks \subseteq BadConnect
    /\ \A b \in Blocks : validity[b] = BLOCK_VALID_SCRIPTS /\ b \notin failedValid => Anc[b] \cap BadConnect = {}

\* Without invalidateblock every handler keeps it.
LEMMA HeadersStep ==
    ASSUME MarksStay, "invalidateblock" \notin Calls, ActiveInv, HeadersInv, [Next]_vars
    PROVE  HeadersInv'
  <1>1. TypeOK /\ LinkedChain /\ ConnectedAreValid /\ \A b \in Blocks : b \in Anc[b] /\ Anc[b] \subseteq Blocks
    BY BlocksAssumption, TreeAssumption DEF ActiveInv
  <1>2. CASE UNCHANGED <<validity, failedValid, m_failed_blocks>>
    BY <1>2 DEF HeadersInv, mapBlockIndex
  <1>3. ASSUME NEW b \in Blocks, validity' = WithHeader(b), UNCHANGED m_failed_blocks,
               failedValid' = failedValid \/ (b \in BadBlock /\ failedValid' = failedValid \cup {b})
        PROVE  HeadersInv'
    BY SMT, <1>1, <1>3 DEF HeadersInv, mapBlockIndex, WithHeader, TypeOK
  <1>4. ASSUME NEW t \in Threads, NEW b \in Blocks, StoreBlock(t, b) PROVE HeadersInv'
    <2>1. validity' = [validity EXCEPT ![b] = BLOCK_VALID_TRANSACTIONS] /\ UNCHANGED <<failedValid, m_failed_blocks>>
      BY <1>4 DEF StoreBlock, ReceivedBlockTransactions
    <2> QED
      BY SMT, <1>1, <2>1 DEF HeadersInv, mapBlockIndex, TypeOK
  <1>5. ASSUME NEW m \in Blocks, NEW raised \in SUBSET (Connectable(m) \cup FailedConnect(m)), NEW bad \in SUBSET FailedConnect(m),
               raised \cap FailedConnect(m) \subseteq bad, m \in linked,
               validity' = [b \in Blocks |-> IF b \in raised THEN BLOCK_VALID_SCRIPTS ELSE validity[b]],
               failedValid' = failedValid \cup bad, m_failed_blocks' = m_failed_blocks \cup bad
        PROVE  HeadersInv'
    <2>1. \A b \in Connectable(m) : Anc[b] \cap BadConnect = {}
      BY <1>1, PathValid
    <2>2. FailedConnect(m) \subseteq Anc[m] /\ FailedConnect(m) \subseteq BadConnect /\ FailedConnect(m) \subseteq Blocks
      BY <1>1, ConnectableFacts DEF FailedConnect, OffChain
    <2>3. \A b \in FailedConnect(m) : validity[b] # BLOCK_VALID_UNKNOWN
      BY SMT, <1>1, <1>5, <2>2 DEF LinkedChain, HaveData
    <2>4. failedValid' \subseteq mapBlockIndex'
      BY SMT, <1>5, <2>2, <2>3 DEF HeadersInv, mapBlockIndex
    <2>5. \A b \in Blocks : validity'[b] = BLOCK_VALID_SCRIPTS /\ b \notin failedValid' => Anc[b] \cap BadConnect = {}
      BY <1>5, <2>1 DEF HeadersInv
    <2> QED
      BY <1>5, <2>2, <2>4, <2>5 DEF HeadersInv
  <1>6. ASSUME NEW t \in Threads, ActivateBestChainStep(t) PROVE HeadersInv'
    <2>1. PICK m \in Blocks, x \in Blocks : StepTo(t, m, x)
      BY <1>1, <1>6, StepExact
    <2> DEFINE raised == (Connectable(m) \cup (FailedConnect(m) \cap BadConversion)) \ (Failed \cup Erased(t, m))
    <2>2. /\ validity' = [b \in Blocks |-> IF b \in raised THEN BLOCK_VALID_SCRIPTS ELSE validity[b]]
          /\ failedValid' = failedValid \cup FailedConnect(m) /\ m_failed_blocks' = m_failed_blocks \cup FailedConnect(m)
      BY <2>1 DEF StepTo
    <2>3. m \in linked
      <3>1. m \in StepTargets(t) /\ pindexMostWork[t] # Idle
        BY <2>1 DEF StepTo
      <3>2. m \in setBlockIndexCandidates \/ m = pindexMostWork[t]
        BY <1>1, <3>1, TargetType, BlocksAssumption
      <3> QED
        BY SMT, <1>1, <3>2, BlocksAssumption DEF LinkedChain
    <2>4. raised \in SUBSET (Connectable(m) \cup FailedConnect(m))
      OBVIOUS
    <2> HIDE DEF raised
    <2> QED
      BY <1>5, <2>2, <2>3, <2>4
  <1>7. ASSUME NEW t \in Threads, FailActivateBestChainStep(t) PROVE HeadersInv'
    <2>1. PICK m \in Blocks, x \in Blocks : FailStepTo(t, m, x)
      BY <1>1, <1>7, FailExact
    <2>2. m \in linked
      <3>1. m \in StepTargets(t) /\ pindexMostWork[t] # Idle
        BY <2>1 DEF FailStepTo
      <3>2. m \in setBlockIndexCandidates \/ m = pindexMostWork[t]
        BY <1>1, <3>1, TargetType, BlocksAssumption
      <3> QED
        BY SMT, <1>1, <3>2, BlocksAssumption DEF LinkedChain
    <2>3. PICK raised \in SUBSET Connectable(m) :
             validity' = [b \in Blocks |-> IF b \in raised THEN BLOCK_VALID_SCRIPTS ELSE validity[b]]
      <3> DEFINE done == Connectable(m) \cap Anc[x]
      <3>1. PICK r \in {done, done \cup {y \in Connectable(m) : pprev[y] = x}} :
              validity' = [b \in Blocks |->
                 IF b \in r \ (Failed \cup Erased(t, m)) THEN BLOCK_VALID_SCRIPTS ELSE validity[b]]
        BY <2>1 DEF FailStepTo
      <3>2. r \ (Failed \cup Erased(t, m)) \in SUBSET Connectable(m)
        BY <3>1
      <3> QED
        BY <3>1, <3>2
    <2>4. \A b \in Connectable(m) : Anc[b] \cap BadConnect = {}
      BY <1>1, PathValid
    <2>5. UNCHANGED <<failedValid, m_failed_blocks>>
      BY <2>1 DEF FailStepTo
    <2> QED
      BY SMT, <2>3, <2>4, <2>5 DEF HeadersInv, mapBlockIndex
  <1>8. ASSUME NEW t \in Threads, NEW b \in Blocks, ReceiveNext(t, b) PROVE HeadersInv'
    BY <1>2, <1>3, <1>4, <1>8 DEF ReceiveNext, AcceptBlockHeader, RejectBlockHeader, IgnoreBlock, RejectBlock
  <1>9. ASSUME NEW t \in Threads, OperatorNext(t) PROVE HeadersInv'
    BY <1>2, <1>9 DEF OperatorNext, MarksStay, PreciousBlock, StartShutdown, indexVars
  <1>10. ASSUME NEW t \in Threads, FailureNext(t) PROVE HeadersInv'
    BY <1>2, <1>3, <1>7, <1>10 DEF FailureNext, FailToStoreBlock
  <1>11. ASSUME NEW t \in Threads, ActivateBestChain(t) \/ ActivateNothing(t) PROVE HeadersInv'
    BY <1>2, <1>11 DEF ActivateBestChain, ActivateNothing, indexVars
  <1>12. CASE UNCHANGED vars
    BY <1>2, <1>12 DEF vars, indexVars
  <1> QED
    BY <1>6, <1>8, <1>9, <1>10, <1>11, <1>12 DEF Next, ActivateNext

\* Only a header that is accepted enters mapBlockIndex.
LEMMA NewHeaderAccepted ==
    ASSUME TypeOK, LinkedChain, [Next]_vars
    PROVE  \A b \in mapBlockIndex' \ mapBlockIndex : AcceptsHeader(b)
  <1>1. ASSUME NEW b \in Blocks, AcceptsHeader(b), \A d \in Blocks \ {b} : validity'[d] = validity[d]
        PROVE  \A d \in mapBlockIndex' \ mapBlockIndex : AcceptsHeader(d)
    BY <1>1 DEF mapBlockIndex
  <1>2. CASE UNCHANGED validity
    BY <1>2 DEF mapBlockIndex
  <1>3. ASSUME NEW b \in Blocks, AcceptsHeader(b), validity' = WithHeader(b)
        PROVE  \A d \in mapBlockIndex' \ mapBlockIndex : AcceptsHeader(d)
    BY <1>1, <1>3 DEF WithHeader, TypeOK
  <1>4. ASSUME NEW t \in Threads, NEW b \in Blocks, StoreBlock(t, b)
        PROVE  \A d \in mapBlockIndex' \ mapBlockIndex : AcceptsHeader(d)
    BY <1>1, <1>4 DEF StoreBlock, ReceivedBlockTransactions, TypeOK
  <1>5. ASSUME NEW m \in Blocks, m \in linked, NEW raised \in SUBSET (Connectable(m) \cup FailedConnect(m)),
               validity' = [b \in Blocks |-> IF b \in raised THEN BLOCK_VALID_SCRIPTS ELSE validity[b]]
        PROVE  \A d \in mapBlockIndex' \ mapBlockIndex : AcceptsHeader(d)
    <2>1. raised \subseteq Anc[m]
      BY ConnectableFacts DEF FailedConnect, OffChain
    <2>2. \A b \in raised : validity[b] # BLOCK_VALID_UNKNOWN
      BY SMT, <1>5, <2>1 DEF LinkedChain, HaveData
    <2> QED
      BY <1>5, <2>2 DEF mapBlockIndex
  <1>6. ASSUME NEW t \in Threads, ActivateBestChainStep(t) \/ FailActivateBestChainStep(t)
        PROVE  \A d \in mapBlockIndex' \ mapBlockIndex : AcceptsHeader(d)
    <2>1. PICK m \in Blocks :
            /\ m \in setBlockIndexCandidates \/ m = pindexMostWork[t]
            /\ \E raised \in SUBSET (Connectable(m) \cup FailedConnect(m)) :
                  validity' = [b \in Blocks |-> IF b \in raised THEN BLOCK_VALID_SCRIPTS ELSE validity[b]]
      BY <1>6, ActivateEffect, FailEffect
    <2>2. m \in linked
      BY SMT, <2>1, BlocksAssumption DEF LinkedChain
    <2> QED
      BY <1>5, <2>1, <2>2
  <1>7. ASSUME NEW t \in Threads, NEW b \in Blocks, ReceiveNext(t, b)
        PROVE  \A d \in mapBlockIndex' \ mapBlockIndex : AcceptsHeader(d)
    BY <1>2, <1>3, <1>4, <1>7 DEF ReceiveNext, AcceptBlockHeader, RejectBlockHeader, IgnoreBlock, RejectBlock
  <1>8. ASSUME NEW t \in Threads, OperatorNext(t)
        PROVE  \A d \in mapBlockIndex' \ mapBlockIndex : AcceptsHeader(d)
    BY <1>2, <1>8 DEF OperatorNext, PreciousBlock, InvalidateBlock, ReconsiderBlock, ReconsiderAllBlocks,
                             StartShutdown, indexVars
  <1>9. ASSUME NEW t \in Threads, FailureNext(t)
        PROVE  \A d \in mapBlockIndex' \ mapBlockIndex : AcceptsHeader(d)
    BY <1>2, <1>3, <1>6, <1>9 DEF FailureNext, FailToStoreBlock, FailInvalidateBlock, indexVars
  <1>10. ASSUME NEW t \in Threads, ActivateBestChain(t) \/ ActivateNothing(t)
         PROVE  \A d \in mapBlockIndex' \ mapBlockIndex : AcceptsHeader(d)
    BY <1>2, <1>10 DEF ActivateBestChain, ActivateNothing, indexVars
  <1>11. CASE UNCHANGED vars
    BY <1>2, <1>11 DEF vars, indexVars
  <1> QED
    BY <1>6, <1>7, <1>8, <1>9, <1>10, <1>11 DEF Next, ActivateNext

\* AcceptBlockHeader lets no header in whose parent is marked or that descends, from however far
\* above, from a block ConnectBlock has marked BLOCK_FAILED_VALID.  For any tree, any blocks that
\* fail in AcceptBlock or ConnectBlock and any number of threads and errors, as long as no mark is
\* set or taken away by hand.
THEOREM NoHeaderOnInvalid ==
    ASSUME MarksStay, "invalidateblock" \notin Calls
    PROVE  Spec => NewHeadersNotOnInvalid
  <1> DEFINE Inv == ActiveInv /\ HeadersInv
             A == \A b \in mapBlockIndex' \ mapBlockIndex : Anc[b] \cap failedValid \subseteq BadBlock \ {pprev[b]}
  <1>1. ASSUME Inv, [Next]_vars PROVE Inv'
    BY <1>1, ActiveStep, HeadersStep
  <1>2. ASSUME Inv, [Next]_vars PROVE A
    <2> SUFFICES ASSUME NEW b \in mapBlockIndex' \ mapBlockIndex, NEW f \in Anc[b], f \in failedValid,
                        f \notin BadBlock \/ f = pprev[b]
                 PROVE  FALSE
      OBVIOUS
    <2>1. /\ AcceptsHeader(b) /\ b \in Blocks /\ b \notin mapBlockIndex /\ f \in mapBlockIndex /\ f # b
          /\ Genesis \in mapBlockIndex
      <3>1. Genesis \in linked
        BY <1>2, TreeAssumption DEF ActiveInv, LinkedChain, TypeOK
      <3>2. Genesis \in mapBlockIndex
        BY SMT, <1>2, <3>1, BlocksAssumption DEF ActiveInv, LinkedChain, HaveData, mapBlockIndex
      <3> QED
        BY <1>2, <3>2, NewHeaderAccepted DEF ActiveInv, mapBlockIndex, HeadersInv
    <2>2. /\ pprev[b] \in mapBlockIndex \ Failed /\ FailedAncestors(pprev[b]) = {} /\ f \in Anc[pprev[b]]
          /\ pprev[b] \in Blocks
      BY SMT, <2>1, TreeAssumption, ParentType DEF AcceptsHeader
    <2>3. f \in m_failed_blocks /\ f \in BadConnect
      <3>1. f # pprev[b]
        BY <2>2 DEF Failed
      <3> QED
        BY <1>2, <3>1 DEF HeadersInv
    <2>4. IsValid(pprev[b], BLOCK_VALID_SCRIPTS)
      BY <2>2, <2>3 DEF FailedAncestors
    <2>5. validity[pprev[b]] = BLOCK_VALID_SCRIPTS /\ pprev[b] \notin failedValid
      BY SMT, <1>2, <2>2, <2>4 DEF IsValid, ActiveInv, TypeOK, Failed
    <2> QED
      BY <1>2, <2>2, <2>3, <2>5 DEF HeadersInv
  <1>3. Init => Inv
    BY SMT, InitActive DEF Init, HeadersInv
  <1>4. Inv /\ [Next]_vars => [A]_vars
    BY <1>2
  <1>5. Inv /\ [Next]_vars => Inv'
    BY <1>1
  <1>6. Spec => [][A]_vars
    BY <1>3, <1>4, <1>5, PTL DEF Spec
  <1> QED
    BY <1>6 DEF NewHeadersNotOnInvalid

=============================================================================
