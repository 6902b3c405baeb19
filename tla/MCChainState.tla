---------------------------- MODULE MCChainState ----------------------------
(* Block trees on which TLC checks ChainState.  Block 0 is the genesis block. *)
EXTENDS ChainState, Sequences

\* 0 - 1 - 2 and 0 - 3: a chain and a single competitor.
Comb == <<0, 1, 0>>

\* 0 - 1 - 2 and 1 - 3: two blocks on the same parent.
Fork == <<0, 1, 1>>

\* 0 - 1 - 2 - 3: no competition.
Chain == <<0, 1, 2>>

\* 0 - 1 - 3 and 0 - 2 - 4: two branches of equal length.
Branches == <<0, 0, 1, 2>>

\* 0 - 1 - 3 and 0 - 2 - 4 - 5: a longer branch can overtake while the shorter one is activated.
Race == <<0, 0, 1, 2, 4>>

\* 0 - 1 - 3 and 0 - 2 - 4 - 5 - 6 - 7: either branch can overtake the other, and there is room for
\* headers far above a block that fails.
Rivals == <<0, 0, 1, 2, 4, 5, 6>>

ParentIn(tree) == [b \in 0..Len(tree) |-> IF b = 0 THEN 0 ELSE tree[b]]

AncestorsIn(tree) ==
    LET up[b \in 0..Len(tree)] == IF b = 0 THEN {0} ELSE {b} \cup up[tree[b]] IN up

HeightIn(tree) == [b \in 0..Len(tree) |-> Cardinality(AncestorsIn(tree)[b]) - 1]

CombParent == ParentIn(Comb)
CombAnc == AncestorsIn(Comb)
CombHeight == HeightIn(Comb)
ForkParent == ParentIn(Fork)
ForkAnc == AncestorsIn(Fork)
ForkHeight == HeightIn(Fork)
ChainParent == ParentIn(Chain)
ChainAnc == AncestorsIn(Chain)
ChainHeight == HeightIn(Chain)
BranchesParent == ParentIn(Branches)
BranchesAnc == AncestorsIn(Branches)
BranchesHeight == HeightIn(Branches)
RaceParent == ParentIn(Race)
RaceAnc == AncestorsIn(Race)
RaceHeight == HeightIn(Race)
RivalsParent == ParentIn(Rivals)
RivalsAnc == AncestorsIn(Rivals)
RivalsHeight == HeightIn(Rivals)

==============================================================================
