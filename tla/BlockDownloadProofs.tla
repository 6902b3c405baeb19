------------------------ MODULE BlockDownloadProofs ------------------------
(***************************************************************************)
(* Why what a node records about downloads is true, for any tree of        *)
(* blocks, any peers and any limits: mapBlocksInFlight, the queues of the  *)
(* peers and the counters agree, every block in flight has been asked for, *)
(* who is accused of stalling owes a block, and no block is skipped.       *)
(*                                                                         *)
(* Zenon is the default prover; a leaf that needs SMT cites it.            *)
(***************************************************************************)
EXTENDS BlockDownload, FiniteSetTheorems, WellFoundedInduction, TLAPS

USE ZenonT(60)

-----------------------------------------------------------------------------
(* Blocks by height. *)

\* Chains are finite, and a block belongs to its own.
LEMMA ChainOf ==
    ASSUME NEW b \in Blocks
    PROVE  /\ b \in Upto[b] /\ Genesis \in Upto[b] /\ Upto[b] \subseteq Blocks
           /\ IsFiniteSet(Upto[b]) /\ Cardinality(Upto[b]) \in Nat
           /\ Height[b] = Cardinality(Upto[b]) - 1
           /\ \A a \in Upto[b] : Upto[a] \subseteq Upto[b]
  <1>1. Upto[b] \in SUBSET Blocks /\ b \in Upto[b] /\ Genesis \in Upto[b]
    BY SMT, TreeAssumption
  <1>2. IsFiniteSet(Upto[b]) /\ Cardinality(Upto[b]) \in Nat
    BY <1>1, TreeAssumption, FS_Subset, FS_CardinalityType
  <1> QED BY <1>1, <1>2, TreeAssumption DEF Height

\* Heights are natural numbers.
LEMMA HeightType == Height \in [Blocks -> Nat]
  <1>1. ASSUME NEW b \in Blocks PROVE Height[b] \in Nat
    <2>1. IsFiniteSet({Genesis}) /\ Cardinality({Genesis}) = 1 /\ {Genesis} \in SUBSET Upto[b]
      BY ChainOf, FS_Singleton
    <2>2. Cardinality({Genesis}) <= Cardinality(Upto[b])
      BY <2>1, ChainOf, FS_Subset
    <2> QED BY SMT, <2>1, <2>2, ChainOf
  <1> QED BY <1>1 DEF Height

\* A block is higher than those below it.
LEMMA BelowIsLower ==
    ASSUME NEW b \in Blocks, NEW a \in Upto[b], a # b
    PROVE  Height[a] < Height[b]
  <1>1. a \in Blocks /\ Upto[a] \in SUBSET Upto[b] /\ Upto[a] # Upto[b]
    <2>1. b # Genesis /\ a \in Upto[Parent[b]] /\ b \notin Upto[Parent[b]] /\ Parent[b] \in Blocks
      BY SMT, TreeAssumption
    <2>2. b \notin Upto[a]
      BY <2>1, ChainOf
    <2> QED BY <2>2, ChainOf
  <1>2. Cardinality(Upto[a]) <= Cardinality(Upto[b]) /\ Cardinality(Upto[a]) # Cardinality(Upto[b])
    BY <1>1, ChainOf, FS_Subset
  <1> QED BY SMT, <1>1, <1>2, ChainOf

\* Two blocks of a chain have different heights.
LEMMA HeightsDiffer ==
    ASSUME NEW b \in Blocks, NEW a \in Upto[b], NEW c \in Upto[b], a # c
    PROVE  Height[a] < Height[c] \/ Height[c] < Height[a]
  <1>1. a \in Blocks /\ c \in Blocks
    BY ChainOf
  <1> QED BY <1>1, TreeAssumption, BelowIsLower

\* A set of blocks has a lowest one.
LEMMA LowestExists ==
    ASSUME NEW S \in SUBSET Blocks, S # {}
    PROVE  Lowest(S) \in S /\ \A c \in S : Height[Lowest(S)] <= Height[c]
  <1> DEFINE H == {Height[b] : b \in S}
  <1>1. H \in SUBSET Nat /\ H # {}
    BY HeightType
  <1>2. PICK h \in H : \A k \in H : ~(<<k, h>> \in OpToRel(<, Nat))
    BY <1>1, NatLessThanWellFounded, WFMin
  <1>3. PICK b \in S : h = Height[b]
    BY <1>2
  <1>4. ASSUME NEW c \in S PROVE Height[b] <= Height[c]
    <2>1. Height[c] \in Nat /\ Height[b] \in Nat /\ Height[c] \in H
      BY HeightType
    <2>2. ~(Height[c] < Height[b])
      BY <1>2, <1>3, <2>1 DEF OpToRel
    <2> QED BY SMT, <2>1, <2>2
  <1> QED BY <1>4 DEF Lowest

\* A set of blocks has a highest one: one for which the least number of blocks are higher.
LEMMA HighestExists ==
    ASSUME NEW S \in SUBSET Blocks, S # {}
    PROVE  Highest(S) \in S /\ \A c \in S : Height[c] <= Height[Highest(S)]
  <1> DEFINE Over(b) == {c \in S : Height[b] < Height[c]}
             N == {Cardinality(Over(b)) : b \in S}
  <1>1. IsFiniteSet(S) /\ \A b \in S : Height[b] \in Nat
    BY TreeAssumption, FS_Subset, HeightType
  <1>2. ASSUME NEW b \in S PROVE Over(b) \in SUBSET S /\ IsFiniteSet(Over(b)) /\ Cardinality(Over(b)) \in Nat
    <2>1. Over(b) \in SUBSET S
      OBVIOUS
    <2> QED BY <1>1, <2>1, FS_Subset, FS_CardinalityType
  <1>3. N \in SUBSET Nat /\ N # {}
    BY <1>2
  <1>4. PICK n \in N : \A k \in N : ~(<<k, n>> \in OpToRel(<, Nat))
    BY <1>3, NatLessThanWellFounded, WFMin
  <1>5. PICK b \in S : n = Cardinality(Over(b))
    BY <1>4
  <1>6. ASSUME NEW c \in S PROVE Height[c] <= Height[b]
    <2> SUFFICES ASSUME Height[b] < Height[c] PROVE FALSE
      BY SMT, <1>1
    <2>1. Over(c) \in SUBSET Over(b) /\ Over(c) # Over(b)
      <3>1. c \in Over(b) /\ c \notin Over(c)
        BY SMT, <1>1
      <3>2. \A x \in S : Height[c] < Height[x] => Height[b] < Height[x]
        BY SMT, <1>1
      <3> QED BY <3>1, <3>2
    <2>2. Cardinality(Over(c)) <= Cardinality(Over(b)) /\ Cardinality(Over(c)) # Cardinality(Over(b))
      BY <1>2, <2>1, FS_Subset
    <2>3. Cardinality(Over(c)) < Cardinality(Over(b))
      <3> HIDE DEF Over
      <3> QED BY SMT, <1>2, <2>2
    <2> QED BY <1>2, <1>4, <1>5, <2>3 DEF OpToRel
  <1> QED BY <1>6 DEF Highest

\* Blocks of one chain can be put in the order of their heights: a block at the place that is the
\* number of blocks not above it.
LEMMA AscendingExists ==
    ASSUME NEW b \in Blocks, NEW S \in SUBSET Upto[b]
    PROVE  /\ Cardinality(S) \in Nat
           /\ Ascending(S) \in [1..Cardinality(S) -> S]
           /\ \A i, j \in 1..Cardinality(S) : i < j => Height[Ascending(S)[i]] < Height[Ascending(S)[j]]
  <1> DEFINE n == Cardinality(S)
             Under(x) == {y \in S : Height[y] <= Height[x]}
             rank == [x \in S |-> Cardinality(Under(x))]
  <1>1. IsFiniteSet(S) /\ n \in Nat /\ S \subseteq Blocks /\ \A x \in S : Height[x] \in Nat
    BY ChainOf, FS_Subset, FS_CardinalityType, HeightType
  <1>2. ASSUME NEW x \in S
        PROVE  /\ Under(x) \in SUBSET S /\ IsFiniteSet(Under(x)) /\ x \in Under(x)
               /\ Cardinality(Under(x)) \in 1..n
    <2>1. Under(x) \in SUBSET S
      OBVIOUS
    <2>2. IsFiniteSet(Under(x)) /\ Cardinality(Under(x)) \in Nat /\ Cardinality(Under(x)) <= n
      BY <1>1, <2>1, FS_Subset, FS_CardinalityType
    <2>3. x \in Under(x)
      BY SMT, <1>1
    <2>4. Cardinality(Under(x)) # 0
      BY <2>2, <2>3, FS_EmptySet
    <2>5. Cardinality(Under(x)) \in 1..n
      <3> HIDE DEF Under, n
      <3> QED BY SMT, <1>1, <2>2, <2>4
    <2> QED BY <2>1, <2>2, <2>3, <2>5
  <1>3. ASSUME NEW x \in S, NEW y \in S, Height[x] < Height[y] PROVE rank[x] < rank[y]
    <2>1. Under(x) \in SUBSET Under(y) /\ y \notin Under(x)
      BY SMT, <1>1, <1>3
    <2>2. Cardinality(Under(x)) <= Cardinality(Under(y)) /\ Cardinality(Under(x)) # Cardinality(Under(y))
      BY <1>2, <2>1, FS_Subset
    <2> HIDE DEF Under, n
    <2>3. Cardinality(Under(x)) < Cardinality(Under(y))
      BY SMT, <1>1, <1>2, <2>2
    <2> QED BY <2>3
  <1>4. ASSUME NEW x \in S, NEW y \in S, x # y PROVE rank[x] # rank[y]
    <2>1. rank[x] \in Nat /\ rank[y] \in Nat
      <3>1. rank[x] \in 1..n /\ rank[y] \in 1..n
        BY <1>2
      <3> HIDE DEF rank, n
      <3> QED BY SMT, <3>1, <1>1
    <2>2. rank[x] < rank[y] \/ rank[y] < rank[x]
      BY <1>3, <1>4, HeightsDiffer
    <2> HIDE DEF rank
    <2> QED BY SMT, <2>1, <2>2
  <1>5. rank \in Injection(S, 1..n)
    <2>1. rank \in [S -> 1..n]
      BY <1>2
    <2>2. \A x, y \in S : rank[x] = rank[y] => x = y
      BY <1>4
    <2> HIDE DEF rank, n
    <2> QED BY SMT, <2>1, <2>2 DEF Injection, IsInjective
  <1>6. IsFiniteSet(1..n) /\ Cardinality(1..n) = n
    <2>1. 1 \in Int /\ n \in Int
      <3> HIDE DEF n
      <3> QED BY SMT, <1>1
    <2>2. IsFiniteSet(1..n) /\ Cardinality(1..n) = IF 1 > n THEN 0 ELSE n - 1 + 1
      BY <2>1, FS_Interval
    <2> HIDE DEF n
    <2> QED BY SMT, <1>1, <2>2
  <1>7. rank \in Surjection(S, 1..n)
    BY <1>5, <1>6, FS_Injection
  <1>8. \A k \in 1..n : \E x \in S : rank[x] = k
    BY <1>7 DEF Surjection
  <1> DEFINE s == [k \in 1..n |-> CHOOSE x \in S : rank[x] = k]
  <1>9. \A k \in 1..n : s[k] \in S /\ rank[s[k]] = k
    BY <1>8
  <1>10. s \in [1..n -> S]
    BY <1>9
  <1>11. ASSUME NEW i \in 1..n, NEW j \in 1..n, i < j PROVE Height[s[i]] < Height[s[j]]
    <2>1. rank[s[i]] = i /\ rank[s[j]] = j /\ s[i] \in S /\ s[j] \in S
      BY <1>9
    <2> HIDE DEF rank, s, n
    <2>2. i \in Int /\ j \in Int
      BY SMT, <1>1
    <2>3. s[i] # s[j] /\ ~(rank[s[j]] < rank[s[i]])
      BY SMT, <1>11, <2>1, <2>2
    <2> QED BY <1>3, <2>1, <2>3, HeightsDiffer
  <1>12. \E t \in [1..n -> S] : \A i, j \in DOMAIN t : i < j => Height[t[i]] < Height[t[j]]
    <2> HIDE DEF rank, s, n
    <2> WITNESS s \in [1..n -> S]
    <2> QED BY <1>10, <1>11
  <1>13. /\ Ascending(S) \in [1..n -> S]
         /\ \A i, j \in DOMAIN Ascending(S) : i < j => Height[Ascending(S)[i]] < Height[Ascending(S)[j]]
    BY <1>12 DEF Ascending
  <1> QED BY <1>1, <1>13

\* The first k of them are different blocks of the set.
LEMMA FirstOf ==
    ASSUME NEW b \in Blocks, NEW S \in SUBSET Upto[b], NEW k \in 0..Cardinality(S)
    PROVE  LET s == SubSeq(Ascending(S), 1, k)
           IN  /\ s \in Seq(S) /\ Len(s) = k
               /\ \A i, j \in 1..Len(s) : s[i] = s[j] => i = j
  <1> DEFINE t == Ascending(S)
             s == SubSeq(t, 1, k)
             n == Cardinality(S)
  <1>1. n \in Nat /\ t \in [1..n -> S] /\ \A i, j \in 1..n : i < j => Height[t[i]] < Height[t[j]]
    BY AscendingExists
  <1>2. \A x \in S : Height[x] \in Nat
    BY ChainOf, HeightType
  <1> HIDE DEF t, n
  <1>3. t \in Seq(S) /\ Len(t) = n
    BY SMT, <1>1
  <1>4. s \in Seq(S) /\ Len(s) = k /\ \A i \in 1..k : s[i] = t[i] /\ i \in 1..n
    BY SMT, <1>1, <1>3 DEF n
  <1>5. ASSUME NEW i \in 1..Len(s), NEW j \in 1..Len(s), s[i] = s[j] PROVE i = j
    <2> SUFFICES ASSUME i # j PROVE FALSE
      OBVIOUS
    <2>1. t[i] \in S /\ t[j] \in S /\ t[i] = t[j] /\ i \in 1..n /\ j \in 1..n
      BY <1>1, <1>4, <1>5
    <2>2. CASE i < j
      BY SMT, <1>1, <1>2, <2>1, <2>2
    <2>3. CASE j < i
      BY SMT, <1>1, <1>2, <2>1, <2>3
    <2> QED BY SMT, <1>1, <2>1, <2>2, <2>3
  <1> QED BY <1>4, <1>5 DEF t

-----------------------------------------------------------------------------
(* What the node records: mapNodeState, mapBlocksInFlight and the counters. *)

Books ==
    [peer : [Peers -> CNodeStates \cup {None, Left}], inFlight : [Blocks -> Peers \cup {None}],
     nPreferredDownload : Int, nPeersWithValidatedDownloads : Int, nSyncStarted : Int]

Known(d) == {p \in Peers : d.peer[p] \in CNodeStates}

Busy(d) == {p \in Known(d) : d.peer[p].vBlocksInFlight # <<>>}
Preferred(d) == {p \in Known(d) : d.peer[p].fPreferredDownload}
Syncing(d) == {p \in Known(d) : d.peer[p].fSyncStarted}

CountsOK(d) ==
    /\ d.nPeersWithValidatedDownloads = Cardinality(Busy(d))
    /\ d.nPreferredDownload = Cardinality(Preferred(d))
    /\ d.nSyncStarted = Cardinality(Syncing(d))

In(v, b) == \E i \in 1..Len(v) : v[i] = b

\* The elements of a sequence are those at its positions.
LEMMA InRange ==
    ASSUME NEW S, NEW v \in Seq(S)
    PROVE  \A b : b \in Range(v) <=> In(v, b)
  <1>1. DOMAIN v = 1..Len(v)
    BY SMT
  <1> QED BY <1>1 DEF Range, In

Once(v) == \A i, j \in 1..Len(v) : v[i] = v[j] => i = j

\* The queue of a peer holds each block in flight from it once.
QueueOK(d, p, s) ==
    /\ s.nBlocksInFlight = Len(s.vBlocksInFlight)
    /\ s.nBlocksInFlight <= MAX_BLOCKS_IN_TRANSIT_PER_PEER
    /\ \A b \in Blocks : d.inFlight[b] = p <=> In(s.vBlocksInFlight, b)
    /\ Once(s.vBlocksInFlight)
    /\ s.nStallingSince # None => s.vBlocksInFlight # <<>>
    /\ s.fPreferredDownload => s.connected

QueuesOK(d) ==
    /\ \A b \in Blocks : d.inFlight[b] # None => d.inFlight[b] \in Known(d)
    /\ \A p \in Known(d) : QueueOK(d, p, d.peer[p])

BookOK(d) == d \in Books /\ QueuesOK(d) /\ CountsOK(d)

Has(S, p) == IF p \in S THEN 1 ELSE 0

\* How a count changes when one element may come or go.
LEMMA OneChanged ==
    ASSUME NEW A, IsFiniteSet(A), NEW B, NEW p, \A q : q # p => (q \in A <=> q \in B)
    PROVE  /\ Cardinality(A) \in Nat
           /\ Cardinality(B) = Cardinality(A) + Has(B, p) - Has(A, p)
  <1>1. Cardinality(A) \in Nat
    BY FS_CardinalityType
  <1>2. CASE p \in B /\ p \notin A
    <2>1. B = A \cup {p}
      BY <1>2
    <2> QED BY SMT, <1>1, <1>2, <2>1, FS_AddElement DEF Has
  <1>3. CASE p \notin B /\ p \in A
    <2>1. B = A \ {p}
      BY <1>3
    <2> QED BY SMT, <1>1, <1>3, <2>1, FS_RemoveElement DEF Has
  <1>4. CASE p \in B <=> p \in A
    <2>1. \A q : q \in A <=> q \in B
      BY <1>4
    <2>2. B = A
      BY SMT, <2>1
    <2> QED BY SMT, <1>1, <1>4, <2>2 DEF Has
  <1> QED BY <1>2, <1>3, <1>4

\* The parts of a book.
LEMMA BookParts ==
    ASSUME NEW d \in Books
    PROVE  /\ d.peer \in [Peers -> CNodeStates \cup {None, Left}]
           /\ d.inFlight \in [Blocks -> Peers \cup {None}]
           /\ d.nPreferredDownload \in Int /\ d.nPeersWithValidatedDownloads \in Int /\ d.nSyncStarted \in Int
           /\ Known(d) \subseteq Peers
           /\ \A p \in Peers : p \in Known(d) <=> d.peer[p] \notin {None, Left}
           /\ IsFiniteSet(Busy(d)) /\ IsFiniteSet(Preferred(d)) /\ IsFiniteSet(Syncing(d))
  <1>1. /\ d.peer \in [Peers -> CNodeStates \cup {None, Left}]
        /\ d.inFlight \in [Blocks -> Peers \cup {None}]
        /\ d.nPreferredDownload \in Int /\ d.nPeersWithValidatedDownloads \in Int /\ d.nSyncStarted \in Int
    BY SMT DEF Books
  <1>2. Busy(d) \in SUBSET Peers /\ Preferred(d) \in SUBSET Peers /\ Syncing(d) \in SUBSET Peers
    BY DEF Busy, Preferred, Syncing, Known
  <1>3. IsFiniteSet(Busy(d)) /\ IsFiniteSet(Preferred(d)) /\ IsFiniteSet(Syncing(d))
    BY <1>2, PeersAssumption, FS_Subset
  <1> QED BY <1>1, <1>3, StatesAssumption DEF Known

\* How the counts change when the state of one peer does.
LEMMA CountStep ==
    ASSUME NEW d \in Books, NEW e \in Books, NEW p \in Peers, \A q \in Peers : q # p => e.peer[q] = d.peer[q]
    PROVE  /\ \A q \in Peers : q # p => (q \in Known(e) <=> q \in Known(d))
           /\ Cardinality(Busy(e)) = Cardinality(Busy(d))
                  + Has(Busy(e), p) - Has(Busy(d), p)
           /\ Cardinality(Preferred(e)) = Cardinality(Preferred(d))
                  + Has(Preferred(e), p) - Has(Preferred(d), p)
           /\ Cardinality(Syncing(e)) = Cardinality(Syncing(d))
                  + Has(Syncing(e), p) - Has(Syncing(d), p)
           /\ Cardinality(Busy(d)) \in Nat /\ Cardinality(Preferred(d)) \in Nat /\ Cardinality(Syncing(d)) \in Nat
  <1>1. \A q \in Peers : q # p => (q \in Known(e) <=> q \in Known(d))
    BY DEF Known
  <1>2. ASSUME NEW q, q # p
        PROVE  /\ q \in Busy(d) <=> q \in Busy(e) 
               /\ q \in Preferred(d) <=> q \in Preferred(e)
               /\ q \in Syncing(d) <=> q \in Syncing(e)
    BY <1>2 DEF Known, Busy, Preferred, Syncing
  <1>3. IsFiniteSet(Busy(d)) /\ IsFiniteSet(Preferred(d)) /\ IsFiniteSet(Syncing(d))
    BY BookParts
  <1>4. /\ Cardinality(Busy(d)) \in Nat
        /\ Cardinality(Busy(e)) = Cardinality(Busy(d))
              + Has(Busy(e), p) - Has(Busy(d), p)
    BY <1>2, <1>3, OneChanged
  <1>5. /\ Cardinality(Preferred(d)) \in Nat
        /\ Cardinality(Preferred(e)) = Cardinality(Preferred(d))
              + Has(Preferred(e), p) - Has(Preferred(d), p)
    BY <1>2, <1>3, OneChanged
  <1>6. /\ Cardinality(Syncing(d)) \in Nat
        /\ Cardinality(Syncing(e)) = Cardinality(Syncing(d))
              + Has(Syncing(e), p) - Has(Syncing(d), p)
    BY <1>2, <1>3, OneChanged
  <1> QED BY <1>1, <1>4, <1>5, <1>6

\* The state s is as good for the books as the state r of the same peer.
Alike(s, r) ==
    /\ s.vBlocksInFlight = r.vBlocksInFlight /\ s.nBlocksInFlight = r.nBlocksInFlight
    /\ s.fPreferredDownload = r.fPreferredDownload /\ s.fSyncStarted = r.fSyncStarted
    /\ s.connected = r.connected
    /\ s.nStallingSince # None => r.nStallingSince # None \/ r.vBlocksInFlight # <<>>

\* Ages, flags and what is known of a peer's chain do not matter for the books.
LEMMA SameBook ==
    ASSUME NEW d, BookOK(d), NEW e \in Books, e.inFlight = d.inFlight,
           e.nPreferredDownload = d.nPreferredDownload, e.nSyncStarted = d.nSyncStarted,
           e.nPeersWithValidatedDownloads = d.nPeersWithValidatedDownloads,
           Known(e) = Known(d), \A q \in Known(d) : Alike(e.peer[q], d.peer[q])
    PROVE  BookOK(e)
  <1>1. Busy(e) = Busy(d) /\ Preferred(e) = Preferred(d) /\ Syncing(e) = Syncing(d)
    BY DEF Busy, Preferred, Syncing, Alike
  <1>2. CountsOK(e)
    BY <1>1 DEF BookOK, CountsOK
  <1>3. ASSUME NEW q \in Known(d) PROVE QueueOK(e, q, e.peer[q])
    BY SMT DEF BookOK, QueuesOK, QueueOK, Alike
  <1> QED BY <1>2, <1>3 DEF BookOK, QueuesOK

With(d, p, s) == [d EXCEPT !.peer[p] = s]

\* A book in which the state of a peer that is known is replaced.
LEMMA Replaced ==
    ASSUME NEW d \in Books, NEW p \in Known(d), NEW s \in CNodeStates
    PROVE  LET e == With(d, p, s)
           IN  /\ e \in Books /\ e.inFlight = d.inFlight
               /\ e.nPreferredDownload = d.nPreferredDownload /\ e.nSyncStarted = d.nSyncStarted
               /\ e.nPeersWithValidatedDownloads = d.nPeersWithValidatedDownloads
               /\ Known(e) = Known(d) /\ e.peer[p] = s /\ \A q \in Peers : q # p => e.peer[q] = d.peer[q]
  <1> DEFINE e == With(d, p, s)
  <1>1. /\ e \in Books /\ e.peer = [d.peer EXCEPT ![p] = s] /\ e.inFlight = d.inFlight
        /\ e.nPreferredDownload = d.nPreferredDownload /\ e.nSyncStarted = d.nSyncStarted
        /\ e.nPeersWithValidatedDownloads = d.nPeersWithValidatedDownloads
    BY SMT DEF Books, Known, With
  <1>2. p \in Peers /\ d.peer \in [Peers -> CNodeStates \cup {None, Left}]
    BY BookParts
  <1> HIDE DEF e
  <1>3. e.peer[p] = s /\ \A q \in Peers : q # p => e.peer[q] = d.peer[q]
    BY <1>1, <1>2
  <1>4. Known(e) = Known(d)
    BY <1>2, <1>3 DEF Known
  <1> QED BY <1>1, <1>3, <1>4 DEF e

\* The same with a state that is alike.
LEMMA ReplacedAlike ==
    ASSUME NEW d, BookOK(d), NEW p \in Known(d), NEW s \in CNodeStates, Alike(s, d.peer[p])
    PROVE  BookOK(With(d, p, s))
  <1> DEFINE e == With(d, p, s)
  <1>1. d \in Books
    BY DEF BookOK
  <1>2. /\ e \in Books /\ e.inFlight = d.inFlight
        /\ e.nPreferredDownload = d.nPreferredDownload /\ e.nSyncStarted = d.nSyncStarted
        /\ e.nPeersWithValidatedDownloads = d.nPeersWithValidatedDownloads
        /\ Known(e) = Known(d) /\ e.peer[p] = s /\ \A q \in Peers : q # p => e.peer[q] = d.peer[q]
    BY <1>1, Replaced
  <1>3. Known(d) \subseteq Peers
    BY DEF Known
  <1> HIDE DEF e
  <1>4. \A q \in Known(d) : Alike(e.peer[q], d.peer[q])
    BY <1>2, <1>3 DEF Alike
  <1> QED BY <1>2, <1>4, SameBook DEF e

-----------------------------------------------------------------------------
(* Queues. *)

\* Other blocks are added to a queue.
LEMMA Joined ==
    ASSUME NEW v \in Seq(Blocks), NEW w \in Seq(Blocks), Once(v), Once(w), \A b \in Blocks : ~(In(v, b) /\ In(w, b))
    PROVE  /\ v \o w \in Seq(Blocks) /\ Len(v \o w) = Len(v) + Len(w) /\ Once(v \o w)
           /\ \A b : In(v \o w, b) <=> In(v, b) \/ In(w, b)
  <1> DEFINE u == v \o w
             n == Len(v)
             m == Len(w)
  <1>1. /\ u \in Seq(Blocks) /\ n \in Nat /\ m \in Nat /\ Len(u) = n + m
        /\ \A i \in 1..n : u[i] = v[i] /\ v[i] \in Blocks
        /\ \A i \in 1..m : u[n + i] = w[i] /\ w[i] \in Blocks
    BY SMT
  <1> HIDE DEF u, n, m
  <1>2. \A i \in 1..Len(u) : i \in 1..n \/ \E k \in 1..m : i = n + k
    <2> SUFFICES ASSUME NEW i \in 1..Len(u), i \notin 1..n PROVE \E k \in 1..m : i = n + k
      OBVIOUS
    <2>1. i - n \in 1..m /\ i = n + (i - n)
      BY SMT, <1>1
    <2> QED BY <2>1
  <1>3. ASSUME NEW b PROVE In(u, b) <=> In(v, b) \/ In(w, b)
    <2>1. ASSUME NEW i \in 1..n PROVE i \in 1..Len(u)
      BY SMT, <1>1
    <2>2. ASSUME NEW i \in 1..m PROVE n + i \in 1..Len(u)
      BY SMT, <1>1
    <2> QED BY <1>1, <1>2, <2>1, <2>2 DEF In, n, m
  <1>4. ASSUME NEW i \in 1..Len(u), NEW j \in 1..Len(u), u[i] = u[j] PROVE i = j
    <2>1. CASE i \in 1..n /\ j \in 1..n
      BY <1>1, <1>4, <2>1 DEF Once, n
    <2>2. ASSUME NEW k \in 1..m, NEW l \in 1..m, i = n + k, j = n + l PROVE i = j
      <3>1. w[k] = w[l]
        BY <1>1, <1>4, <2>2
      <3>2. k = l
        BY <3>1 DEF Once, m
      <3> QED BY <2>2, <3>2
    <2>3. ASSUME NEW k \in 1..n, NEW l \in 1..m, u[k] = u[n + l] PROVE FALSE
      BY <1>1, <2>3 DEF In, n, m
    <2> QED BY <1>2, <1>4, <2>1, <2>2, <2>3
  <1> QED BY <1>1, <1>3, <1>4 DEF Once, u, n, m

\* One block is taken out of a queue.
LEMMA TakenOut ==
    ASSUME NEW v \in Seq(Blocks), Once(v), NEW k \in 1..Len(v)
    PROVE  LET w == Erase(v, k)
           IN  /\ w \in Seq(Blocks) /\ Len(w) = Len(v) - 1 /\ Once(w)
               /\ \A b : In(w, b) <=> In(v, b) /\ b # v[k]
  <1> DEFINE w == Erase(v, k)
             n == Len(v)
             from(i) == IF i < k THEN i ELSE i + 1
  <1>1. /\ n \in Nat /\ k \in Nat /\ w \in Seq(Blocks) /\ Len(w) = n - 1
        /\ \A i \in 1..n-1 : w[i] = v[from(i)]
    <2> DEFINE a == SubSeq(v, 1, k - 1)
               c == SubSeq(v, k + 1, n)
    <2>1. n \in Nat /\ k \in Nat /\ k >= 1 /\ k <= n
      BY SMT
    <2>2. a \in Seq(Blocks) /\ Len(a) = k - 1 /\ \A i \in 1..k-1 : a[i] = v[i]
      BY SMT, <2>1
    <2>3. c \in Seq(Blocks) /\ Len(c) = n - k /\ \A i \in 1..n-k : c[i] = v[k + i]
      BY SMT, <2>1
    <2>4. w = a \o c
      BY DEF Erase
    <2> HIDE DEF a, c, w, n
    <2>5. /\ w \in Seq(Blocks) /\ Len(w) = n - 1
          /\ \A i \in 1..n-1 : w[i] = IF i <= k - 1 THEN a[i] ELSE c[i - (k - 1)]
      BY SMT, <2>1, <2>2, <2>3, <2>4
    <2>6. ASSUME NEW i \in 1..n-1 PROVE w[i] = v[from(i)]
      <3>1. CASE i < k
        <4>1. i \in 1..k-1 /\ i <= k - 1
          BY SMT, <2>1, <3>1
        <4> QED BY SMT, <2>2, <2>5, <3>1, <4>1
      <3>2. CASE ~(i < k)
        <4>1. i - (k - 1) \in 1..n-k /\ ~(i <= k - 1) /\ k + (i - (k - 1)) = i + 1
          BY SMT, <2>1, <3>2
        <4> QED BY SMT, <2>3, <2>5, <3>2, <4>1
      <3> QED BY <3>1, <3>2
    <2> QED BY <2>1, <2>5, <2>6
  <1>2. \A i \in 1..n-1 : from(i) \in 1..n /\ from(i) # k
    BY SMT, <1>1
  <1>3. \A i, j \in 1..n-1 : from(i) = from(j) => i = j
    BY SMT, <1>1
  <1>4. \A j \in 1..n : j # k => \E i \in 1..n-1 : from(i) = j
    <2> SUFFICES ASSUME NEW j \in 1..n, j # k PROVE \E i \in 1..n-1 : from(i) = j
      OBVIOUS
    <2>1. CASE j < k
      <3>1. j \in 1..n-1 /\ from(j) = j
        BY SMT, <1>1, <2>1
      <3> QED BY <3>1
    <2>2. CASE ~(j < k)
      <3>1. j - 1 \in 1..n-1 /\ from(j - 1) = j
        BY SMT, <1>1, <2>2
      <3> QED BY <3>1
    <2> QED BY <2>1, <2>2
  <1> HIDE DEF w, n, from
  <1>5. Once(w)
    <2> SUFFICES ASSUME NEW i \in 1..n-1, NEW j \in 1..n-1, w[i] = w[j] PROVE i = j
      BY <1>1 DEF Once
    <2>1. v[from(i)] = v[from(j)] /\ from(i) \in 1..n /\ from(j) \in 1..n
      BY <1>1, <1>2
    <2>2. from(i) = from(j)
      BY <2>1 DEF Once, n
    <2> QED BY <1>3, <2>2
  <1>6. ASSUME NEW b PROVE In(w, b) <=> In(v, b) /\ b # v[k]
    <2>1. ASSUME NEW i \in 1..n-1, w[i] = b PROVE In(v, b) /\ b # v[k]
      BY <1>1, <1>2, <2>1 DEF Once, In, n
    <2>2. ASSUME NEW j \in 1..n, v[j] = b, b # v[k] PROVE In(w, b)
      BY <1>1, <1>4, <2>2 DEF In
    <2> QED BY <1>1, <2>1, <2>2 DEF In, n
  <1> QED BY <1>1, <1>5, <1>6 DEF w, n

\* Blocks p can be asked for: different ones that are not in flight, and not too many.
Askable(d, p, blocks) ==
    /\ blocks \in Seq(Blocks) /\ Once(blocks)
    /\ \A b \in Blocks : In(blocks, b) => d.inFlight[b] = None
    /\ d.peer[p].nBlocksInFlight + Len(blocks) <= MAX_BLOCKS_IN_TRANSIT_PER_PEER

\* What MarkBlockAsInFlight, called for each of the blocks, does to the books.
LEMMA MarkEffect ==
    ASSUME NEW d \in Books, NEW p \in Known(d), NEW blocks \in Seq(Blocks)
    PROVE  LET e == MarkBlocksAsInFlight(d, p, blocks)
               s == d.peer[p]
           IN  /\ e \in Books /\ Known(e) = Known(d)
               /\ \A b \in Blocks : e.inFlight[b] = IF In(blocks, b) THEN p ELSE d.inFlight[b]
               /\ e.nPreferredDownload = d.nPreferredDownload /\ e.nSyncStarted = d.nSyncStarted
               /\ e.nPeersWithValidatedDownloads =
                      IF s.nBlocksInFlight = 0 /\ blocks # <<>> THEN d.nPeersWithValidatedDownloads + 1
                      ELSE d.nPeersWithValidatedDownloads
               /\ \A q \in Peers : q # p => e.peer[q] = d.peer[q]
               /\ e.peer[p].vBlocksInFlight = s.vBlocksInFlight \o blocks
               /\ e.peer[p].nBlocksInFlight = s.nBlocksInFlight + Len(blocks)
               /\ e.peer[p].nStallingSince = s.nStallingSince
               /\ e.peer[p].fPreferredDownload = s.fPreferredDownload
               /\ e.peer[p].fSyncStarted = s.fSyncStarted /\ e.peer[p].connected = s.connected
               /\ e.peer[p].lastCommon = s.lastCommon
  <1> DEFINE e == MarkBlocksAsInFlight(d, p, blocks)
             s == d.peer[p]
             more == s.nBlocksInFlight = 0 /\ blocks # <<>>
             n == IF more THEN d.nPeersWithValidatedDownloads + 1 ELSE d.nPeersWithValidatedDownloads
             since == IF more THEN 0 ELSE s.nDownloadingSince
             r == [s EXCEPT !.vBlocksInFlight = s.vBlocksInFlight \o blocks,
                            !.nBlocksInFlight = s.nBlocksInFlight + Len(blocks), !.nDownloadingSince = since]
             fl == [b \in Blocks |-> IF b \in Range(blocks) THEN p ELSE d.inFlight[b]]
  <1>1. s \in CNodeStates /\ p \in Peers
    BY DEF Known
  <1>2. s.vBlocksInFlight \in Seq(Blocks) /\ s.nBlocksInFlight \in Int /\ s.nDownloadingSince \in Nat
    BY SMT, <1>1 DEF CNodeStates
  <1>3. s.vBlocksInFlight \o blocks \in Seq(Blocks) /\ s.nBlocksInFlight + Len(blocks) \in Int /\ since \in Nat
    BY SMT, <1>2
  <1>4. r \in CNodeStates
    <2> HIDE DEF since
    <2> QED BY <1>1, <1>3 DEF CNodeStates
  <1>5. /\ r.vBlocksInFlight = s.vBlocksInFlight \o blocks
        /\ r.nBlocksInFlight = s.nBlocksInFlight + Len(blocks)
        /\ r.nStallingSince = s.nStallingSince
        /\ r.fPreferredDownload = s.fPreferredDownload
        /\ r.fSyncStarted = s.fSyncStarted /\ r.connected = s.connected
        /\ r.lastCommon = s.lastCommon
    <2> HIDE DEF since
    <2> QED BY SMT, <1>1 DEF CNodeStates
  <1>6. d.peer \in [Peers -> CNodeStates \cup {None, Left}] /\ d.inFlight \in [Blocks -> Peers \cup {None}]
        /\ d.nPeersWithValidatedDownloads \in Int
    BY BookParts
  <1>7. fl \in [Blocks -> Peers \cup {None}] /\ n \in Int
    BY SMT, <1>1, <1>6
  <1>8. e = [d EXCEPT !.inFlight = fl, !.nPeersWithValidatedDownloads = n, !.peer = [d.peer EXCEPT ![p] = r]]
    <2> DEFINE q == [s EXCEPT !.vBlocksInFlight = s.vBlocksInFlight \o blocks,
                              !.nBlocksInFlight = s.nBlocksInFlight + Len(blocks)]
               m == [d EXCEPT !.inFlight = fl, !.nPeersWithValidatedDownloads = n, !.peer = [d.peer EXCEPT ![p] = q]]
    <2>1. MarkInFlightSince(d, p, blocks) = m
      BY <1>1, <1>6 DEF MarkInFlightSince, Books
    <2>2. e = [MarkInFlightSince(d, p, blocks) EXCEPT !.peer[p].nDownloadingSince = IF more THEN 0 ELSE @]
      BY DEF MarkBlocksAsInFlight
    <2>3. r = [q EXCEPT !.nDownloadingSince = IF more THEN 0 ELSE q.nDownloadingSince]
      BY <1>1 DEF CNodeStates
    <2> HIDE DEF q, fl, n, r, more
    <2>4. e = [m EXCEPT !.peer[p].nDownloadingSince = IF more THEN 0 ELSE @]
      BY <2>1, <2>2
    <2> QED BY <1>1, <1>6, <2>3, <2>4 DEF Books
  <1> HIDE DEF e, r, fl, n
  <1>9. /\ e \in Books /\ e.inFlight = fl /\ e.nPeersWithValidatedDownloads = n
        /\ e.peer = [d.peer EXCEPT ![p] = r]
        /\ e.nPreferredDownload = d.nPreferredDownload /\ e.nSyncStarted = d.nSyncStarted
    <2>1. [d.peer EXCEPT ![p] = r] \in [Peers -> CNodeStates \cup {None, Left}]
      BY <1>4, <1>6
    <2> QED BY <1>7, <1>8, <2>1 DEF Books
  <1>10. e.peer[p] = r /\ \A q \in Peers : q # p => e.peer[q] = d.peer[q]
    BY <1>1, <1>6, <1>9
  <1>11. Known(e) = Known(d)
    BY <1>1, <1>4, <1>10 DEF Known
  <1>12. \A b \in Blocks : e.inFlight[b] = IF In(blocks, b) THEN p ELSE d.inFlight[b]
    BY SMT, <1>9 DEF fl, In, Range
  <1> QED BY <1>5, <1>9, <1>10, <1>11, <1>12 DEF e, n

\* A queue is empty when its length is zero.
LEMMA EmptyQueue == \A v \in Seq(Blocks) : Len(v) \in Nat /\ (v = <<>> <=> Len(v) = 0)
  BY SMT

\* Asking for blocks keeps the books right.
LEMMA MarkedBook ==
    ASSUME NEW d, BookOK(d), NEW p \in Known(d), NEW blocks, Askable(d, p, blocks)
    PROVE  BookOK(MarkBlocksAsInFlight(d, p, blocks))
  <1> DEFINE e == MarkBlocksAsInFlight(d, p, blocks)
             s == d.peer[p]
             r == e.peer[p]
             v == s.vBlocksInFlight
  <1>1. d \in Books /\ p \in Peers /\ s \in CNodeStates /\ blocks \in Seq(Blocks) /\ QueueOK(d, p, s)
        /\ Known(d) \subseteq Peers
    BY DEF BookOK, QueuesOK, Known, Askable
  <1>2. /\ e \in Books /\ Known(e) = Known(d)
        /\ \A b \in Blocks : e.inFlight[b] = IF In(blocks, b) THEN p ELSE d.inFlight[b]
        /\ e.nPreferredDownload = d.nPreferredDownload /\ e.nSyncStarted = d.nSyncStarted
        /\ e.nPeersWithValidatedDownloads =
               IF s.nBlocksInFlight = 0 /\ blocks # <<>> THEN d.nPeersWithValidatedDownloads + 1
               ELSE d.nPeersWithValidatedDownloads
        /\ \A q \in Peers : q # p => e.peer[q] = d.peer[q]
    BY <1>1, MarkEffect
  <1>3. /\ r.vBlocksInFlight = v \o blocks
        /\ r.nBlocksInFlight = s.nBlocksInFlight + Len(blocks)
        /\ r.nStallingSince = s.nStallingSince
        /\ r.fPreferredDownload = s.fPreferredDownload
        /\ r.fSyncStarted = s.fSyncStarted /\ r.connected = s.connected
    BY <1>1, MarkEffect
  <1> HIDE DEF e, r
  <1>4. v \in Seq(Blocks) /\ s.nBlocksInFlight = Len(v)
    BY <1>1 DEF CNodeStates, QueueOK
  <1>5. None \notin Peers /\ p # None
    BY <1>1, PeersAssumption
  <1>6. \A b \in Blocks : ~(In(v, b) /\ In(blocks, b))
    BY <1>1, <1>5 DEF QueueOK, Askable
  <1>7. /\ v \o blocks \in Seq(Blocks) /\ Len(v \o blocks) = Len(v) + Len(blocks) /\ Once(v \o blocks)
        /\ \A b : In(v \o blocks, b) <=> In(v, b) \/ In(blocks, b)
    BY <1>1, <1>4, <1>6, Joined DEF QueueOK, Askable
  <1>8. v \o blocks = <<>> <=> v = <<>> /\ blocks = <<>>
    BY SMT, <1>1, <1>4, <1>7, EmptyQueue
  <1>9. QueueOK(e, p, r)
    <2>1. r.nBlocksInFlight = Len(r.vBlocksInFlight) /\ r.nBlocksInFlight <= MAX_BLOCKS_IN_TRANSIT_PER_PEER
      BY <1>1, <1>3, <1>4, <1>7 DEF Askable
    <2>2. \A b \in Blocks : e.inFlight[b] = p <=> In(r.vBlocksInFlight, b)
      BY <1>1, <1>2, <1>3, <1>7 DEF QueueOK
    <2>3. r.nStallingSince # None => r.vBlocksInFlight # <<>>
      BY <1>1, <1>3, <1>8 DEF QueueOK
    <2> QED BY <1>1, <1>3, <1>7, <2>1, <2>2, <2>3 DEF QueueOK
  <1>10. ASSUME NEW q \in Known(d), q # p PROVE QueueOK(e, q, e.peer[q])
    <2>1. e.peer[q] = d.peer[q] /\ q # None /\ QueueOK(d, q, d.peer[q])
      BY <1>1, <1>2, <1>5, <1>10 DEF BookOK, QueuesOK
    <2>2. \A b \in Blocks : e.inFlight[b] = q <=> d.inFlight[b] = q
      BY <1>2, <1>10, <2>1 DEF Askable
    <2> QED BY <2>1, <2>2 DEF QueueOK
  <1>11. QueuesOK(e)
    <2>1. \A b \in Blocks : e.inFlight[b] # None => e.inFlight[b] \in Known(e)
      BY <1>2 DEF BookOK, QueuesOK
    <2>2. \A q \in Known(e) : QueueOK(e, q, e.peer[q])
      BY <1>2, <1>9, <1>10 DEF r
    <2> QED BY <2>1, <2>2 DEF QueuesOK
  <1>12. CountsOK(e)
    <2>1. /\ Cardinality(Busy(e)) = Cardinality(Busy(d)) + Has(Busy(e), p) - Has(Busy(d), p)
          /\ Cardinality(Busy(d)) \in Nat
      BY <1>1, <1>2, CountStep
    <2>2. Preferred(e) = Preferred(d) /\ Syncing(e) = Syncing(d)
      BY <1>1, <1>2, <1>3 DEF Preferred, Syncing, r
    <2>3. p \in Busy(d) <=> v # <<>>
      BY DEF Busy
    <2>4. p \in Busy(e) <=> ~(v = <<>> /\ blocks = <<>>)
      BY <1>2, <1>3, <1>8 DEF Busy, r
    <2>5. s.nBlocksInFlight = 0 <=> v = <<>>
      BY <1>4, EmptyQueue
    <2>6. d.nPeersWithValidatedDownloads = Cardinality(Busy(d))
      BY DEF BookOK, CountsOK
    <2>7. e.nPeersWithValidatedDownloads = Cardinality(Busy(e))
      BY SMT, <1>2, <2>1, <2>3, <2>4, <2>5, <2>6 DEF Has
    <2> QED BY <1>2, <2>2, <2>7 DEF BookOK, CountsOK
  <1> QED BY <1>2, <1>11, <1>12 DEF BookOK, e

\* The state of a peer, and the books, after the block b from p has arrived.
Taken(s, b) ==
    [s EXCEPT !.vBlocksInFlight = Erase(@, CHOOSE i \in DOMAIN @ : @[i] = b),
              !.nBlocksInFlight = @ - 1,
              !.nDownloadingSince = IF Head(s.vBlocksInFlight) = b THEN 0 ELSE @,
              !.nStallingSince = None]

TakenFrom(d, b, p) ==
    [d EXCEPT !.inFlight[b] = None,
              !.nPeersWithValidatedDownloads = IF d.peer[p].nBlocksInFlight = 1 THEN @ - 1 ELSE @,
              !.peer[p] = Taken(d.peer[p], b)]

\* What the arrival of a block does to the state of the peer it was asked from.
LEMMA TakenState ==
    ASSUME NEW s \in CNodeStates, NEW b \in Blocks, Once(s.vBlocksInFlight), In(s.vBlocksInFlight, b)
    PROVE  LET r == Taken(s, b)
           IN  /\ r \in CNodeStates /\ Len(r.vBlocksInFlight) = Len(s.vBlocksInFlight) - 1
               /\ Once(r.vBlocksInFlight)
               /\ \A a \in Blocks : In(r.vBlocksInFlight, a) <=> In(s.vBlocksInFlight, a) /\ a # b
               /\ r.nBlocksInFlight = s.nBlocksInFlight - 1 /\ r.nStallingSince = None
               /\ r.fPreferredDownload = s.fPreferredDownload /\ r.connected = s.connected
               /\ r.fSyncStarted = s.fSyncStarted /\ r.lastCommon = s.lastCommon
  <1> DEFINE v == s.vBlocksInFlight
             w == Erase(v, CHOOSE i \in DOMAIN v : v[i] = b)
             since == IF Head(v) = b THEN 0 ELSE s.nDownloadingSince
             r == Taken(s, b)
  <1>1. v \in Seq(Blocks) /\ s.nBlocksInFlight \in Int /\ s.nDownloadingSince \in Nat
    BY DEF CNodeStates
  <1>2. w \in Seq(Blocks) /\ Len(w) = Len(v) - 1 /\ Once(w) /\ \A a : In(w, a) <=> In(v, a) /\ a # b
    <2> DEFINE k == CHOOSE i \in DOMAIN v : v[i] = b
    <2>1. DOMAIN v = 1..Len(v)
      BY SMT, <1>1
    <2>2. k \in 1..Len(v) /\ v[k] = b
      BY <2>1 DEF In
    <2> HIDE DEF k
    <2>3. /\ Erase(v, k) \in Seq(Blocks) /\ Len(Erase(v, k)) = Len(v) - 1 /\ Once(Erase(v, k))
          /\ \A a : In(Erase(v, k), a) <=> In(v, a) /\ a # v[k]
      BY <1>1, <2>2, TakenOut
    <2> QED BY <2>2, <2>3 DEF k
  <1>3. s.nBlocksInFlight - 1 \in Int /\ since \in Nat
    BY SMT, <1>1
  <1>4. r = [s EXCEPT !.vBlocksInFlight = w, !.nBlocksInFlight = s.nBlocksInFlight - 1,
                      !.nDownloadingSince = since, !.nStallingSince = None]
    BY DEF Taken
  <1> HIDE DEF w, since, r
  <1>5. r \in CNodeStates
    BY <1>2, <1>3, <1>4 DEF CNodeStates
  <1>6. /\ r.vBlocksInFlight = w /\ r.nBlocksInFlight = s.nBlocksInFlight - 1 /\ r.nStallingSince = None
        /\ r.fPreferredDownload = s.fPreferredDownload /\ r.connected = s.connected
        /\ r.fSyncStarted = s.fSyncStarted /\ r.lastCommon = s.lastCommon
    BY <1>4 DEF CNodeStates
  <1> QED BY <1>2, <1>5, <1>6 DEF r

\* What it does to the books.
LEMMA TakenEffect ==
    ASSUME NEW d \in Books, NEW b \in Blocks, NEW p \in Known(d), Taken(d.peer[p], b) \in CNodeStates
    PROVE  LET e == TakenFrom(d, b, p)
           IN  /\ e \in Books /\ Known(e) = Known(d)
               /\ e.inFlight[b] = None /\ \A a \in Blocks : a # b => e.inFlight[a] = d.inFlight[a]
               /\ e.nPreferredDownload = d.nPreferredDownload /\ e.nSyncStarted = d.nSyncStarted
               /\ d.peer[p].nBlocksInFlight = 1 =>
                      e.nPeersWithValidatedDownloads = d.nPeersWithValidatedDownloads - 1
               /\ d.peer[p].nBlocksInFlight # 1 =>
                      e.nPeersWithValidatedDownloads = d.nPeersWithValidatedDownloads
               /\ e.peer[p] = Taken(d.peer[p], b) /\ \A q \in Peers : q # p => e.peer[q] = d.peer[q]
  <1> DEFINE e == TakenFrom(d, b, p)
             r == Taken(d.peer[p], b)
             n == IF d.peer[p].nBlocksInFlight = 1 THEN d.nPeersWithValidatedDownloads - 1
                  ELSE d.nPeersWithValidatedDownloads
             fl == [d.inFlight EXCEPT ![b] = None]
             g == [d.peer EXCEPT ![p] = r]
  <1>1. /\ d.peer \in [Peers -> CNodeStates \cup {None, Left}] /\ d.inFlight \in [Blocks -> Peers \cup {None}]
        /\ d.nPeersWithValidatedDownloads \in Int /\ p \in Peers
    BY BookParts
  <1>2. n \in Int
    BY SMT, <1>1
  <1>3. e = [d EXCEPT !.inFlight[b] = None, !.nPeersWithValidatedDownloads = n, !.peer[p] = r]
    BY DEF TakenFrom
  <1> HIDE DEF r, n, e
  <1>4. fl \in [Blocks -> Peers \cup {None}] /\ g \in [Peers -> CNodeStates \cup {None, Left}]
    BY <1>1 DEF r
  <1>5. e = [d EXCEPT !.inFlight = fl, !.nPeersWithValidatedDownloads = n, !.peer = g]
    BY <1>1, <1>3 DEF Books
  <1>6. g[p] = r /\ \A q \in Peers : q # p => g[q] = d.peer[q]
    BY <1>1
  <1>7. fl[b] = None /\ \A a \in Blocks : a # b => fl[a] = d.inFlight[a]
    BY <1>1
  <1> HIDE DEF fl, g
  <1>8. /\ e \in Books /\ e.inFlight = fl /\ e.nPeersWithValidatedDownloads = n /\ e.peer = g
        /\ e.nPreferredDownload = d.nPreferredDownload /\ e.nSyncStarted = d.nSyncStarted
    BY <1>2, <1>4, <1>5 DEF Books
  <1>9. Known(e) = Known(d)
    BY <1>1, <1>6, <1>8 DEF Known, r
  <1> QED BY <1>6, <1>7, <1>8, <1>9 DEF e, n, r

\* It keeps the books right.
LEMMA TakenBook ==
    ASSUME NEW d, BookOK(d), NEW b \in Blocks, NEW p \in Known(d), In(d.peer[p].vBlocksInFlight, b)
    PROVE  LET e == TakenFrom(d, b, p)
           IN  /\ BookOK(e) /\ Known(e) = Known(d)
               /\ e.inFlight[b] = None /\ \A a \in Blocks : a # b => e.inFlight[a] = d.inFlight[a]
               /\ \A q \in Known(d) : e.peer[q].lastCommon = d.peer[q].lastCommon
  <1> DEFINE e == TakenFrom(d, b, p)
             s == d.peer[p]
             r == Taken(s, b)
             v == s.vBlocksInFlight
             w == r.vBlocksInFlight
  <1>1. /\ d \in Books /\ p \in Peers /\ s \in CNodeStates /\ QueueOK(d, p, s) /\ Known(d) \subseteq Peers
        /\ None \notin Peers
    BY PeersAssumption DEF BookOK, QueuesOK, Known
  <1>2. v \in Seq(Blocks) /\ s.nBlocksInFlight = Len(v) /\ Len(v) <= MAX_BLOCKS_IN_TRANSIT_PER_PEER /\ Once(v)
    BY <1>1 DEF CNodeStates, QueueOK
  <1>3. /\ r \in CNodeStates /\ Len(w) = Len(v) - 1 /\ Once(w)
        /\ \A a \in Blocks : In(w, a) <=> In(v, a) /\ a # b
        /\ r.nBlocksInFlight = s.nBlocksInFlight - 1 /\ r.nStallingSince = None
        /\ r.fPreferredDownload = s.fPreferredDownload /\ r.connected = s.connected
        /\ r.fSyncStarted = s.fSyncStarted /\ r.lastCommon = s.lastCommon
    BY <1>1, <1>2, TakenState
  <1>4. /\ e \in Books /\ Known(e) = Known(d)
        /\ e.inFlight[b] = None /\ \A a \in Blocks : a # b => e.inFlight[a] = d.inFlight[a]
        /\ e.nPreferredDownload = d.nPreferredDownload /\ e.nSyncStarted = d.nSyncStarted
        /\ s.nBlocksInFlight = 1 => e.nPeersWithValidatedDownloads = d.nPeersWithValidatedDownloads - 1
        /\ s.nBlocksInFlight # 1 => e.nPeersWithValidatedDownloads = d.nPeersWithValidatedDownloads
        /\ e.peer[p] = r /\ \A q \in Peers : q # p => e.peer[q] = d.peer[q]
    BY <1>1, <1>3, TakenEffect
  <1> HIDE DEF e, r
  <1>5. w \in Seq(Blocks)
    BY <1>3 DEF CNodeStates
  <1>6. d.inFlight[b] = p /\ p # None
    BY <1>1 DEF QueueOK
  <1>7. QueueOK(e, p, r)
    <2>1. Len(v) \in Nat /\ MAX_BLOCKS_IN_TRANSIT_PER_PEER \in Nat
      BY <1>2, EmptyQueue, LimitsAssumption
    <2>2. r.nBlocksInFlight = Len(w)
      BY <1>2, <1>3
    <2>3. Len(w) = Len(v) - 1
      BY <1>3
    <2>4. r.nBlocksInFlight <= MAX_BLOCKS_IN_TRANSIT_PER_PEER
      BY SMT, <1>2, <2>1, <2>2, <2>3
    <2>5. \A a \in Blocks : e.inFlight[a] = p <=> In(w, a)
      BY SMT, <1>1, <1>3, <1>4, <1>6 DEF QueueOK
    <2> QED BY <1>1, <1>3, <2>2, <2>4, <2>5 DEF QueueOK
  <1>8. ASSUME NEW q \in Known(d), q # p PROVE QueueOK(e, q, e.peer[q])
    <2>1. e.peer[q] = d.peer[q] /\ q # None /\ QueueOK(d, q, d.peer[q])
      BY <1>1, <1>4, <1>8 DEF BookOK, QueuesOK
    <2>2. \A a \in Blocks : e.inFlight[a] = q <=> d.inFlight[a] = q
      BY <1>4, <1>6, <1>8, <2>1
    <2> QED BY <2>1, <2>2 DEF QueueOK
  <1>9. QueuesOK(e)
    <2>1. \A a \in Blocks : e.inFlight[a] # None => e.inFlight[a] \in Known(e)
      BY <1>4 DEF BookOK, QueuesOK
    <2>2. \A q \in Known(e) : QueueOK(e, q, e.peer[q])
      BY <1>4, <1>7, <1>8
    <2> QED BY <2>1, <2>2 DEF QueuesOK
  <1>10. CountsOK(e)
    <2>1. d \in Books /\ e \in Books /\ p \in Peers /\ \A q \in Peers : q # p => e.peer[q] = d.peer[q]
      BY <1>1, <1>4
    <2>2. /\ Cardinality(Busy(e)) = Cardinality(Busy(d)) + Has(Busy(e), p) - Has(Busy(d), p)
          /\ Cardinality(Busy(d)) \in Nat
      BY <2>1, CountStep
    <2>3. ASSUME NEW q \in Known(d)
          PROVE  /\ e.peer[q].fPreferredDownload = d.peer[q].fPreferredDownload
                 /\ e.peer[q].fSyncStarted = d.peer[q].fSyncStarted
      <3>1. CASE q = p
        BY <1>3, <1>4, <3>1
      <3>2. CASE q # p
        BY <1>1, <2>1, <3>2
      <3> QED BY <3>1, <3>2
    <2>4. Preferred(e) = Preferred(d) /\ Syncing(e) = Syncing(d)
      BY <1>4, <2>3 DEF Preferred, Syncing
    <2>5. v # <<>> /\ (w = <<>> <=> Len(v) = 1)
      <3>1. Len(v) \in Nat /\ (v = <<>> <=> Len(v) = 0) /\ (w = <<>> <=> Len(w) = 0)
        BY <1>2, <1>5, EmptyQueue
      <3>2. PICK i \in 1..Len(v) : v[i] = b
        BY DEF In
      <3>3. Len(w) = Len(v) - 1
        BY <1>3
      <3> QED BY SMT, <3>1, <3>2, <3>3
    <2>6. p \in Busy(d) /\ (p \in Busy(e) <=> w # <<>>)
      BY <1>4, <2>5 DEF Busy
    <2>7. d.nPeersWithValidatedDownloads = Cardinality(Busy(d))
      BY DEF BookOK, CountsOK
    <2>8. /\ Len(v) = 1 => e.nPeersWithValidatedDownloads = d.nPeersWithValidatedDownloads - 1
          /\ Len(v) # 1 => e.nPeersWithValidatedDownloads = d.nPeersWithValidatedDownloads
      BY <1>2, <1>4
    <2>9. e.nPeersWithValidatedDownloads = Cardinality(Busy(e))
      BY SMT, <2>2, <2>5, <2>6, <2>7, <2>8 DEF Has
    <2> QED BY <1>4, <2>4, <2>9 DEF BookOK, CountsOK
  <1>11. ASSUME NEW q \in Known(d) PROVE e.peer[q].lastCommon = d.peer[q].lastCommon
    <2>1. CASE q = p
      BY <1>3, <1>4, <2>1
    <2>2. CASE q # p
      BY <1>1, <1>4, <2>2
    <2> QED BY <2>1, <2>2
  <1> QED BY <1>4, <1>9, <1>10, <1>11 DEF BookOK, e

\* The arrival of a block keeps the books right.
LEMMA ReceivedBook ==
    ASSUME NEW d, BookOK(d), NEW b \in Blocks
    PROVE  LET e == MarkBlockAsReceived(d, b)
           IN  /\ BookOK(e) /\ Known(e) = Known(d)
               /\ e.inFlight[b] = None /\ \A a \in Blocks : a # b => e.inFlight[a] = d.inFlight[a]
               /\ \A q \in Known(d) : e.peer[q].lastCommon = d.peer[q].lastCommon
  <1>1. CASE d.inFlight[b] = None
    BY <1>1 DEF MarkBlockAsReceived
  <1>2. CASE d.inFlight[b] # None
    <2>1. d.inFlight[b] \in Known(d) /\ In(d.peer[d.inFlight[b]].vBlocksInFlight, b)
      BY <1>2 DEF BookOK, QueuesOK, QueueOK
    <2>2. MarkBlockAsReceived(d, b) = TakenFrom(d, b, d.inFlight[b])
      BY <1>2 DEF MarkBlockAsReceived, TakenFrom, Taken
    <2>3. PICK p \in Known(d) : /\ In(d.peer[p].vBlocksInFlight, b)
                                /\ MarkBlockAsReceived(d, b) = TakenFrom(d, b, p)
      BY <2>1, <2>2
    <2> DEFINE e == TakenFrom(d, b, p)
    <2>4. /\ BookOK(e) /\ Known(e) = Known(d)
          /\ e.inFlight[b] = None /\ \A a \in Blocks : a # b => e.inFlight[a] = d.inFlight[a]
          /\ \A q \in Known(d) : e.peer[q].lastCommon = d.peer[q].lastCommon
      BY <2>3, TakenBook
    <2> HIDE DEF e
    <2>5. MarkBlockAsReceived(d, b) = e
      BY <2>3 DEF e
    <2> QED BY <2>4, <2>5
  <1> QED BY <1>1, <1>2

Flag(x) == IF x THEN 1 ELSE 0

\* Flags of one peer change, and the counters with them.
LEMMA FlagsChanged ==
    ASSUME NEW d, BookOK(d), NEW e \in Books, NEW p \in Known(d), NEW s, s = d.peer[p], NEW r \in CNodeStates,
           e.peer[p] = r, \A q \in Peers : q # p => e.peer[q] = d.peer[q], e.inFlight = d.inFlight,
           r.vBlocksInFlight = s.vBlocksInFlight, r.nBlocksInFlight = s.nBlocksInFlight,
           r.nStallingSince = s.nStallingSince, r.fPreferredDownload => r.connected,
           e.nPeersWithValidatedDownloads = d.nPeersWithValidatedDownloads,
           e.nPreferredDownload = d.nPreferredDownload + Flag(r.fPreferredDownload) - Flag(s.fPreferredDownload),
           e.nSyncStarted = d.nSyncStarted + Flag(r.fSyncStarted) - Flag(s.fSyncStarted)
    PROVE  BookOK(e) /\ Known(e) = Known(d)
  <1>1. d \in Books /\ p \in Peers /\ Known(d) \subseteq Peers
    BY DEF BookOK, Known
  <1>2. Known(e) = Known(d)
    BY <1>1 DEF Known
  <1>3. QueueOK(d, p, s)
    BY DEF BookOK, QueuesOK
  <1>4. QueueOK(e, p, r)
    BY <1>3 DEF QueueOK
  <1>5. ASSUME NEW q \in Known(d), q # p PROVE QueueOK(e, q, e.peer[q])
    <2>1. e.peer[q] = d.peer[q] /\ QueueOK(d, q, d.peer[q])
      BY <1>1, <1>5 DEF BookOK, QueuesOK
    <2> QED BY <2>1 DEF QueueOK
  <1>6. QueuesOK(e)
    BY <1>2, <1>4, <1>5 DEF BookOK, QueuesOK
  <1>7. /\ Cardinality(Preferred(e)) = Cardinality(Preferred(d)) + Has(Preferred(e), p) - Has(Preferred(d), p)
        /\ Cardinality(Syncing(e)) = Cardinality(Syncing(d)) + Has(Syncing(e), p) - Has(Syncing(d), p)
    BY <1>1, CountStep
  <1>8. Busy(e) = Busy(d)
    BY <1>1, <1>2 DEF Busy
  <1>9. /\ p \in Preferred(e) <=> r.fPreferredDownload
        /\ p \in Preferred(d) <=> s.fPreferredDownload
        /\ p \in Syncing(e) <=> r.fSyncStarted
        /\ p \in Syncing(d) <=> s.fSyncStarted
    BY <1>2 DEF Preferred, Syncing
  <1>10. /\ Has(Preferred(e), p) = Flag(r.fPreferredDownload) /\ Has(Preferred(d), p) = Flag(s.fPreferredDownload)
         /\ Has(Syncing(e), p) = Flag(r.fSyncStarted) /\ Has(Syncing(d), p) = Flag(s.fSyncStarted)
    BY <1>9 DEF Has, Flag
  <1>11. CountsOK(e)
    BY <1>7, <1>8, <1>10 DEF BookOK, CountsOK
  <1> QED BY <1>2, <1>6, <1>11 DEF BookOK

\* What FinalizeNode does to the books.
LEMMA FinalizedEffect ==
    ASSUME NEW d \in Books, NEW p \in Known(d)
    PROVE  LET e == Finalized(d, p)
               s == d.peer[p]
           IN  /\ e \in Books /\ e.peer[p] = Left /\ \A q \in Peers : q # p => e.peer[q] = d.peer[q]
               /\ \A b \in Blocks : /\ In(s.vBlocksInFlight, b) => e.inFlight[b] = None
                                    /\ ~In(s.vBlocksInFlight, b) => e.inFlight[b] = d.inFlight[b]
               /\ e.nPreferredDownload = d.nPreferredDownload - Flag(s.fPreferredDownload)
               /\ e.nSyncStarted = d.nSyncStarted - Flag(s.fSyncStarted)
               /\ e.nPeersWithValidatedDownloads = d.nPeersWithValidatedDownloads - Flag(s.nBlocksInFlight # 0)
  <1> DEFINE e == Finalized(d, p)
             s == d.peer[p]
             v == s.vBlocksInFlight
             n1 == IF s.fPreferredDownload THEN d.nPreferredDownload - 1 ELSE d.nPreferredDownload
             n2 == IF s.nBlocksInFlight # 0 THEN d.nPeersWithValidatedDownloads - 1 ELSE d.nPeersWithValidatedDownloads
             n3 == IF s.fSyncStarted THEN d.nSyncStarted - 1 ELSE d.nSyncStarted
             fl == [b \in Blocks |-> IF b \in Range(v) THEN None ELSE d.inFlight[b]]
             g == [d.peer EXCEPT ![p] = Left]
  <1>1. /\ d.peer \in [Peers -> CNodeStates \cup {None, Left}] /\ d.inFlight \in [Blocks -> Peers \cup {None}]
        /\ d.nPeersWithValidatedDownloads \in Int /\ d.nPreferredDownload \in Int /\ d.nSyncStarted \in Int
        /\ p \in Peers
    BY BookParts
  <1>2. /\ n1 = d.nPreferredDownload - Flag(s.fPreferredDownload) /\ n3 = d.nSyncStarted - Flag(s.fSyncStarted)
        /\ n2 = d.nPeersWithValidatedDownloads - Flag(s.nBlocksInFlight # 0)
        /\ n1 \in Int /\ n2 \in Int /\ n3 \in Int
    BY SMT, <1>1 DEF Flag
  <1>3. FinalizedFlying(d, p) = [d EXCEPT !.peer[p] = Left, !.nPreferredDownload = n1,
                                   !.nPeersWithValidatedDownloads = n2, !.nSyncStarted = n3]
    BY DEF FinalizedFlying
  <1> HIDE DEF n1, n2, n3
  <1>4. FinalizedFlying(d, p).inFlight = d.inFlight
    BY <1>3 DEF Books
  <1>5. e = [FinalizedFlying(d, p) EXCEPT !.inFlight = fl]
    BY <1>4 DEF Finalized
  <1>6. fl \in [Blocks -> Peers \cup {None}] /\ g \in [Peers -> CNodeStates \cup {None, Left}]
    BY <1>1
  <1>7. /\ g[p] = Left /\ \A q \in Peers : q # p => g[q] = d.peer[q]
    BY <1>1
  <1>8. \A b \in Blocks : /\ In(v, b) => fl[b] = None
                          /\ ~In(v, b) => fl[b] = d.inFlight[b]
    <2>1. v \in Seq(Blocks)
      BY DEF Known, CNodeStates
    <2>2. \A b : b \in Range(v) <=> In(v, b)
      BY <2>1, InRange
    <2> QED BY <2>2
  <1> HIDE DEF fl, e
  <1>9. e = [d EXCEPT !.peer = g, !.nPreferredDownload = n1, !.nPeersWithValidatedDownloads = n2,
                      !.nSyncStarted = n3, !.inFlight = fl]
    BY <1>3, <1>5 DEF Books
  <1> HIDE DEF g
  <1>10. e \in Books /\ e.peer = g /\ e.nPreferredDownload = n1 /\ e.nPeersWithValidatedDownloads = n2
         /\ e.nSyncStarted = n3 /\ e.inFlight = fl
    BY <1>2, <1>6, <1>9 DEF Books
  <1> QED BY <1>2, <1>7, <1>8, <1>10 DEF e

\* FinalizeNode keeps the books right.
LEMMA FinalizedBook ==
    ASSUME NEW d, BookOK(d), NEW p \in Known(d)
    PROVE  LET e == Finalized(d, p)
           IN  /\ BookOK(e) /\ Known(e) = Known(d) \ {p}
               /\ \A b \in Blocks : e.inFlight[b] # None => e.inFlight[b] = d.inFlight[b] /\ e.inFlight[b] # p
               /\ \A q \in Known(e) : e.peer[q] = d.peer[q]
  <1> DEFINE e == Finalized(d, p)
             s == d.peer[p]
             v == s.vBlocksInFlight
  <1>1. d \in Books /\ p \in Peers /\ s \in CNodeStates /\ QueueOK(d, p, s) /\ Known(d) \subseteq Peers
        /\ None \notin Peers /\ Left \notin CNodeStates
    BY PeersAssumption, StatesAssumption DEF BookOK, QueuesOK, Known
  <1>2. /\ e \in Books /\ e.peer[p] = Left /\ \A q \in Peers : q # p => e.peer[q] = d.peer[q]
        /\ \A b \in Blocks : /\ In(v, b) => e.inFlight[b] = None
                             /\ ~In(v, b) => e.inFlight[b] = d.inFlight[b]
        /\ e.nPreferredDownload = d.nPreferredDownload - Flag(s.fPreferredDownload)
        /\ e.nSyncStarted = d.nSyncStarted - Flag(s.fSyncStarted)
        /\ e.nPeersWithValidatedDownloads = d.nPeersWithValidatedDownloads - Flag(s.nBlocksInFlight # 0)
    BY <1>1, FinalizedEffect
  <1> HIDE DEF e
  <1>3. Known(e) = Known(d) \ {p}
    BY <1>1, <1>2 DEF Known
  <1>4. ASSUME NEW b \in Blocks, e.inFlight[b] # None
        PROVE  e.inFlight[b] = d.inFlight[b] /\ e.inFlight[b] # p
    <2>1. d.inFlight[b] = p <=> In(v, b)
      BY <1>1 DEF QueueOK
    <2>2. (In(v, b) => e.inFlight[b] = None) /\ (~In(v, b) => e.inFlight[b] = d.inFlight[b])
      BY <1>2
    <2> QED BY <1>4, <2>1, <2>2
  <1>5. ASSUME NEW q \in Known(d), q # p PROVE QueueOK(e, q, e.peer[q])
    <2>1. e.peer[q] = d.peer[q] /\ q # None /\ QueueOK(d, q, d.peer[q])
      BY <1>1, <1>2, <1>5 DEF BookOK, QueuesOK
    <2>2. \A b \in Blocks : e.inFlight[b] = q <=> d.inFlight[b] = q
      <3> TAKE b \in Blocks
      <3>1. d.inFlight[b] = p <=> In(v, b)
        BY <1>1 DEF QueueOK
      <3>2. (In(v, b) => e.inFlight[b] = None) /\ (~In(v, b) => e.inFlight[b] = d.inFlight[b])
        BY <1>2
      <3> QED BY <1>5, <2>1, <3>1, <3>2
    <2> QED BY <2>1, <2>2 DEF QueueOK
  <1>6. QueuesOK(e)
    BY <1>3, <1>4, <1>5 DEF BookOK, QueuesOK
  <1>7. CountsOK(e)
    <2>1. d \in Books /\ e \in Books /\ p \in Peers /\ \A q \in Peers : q # p => e.peer[q] = d.peer[q]
      BY <1>1, <1>2
    <2>2. /\ Cardinality(Busy(e)) = Cardinality(Busy(d)) + Has(Busy(e), p) - Has(Busy(d), p)
          /\ Cardinality(Preferred(e)) = Cardinality(Preferred(d)) + Has(Preferred(e), p) - Has(Preferred(d), p)
          /\ Cardinality(Syncing(e)) = Cardinality(Syncing(d)) + Has(Syncing(e), p) - Has(Syncing(d), p)
          /\ Cardinality(Busy(d)) \in Nat /\ Cardinality(Preferred(d)) \in Nat /\ Cardinality(Syncing(d)) \in Nat
      BY <2>1, CountStep
    <2>3. p \notin Busy(e) /\ p \notin Preferred(e) /\ p \notin Syncing(e)
      BY <1>3 DEF Busy, Preferred, Syncing
    <2>4. s.nBlocksInFlight # 0 <=> v # <<>>
      BY <1>1, EmptyQueue DEF CNodeStates, QueueOK
    <2>5. (p \in Busy(d) <=> s.nBlocksInFlight # 0) /\ (p \in Preferred(d) <=> s.fPreferredDownload)
          /\ (p \in Syncing(d) <=> s.fSyncStarted)
      BY <2>4 DEF Busy, Preferred, Syncing
    <2>6. Has(Busy(d), p) = Flag(s.nBlocksInFlight # 0) /\ Has(Preferred(d), p) = Flag(s.fPreferredDownload)
          /\ Has(Syncing(d), p) = Flag(s.fSyncStarted)
      BY <2>5 DEF Has, Flag
    <2>7. Has(Busy(e), p) = 0 /\ Has(Preferred(e), p) = 0 /\ Has(Syncing(e), p) = 0
      BY <2>3 DEF Has
    <2>8. /\ d.nPeersWithValidatedDownloads = Cardinality(Busy(d))
          /\ d.nPreferredDownload = Cardinality(Preferred(d)) /\ d.nSyncStarted = Cardinality(Syncing(d))
      BY DEF BookOK, CountsOK
    <2>9. /\ e.nPreferredDownload = d.nPreferredDownload - Has(Preferred(d), p)
          /\ e.nSyncStarted = d.nSyncStarted - Has(Syncing(d), p)
          /\ e.nPeersWithValidatedDownloads = d.nPeersWithValidatedDownloads - Has(Busy(d), p)
      BY <1>2, <2>6
    <2>10. /\ e.nPeersWithValidatedDownloads = Cardinality(Busy(e))
           /\ e.nPreferredDownload = Cardinality(Preferred(e)) /\ e.nSyncStarted = Cardinality(Syncing(e))
      BY SMT, <2>2, <2>7, <2>8, <2>9 DEF Has
    <2> QED BY <2>10 DEF CountsOK
  <1>8. \A q \in Known(e) : e.peer[q] = d.peer[q]
    BY <1>1, <1>2, <1>3
  <1> QED BY <1>2, <1>3, <1>4, <1>6, <1>7, <1>8 DEF BookOK, e

\* A peer connects.
LEMMA InitializedBook ==
    ASSUME NEW d, BookOK(d), NEW p \in Peers, d.peer[p] = None
    PROVE  LET e == With(d, p, CNodeState)
           IN  /\ BookOK(e) /\ Known(e) = Known(d) \cup {p} /\ e.inFlight = d.inFlight
               /\ e.peer[p].lastCommon = None /\ \A q \in Known(d) : e.peer[q] = d.peer[q]
  <1> DEFINE s == CNodeState
             e == With(d, p, s)
  <1>1. /\ s \in CNodeStates /\ s.vBlocksInFlight = <<>> /\ s.nBlocksInFlight = 0 /\ s.nStallingSince = None
        /\ s.fPreferredDownload = FALSE /\ s.fSyncStarted = FALSE /\ s.lastCommon = None
    <2>1. 0 \in Int /\ 0 \in Nat /\ <<>> \in Seq(Blocks) /\ FALSE \in BOOLEAN
      BY SMT
    <2> QED BY <2>1 DEF CNodeState, CNodeStates
  <1>2. d \in Books /\ Known(d) \subseteq Peers /\ p \notin Known(d) /\ None \notin Peers
        /\ d.peer \in [Peers -> CNodeStates \cup {None, Left}]
    BY BookParts, PeersAssumption, StatesAssumption DEF BookOK, Known
  <1> HIDE DEF s
  <1>3. /\ e \in Books /\ e.peer = [d.peer EXCEPT ![p] = s] /\ e.inFlight = d.inFlight
        /\ e.nPreferredDownload = d.nPreferredDownload /\ e.nSyncStarted = d.nSyncStarted
        /\ e.nPeersWithValidatedDownloads = d.nPeersWithValidatedDownloads
    BY SMT, <1>1, <1>2 DEF Books, With
  <1> HIDE DEF e
  <1>4. e.peer[p] = s /\ \A q \in Peers : q # p => e.peer[q] = d.peer[q]
    BY <1>2, <1>3
  <1>5. Known(e) = Known(d) \cup {p}
    BY <1>1, <1>4 DEF Known
  <1>6. \A q \in Known(d) : e.peer[q] = d.peer[q]
    BY <1>2, <1>4
  <1>7. QueueOK(e, p, s)
    <2>1. \A b \in Blocks : ~In(<<>>, b)
      BY SMT DEF In
    <2>2. \A b \in Blocks : e.inFlight[b] # p
      <3>1. \A b \in Blocks : d.inFlight[b] # None => d.inFlight[b] \in Known(d)
        BY DEF BookOK, QueuesOK
      <3>2. p # None
        BY <1>2
      <3>3. p \notin Known(d) /\ e.inFlight = d.inFlight
        BY <1>2, <1>3
      <3> QED BY <3>1, <3>2, <3>3
    <2>3. Len(<<>>) = 0 /\ 0 <= MAX_BLOCKS_IN_TRANSIT_PER_PEER /\ Once(<<>>)
      BY SMT, LimitsAssumption DEF Once
    <2> QED BY <1>1, <2>1, <2>2, <2>3 DEF QueueOK
  <1>8. ASSUME NEW q \in Known(d) PROVE QueueOK(e, q, e.peer[q])
    <2>1. e.peer[q] = d.peer[q] /\ QueueOK(d, q, d.peer[q])
      BY <1>6 DEF BookOK, QueuesOK
    <2> QED BY <1>3, <2>1 DEF QueueOK
  <1>9. QueuesOK(e)
    BY <1>3, <1>4, <1>5, <1>7, <1>8 DEF BookOK, QueuesOK
  <1>10. Busy(e) = Busy(d) /\ Preferred(e) = Preferred(d) /\ Syncing(e) = Syncing(d)
    BY <1>1, <1>2, <1>4, <1>5, <1>6 DEF Busy, Preferred, Syncing
  <1>11. CountsOK(e)
    BY <1>3, <1>10 DEF BookOK, CountsOK
  <1> QED BY <1>1, <1>3, <1>4, <1>5, <1>6, <1>9, <1>11 DEF BookOK, e, s

Flagged(d, p, r, n, m) == [d EXCEPT !.peer[p] = r, !.nPreferredDownload = n, !.nSyncStarted = m]

\* Only flags differ between the states s and r of a peer, and n and m count them.
FlagsOK(d, s, r, n, m) ==
    /\ r.vBlocksInFlight = s.vBlocksInFlight /\ r.nBlocksInFlight = s.nBlocksInFlight
    /\ r.nStallingSince = s.nStallingSince /\ r.lastCommon = s.lastCommon
    /\ r.fPreferredDownload => r.connected
    /\ n = d.nPreferredDownload + Flag(r.fPreferredDownload) - Flag(s.fPreferredDownload)
    /\ m = d.nSyncStarted + Flag(r.fSyncStarted) - Flag(s.fSyncStarted)

\* The version message and the first request for headers set flags of a peer, and count it.
LEMMA FlaggedBook ==
    ASSUME NEW d, BookOK(d), NEW p \in Known(d), NEW r \in CNodeStates, NEW n \in Int, NEW m \in Int,
           FlagsOK(d, d.peer[p], r, n, m)
    PROVE  LET e == Flagged(d, p, r, n, m)
           IN  /\ BookOK(e) /\ Known(e) = Known(d) /\ e.inFlight = d.inFlight
               /\ \A q \in Known(d) : e.peer[q].lastCommon = d.peer[q].lastCommon
  <1> DEFINE g == [d.peer EXCEPT ![p] = r]
             e == Flagged(d, p, r, n, m)
  <1>1. d \in Books /\ p \in Peers /\ d.peer \in [Peers -> CNodeStates \cup {None, Left}]
    BY BookParts DEF BookOK, Known
  <1>2. g \in [Peers -> CNodeStates \cup {None, Left}] /\ g[p] = r /\ \A q \in Peers : q # p => g[q] = d.peer[q]
    BY <1>1
  <1>3. e = [d EXCEPT !.peer = g, !.nPreferredDownload = n, !.nSyncStarted = m]
    BY <1>1 DEF Books, Flagged
  <1> HIDE DEF g, e
  <1>4. /\ e \in Books /\ e.peer = g /\ e.nPreferredDownload = n /\ e.nSyncStarted = m
        /\ e.inFlight = d.inFlight /\ e.nPeersWithValidatedDownloads = d.nPeersWithValidatedDownloads
    BY <1>1, <1>2, <1>3 DEF Books
  <1>5. e.peer[p] = r /\ \A q \in Peers : q # p => e.peer[q] = d.peer[q]
    BY <1>2, <1>4
  <1>6. BookOK(e) /\ Known(e) = Known(d)
    BY <1>4, <1>5, FlagsChanged DEF FlagsOK
  <1>7. \A q \in Known(d) : e.peer[q].lastCommon = d.peer[q].lastCommon
    BY <1>5 DEF FlagsOK, Known
  <1> QED BY <1>4, <1>6, <1>7 DEF e

-----------------------------------------------------------------------------
(* What is asked for. *)

\* The smaller of two numbers.
LEMMA MinOfTwo ==
    ASSUME NEW a \in Int, NEW b \in Int
    PROVE  Min({a, b}) \in {a, b} /\ Min({a, b}) <= a /\ Min({a, b}) <= b
  <1>1. \E x \in {a, b} : \A y \in {a, b} : x <= y
    <2>1. CASE a <= b
      BY SMT, <2>1
    <2>2. CASE b <= a
      BY SMT, <2>2
    <2> QED BY SMT, <2>1, <2>2
  <1> QED BY <1>1 DEF Min

\* The first blocks of a chain that are not in flight, up to a number, can be asked for.
LEMMA FirstMissing ==
    ASSUME NEW d, NEW last \in Blocks, NEW S \in SUBSET Upto[last], \A b \in S : d.inFlight[b] = None,
           NEW count \in Nat
    PROVE  LET blocks == SubSeq(Ascending(S), 1, Min({count, Cardinality(S)}))
           IN  /\ blocks \in Seq(Blocks) /\ Once(blocks) /\ Len(blocks) <= count
               /\ \A b \in Blocks : In(blocks, b) => d.inFlight[b] = None
               /\ Len(Ascending(S)) = Cardinality(S) /\ Cardinality(S) \in Nat
  <1> DEFINE n == Cardinality(S)
             k == Min({count, n})
             blocks == SubSeq(Ascending(S), 1, k)
  <1>1. n \in Nat /\ Ascending(S) \in [1..n -> S]
    BY AscendingExists
  <1> HIDE DEF n
  <1>2. Len(Ascending(S)) = n
    BY SMT, <1>1
  <1>3. count \in Int /\ n \in Int
    BY SMT, <1>1
  <1>4. k \in {count, n} /\ k <= count /\ k <= n
    BY <1>3, MinOfTwo
  <1> HIDE DEF k
  <1>5. k \in 0..n
    BY SMT, <1>1, <1>4
  <1>6. blocks \in Seq(S) /\ Len(blocks) = k /\ \A i, j \in 1..Len(blocks) : blocks[i] = blocks[j] => i = j
    BY <1>5, FirstOf DEF n
  <1> HIDE DEF blocks
  <1>7. blocks \in Seq(Blocks) /\ \A i \in 1..Len(blocks) : blocks[i] \in S
    <2>1. S \subseteq Blocks
      BY ChainOf
    <2> QED BY SMT, <1>6, <2>1
  <1>8. \A b \in Blocks : In(blocks, b) => d.inFlight[b] = None
    BY <1>7 DEF In
  <1> QED BY <1>1, <1>2, <1>4, <1>6, <1>7, <1>8 DEF Once, blocks, k, n

\* A sound answer of FindNextBlocksToDownload: the last common block has been received with all
\* below it, the blocks can be asked for, and the staller is the peer of a block in flight.
NextOK(d, count, next) ==
    /\ next.common \in Blocks \cup {None} /\ (next.common # None => Linked(next.common))
    /\ next.blocks \in Seq(Blocks) /\ Once(next.blocks) /\ Len(next.blocks) <= count
    /\ \A b \in Blocks : In(next.blocks, b) => d.inFlight[b] = None
    /\ next.staller # None => \E b \in Blocks : d.inFlight[b] = next.staller

\* The last common block moves only to a block that is linked.
LEMMA AdvancedLinked ==
    ASSUME NEW common \in Blocks, Linked(common), NEW walk \in SUBSET Blocks
    PROVE  Advanced(common, walk) \in Blocks /\ Linked(Advanced(common, walk))
  <1> DEFINE S == {common} \cup {b \in walk : Linked(b)}
  <1>1. S \in SUBSET Blocks /\ S # {}
    OBVIOUS
  <1>2. Highest(S) \in S
    BY <1>1, HighestExists
  <1> QED BY <1>2 DEF Advanced

\* The walk from a common block that is linked gives a sound answer.
LEMMA FetchSound ==
    ASSUME NEW d, NEW p, NEW common \in Blocks, Linked(common), NEW best \in Blocks, NEW count \in Nat
    PROVE  NextOK(d, count, Fetch(d, p, common, best, count))
  <1> DEFINE end == Height[common] + BLOCK_DOWNLOAD_WINDOW
             walk == {b \in Upto[best] : Height[common] < Height[b] /\ Height[b] <= end + 1}
             missing == {b \in walk : Missing(d, b)}
             S == {b \in missing : Height[b] <= end}
             fetch == Ascending(S)
             flying == {b \in walk : d.inFlight[b] # None}
             waitingfor == IF flying = {} THEN None ELSE d.inFlight[Lowest(flying)]
             blocks == SubSeq(fetch, 1, Min({count, Len(fetch)}))
             staller == IF fetch = <<>> /\ missing # {} /\ waitingfor # p THEN waitingfor ELSE None
             next == Fetch(d, p, common, best, count)
  <1>1. walk \in SUBSET Blocks /\ S \in SUBSET Upto[best] /\ flying \in SUBSET Blocks
        /\ \A b \in S : d.inFlight[b] = None
    BY ChainOf DEF Missing
  <1>2. next = [common |-> Advanced(common, walk), blocks |-> blocks, staller |-> staller]
    BY DEF Fetch
  <1> HIDE DEF S, walk
  <1>3. /\ SubSeq(fetch, 1, Min({count, Cardinality(S)})) \in Seq(Blocks)
        /\ Once(SubSeq(fetch, 1, Min({count, Cardinality(S)})))
        /\ Len(SubSeq(fetch, 1, Min({count, Cardinality(S)}))) <= count
        /\ \A b \in Blocks : In(SubSeq(fetch, 1, Min({count, Cardinality(S)})), b) => d.inFlight[b] = None
        /\ Len(fetch) = Cardinality(S)
    BY <1>1, FirstMissing
  <1>4. blocks \in Seq(Blocks) /\ Once(blocks) /\ Len(blocks) <= count
        /\ \A b \in Blocks : In(blocks, b) => d.inFlight[b] = None
    BY <1>3
  <1>5. Advanced(common, walk) \in Blocks /\ Linked(Advanced(common, walk))
    BY <1>1, AdvancedLinked
  <1>6. ASSUME staller # None PROVE \E b \in Blocks : d.inFlight[b] = staller
    <2>1. flying # {} /\ staller = d.inFlight[Lowest(flying)]
      BY <1>6
    <2>2. Lowest(flying) \in Blocks
      BY <1>1, <2>1, LowestExists
    <2> QED BY <2>1, <2>2
  <1> HIDE DEF blocks, staller, next
  <1>7. next.common = Advanced(common, walk) /\ next.blocks = blocks /\ next.staller = staller
    BY <1>2
  <1> QED BY <1>4, <1>5, <1>6, <1>7 DEF NextOK, next

\* An answer that asks for nothing.
LEMMA NothingSound ==
    ASSUME NEW d, NEW common \in Blocks \cup {None}, common # None => Linked(common), NEW count \in Nat
    PROVE  NextOK(d, count, Nothing(common))
  <1>1. /\ Nothing(common).common = common /\ Nothing(common).blocks = <<>> /\ Nothing(common).staller = None
    BY DEF Nothing
  <1>2. <<>> \in Seq(Blocks) /\ Once(<<>>) /\ Len(<<>>) <= count /\ \A b \in Blocks : ~In(<<>>, b)
    BY SMT DEF Once, In
  <1> QED BY <1>1, <1>2 DEF NextOK

\* FindNextBlocksToDownload gives a sound answer.
LEMMA FindNextSound ==
    ASSUME NEW d, BookOK(d), NEW p \in Known(d), tip \in Blocks, Upto[tip] \subseteq data,
           d.peer[p].lastCommon # None => Linked(d.peer[p].lastCommon)
    PROVE  NextOK(d, MAX_BLOCKS_IN_TRANSIT_PER_PEER - d.peer[p].nBlocksInFlight, FindNextBlocksToDownload(d, p))
  <1> DEFINE s == d.peer[p]
             count == MAX_BLOCKS_IN_TRANSIT_PER_PEER - s.nBlocksInFlight
             low == Min({Height[s.best], Height[tip]})
             guess == IF s.lastCommon # None THEN s.lastCommon ELSE GetAncestor(tip, low)
             common == LastCommonAncestor[guess][s.best]
  <1>1. s \in CNodeStates /\ QueueOK(d, p, s)
    BY DEF BookOK, QueuesOK, Known
  <1>2. s.best \in Blocks \cup {None} /\ s.lastCommon \in Blocks \cup {None} /\ s.vBlocksInFlight \in Seq(Blocks)
    BY <1>1 DEF CNodeStates
  <1>3. count \in Nat
    <2>1. s.nBlocksInFlight = Len(s.vBlocksInFlight) /\ s.nBlocksInFlight <= MAX_BLOCKS_IN_TRANSIT_PER_PEER
      BY <1>1 DEF QueueOK
    <2>2. s.nBlocksInFlight \in Nat /\ MAX_BLOCKS_IN_TRANSIT_PER_PEER \in Nat
      BY <1>2, <2>1, EmptyQueue, LimitsAssumption
    <2> QED BY SMT, <2>1, <2>2
  <1> HIDE DEF count
  <1>4. NextOK(d, count, Nothing(s.lastCommon))
    BY <1>2, <1>3, NothingSound
  <1>5. ASSUME s.best # None, ~(Height[s.best] < Height[tip])
        PROVE  common \in Blocks /\ Linked(common)
    <2>1. s.best \in Blocks /\ Height[s.best] \in Nat /\ Height[tip] \in Nat
      BY <1>2, <1>5, HeightType
    <2>2. guess \in Blocks /\ Linked(guess)
      <3>1. CASE s.lastCommon # None
        BY <1>2, <3>1
      <3>2. CASE s.lastCommon = None
        <4>1. low \in {Height[s.best], Height[tip]} /\ low <= Height[s.best] /\ low <= Height[tip]
          <5>1. Height[s.best] \in Int /\ Height[tip] \in Int
            BY SMT, <2>1
          <5> QED BY <5>1, MinOfTwo
        <4> HIDE DEF low
        <4>2. low = Height[tip]
          BY SMT, <1>5, <2>1, <4>1
        <4>3. GetAncestor(tip, low) \in Upto[tip]
          BY <4>2, ChainOf DEF GetAncestor
        <4> QED BY <3>2, <4>3, ChainOf DEF Linked
      <3> QED BY <3>1, <3>2
    <2> HIDE DEF guess
    <2>3. common = Highest(Upto[guess] \cap Upto[s.best])
      BY <2>1, <2>2 DEF LastCommonAncestor
    <2>4. Upto[guess] \cap Upto[s.best] \in SUBSET Blocks /\ Upto[guess] \cap Upto[s.best] # {}
      BY <2>1, <2>2, ChainOf
    <2>5. common \in Upto[guess]
      BY <2>3, <2>4, HighestExists
    <2> QED BY <2>2, <2>5, ChainOf DEF Linked
  <1> HIDE DEF common
  <1>6. CASE s.best = None \/ Height[s.best] < Height[tip]
    <2>1. FindNextBlocksToDownload(d, p) = Nothing(s.lastCommon)
      BY <1>6 DEF FindNextBlocksToDownload
    <2> QED BY <1>4, <2>1 DEF count
  <1>7. CASE s.best # None /\ ~(Height[s.best] < Height[tip])
    <2>1. FindNextBlocksToDownload(d, p) = IF common = s.best THEN Nothing(common) ELSE Fetch(d, p, common, s.best, count)
      BY <1>7 DEF FindNextBlocksToDownload, common, CommonWith, count
    <2>2. common \in Blocks /\ Linked(common) /\ s.best \in Blocks
      BY <1>2, <1>5, <1>7
    <2>3. NextOK(d, count, Nothing(common)) /\ NextOK(d, count, Fetch(d, p, common, s.best, count))
      BY <1>3, <2>2, NothingSound, FetchSound
    <2> QED BY <2>1, <2>3 DEF count
  <1> QED BY <1>6, <1>7

\* What ProcessHeadersMessage asks for at once can be asked for.
LEMMA DirectFetchSound ==
    ASSUME NEW d, BookOK(d), NEW p \in Known(d), NEW last \in Blocks
    PROVE  Askable(d, p, DirectFetch(d, p, last))
  <1> DEFINE s == d.peer[p]
             path == Upto[last] \ Upto[tip]
             missing == {b \in path : Missing(d, b)}
             size == Cardinality(missing)
             count == MAX_BLOCKS_IN_TRANSIT_PER_PEER - s.nBlocksInFlight
             blocks == SubSeq(Ascending(missing), 1, Min({count, size}))
  <1>1. s \in CNodeStates /\ QueueOK(d, p, s)
    BY DEF BookOK, QueuesOK, Known
  <1>2. s.nBlocksInFlight \in Nat /\ s.nBlocksInFlight <= MAX_BLOCKS_IN_TRANSIT_PER_PEER
        /\ MAX_BLOCKS_IN_TRANSIT_PER_PEER \in Nat
    BY <1>1, EmptyQueue, LimitsAssumption DEF CNodeStates, QueueOK
  <1>3. count \in Nat
    BY SMT, <1>2
  <1>4. missing \in SUBSET Upto[last] /\ \A b \in missing : d.inFlight[b] = None
    BY DEF Missing
  <1> HIDE DEF count, missing
  <1>5. /\ blocks \in Seq(Blocks) /\ Once(blocks) /\ Len(blocks) <= count
        /\ \A b \in Blocks : In(blocks, b) => d.inFlight[b] = None
    BY <1>3, <1>4, FirstMissing
  <1>6. {size, count} = {count, size}
    OBVIOUS
  <1>7. DirectFetch(d, p, last) \in {<<>>, blocks}
    BY <1>6 DEF DirectFetch, missing, count
  <1> HIDE DEF blocks
  <1>8. Askable(d, p, blocks)
    <2>1. Len(blocks) \in Nat
      BY <1>5, EmptyQueue
    <2>2. s.nBlocksInFlight + Len(blocks) <= MAX_BLOCKS_IN_TRANSIT_PER_PEER
      BY SMT, <1>2, <1>5, <2>1 DEF count
    <2> QED BY <1>5, <2>2 DEF Askable
  <1>9. Askable(d, p, <<>>)
    <2>1. <<>> \in Seq(Blocks) /\ Once(<<>>) /\ \A b \in Blocks : ~In(<<>>, b)
      BY SMT DEF Once, In
    <2>2. s.nBlocksInFlight + Len(<<>>) <= MAX_BLOCKS_IN_TRANSIT_PER_PEER
      BY SMT, <1>2
    <2> QED BY <2>1, <2>2 DEF Askable
  <1> QED BY <1>7, <1>8, <1>9

\* What the books and the last common block depend on is the same in r and s.
Kept(r, s) ==
    /\ r.vBlocksInFlight = s.vBlocksInFlight /\ r.nBlocksInFlight = s.nBlocksInFlight
    /\ r.fPreferredDownload = s.fPreferredDownload /\ r.fSyncStarted = s.fSyncStarted
    /\ r.connected = s.connected /\ r.nStallingSince = s.nStallingSince /\ r.lastCommon = s.lastCommon

\* Which blocks a peer has does not matter for them.
LEMMA ProcessKeeps ==
    ASSUME NEW s \in CNodeStates, NEW known \in SUBSET Blocks
    PROVE  ProcessBlockAvailability(s, known) \in CNodeStates /\ Kept(ProcessBlockAvailability(s, known), s)
  <1>1. CASE s.lastUnknown \in known
    <2> DEFINE best == IF Better(s, s.lastUnknown) THEN s.lastUnknown ELSE s.best
               r == [s EXCEPT !.lastUnknown = None, !.best = best]
    <2>1. best \in Blocks \cup {None}
      BY <1>1 DEF CNodeStates
    <2>2. ProcessBlockAvailability(s, known) = r
      BY <1>1 DEF ProcessBlockAvailability
    <2> HIDE DEF best
    <2>3. r \in CNodeStates /\ Kept(r, s)
      BY <2>1 DEF CNodeStates, Kept
    <2> QED BY <2>2, <2>3
  <1>2. CASE s.lastUnknown \notin known
    BY <1>2 DEF ProcessBlockAvailability, Kept
  <1> QED BY <1>1, <1>2

\* UpdateBlockAvailability changes only what a peer is known to have.
LEMMA UpdateKeeps ==
    ASSUME NEW s \in CNodeStates, NEW known \in SUBSET Blocks, NEW b \in Blocks
    PROVE  UpdateBlockAvailability(s, b, known) \in CNodeStates /\ Kept(UpdateBlockAvailability(s, b, known), s)
  <1> DEFINE t == ProcessBlockAvailability(s, known)
             best == IF Better(t, b) THEN b ELSE t.best
  <1>1. t \in CNodeStates /\ Kept(t, s)
    BY ProcessKeeps
  <1> HIDE DEF t
  <1>2. best \in Blocks \cup {None}
    BY <1>1 DEF CNodeStates
  <1>3. UpdateBlockAvailability(s, b, known) \in {[t EXCEPT !.lastUnknown = b], [t EXCEPT !.best = best]}
    BY DEF UpdateBlockAvailability, t
  <1> HIDE DEF best
  <1>4. [t EXCEPT !.lastUnknown = b] \in CNodeStates /\ Kept([t EXCEPT !.lastUnknown = b], s)
    BY <1>1 DEF CNodeStates, Kept
  <1>5. [t EXCEPT !.best = best] \in CNodeStates /\ Kept([t EXCEPT !.best = best], s)
    BY <1>1, <1>2 DEF CNodeStates, Kept
  <1> QED BY <1>3, <1>4, <1>5

-----------------------------------------------------------------------------
(* The requests a peer has not answered. *)

Requests == [kind : {"headers", "block"}, block : Blocks]

Asks(b) == [kind |-> "block", block |-> b]

WantedOK(w) == w \in [Peers -> Seq(Requests)]

\* Requests are added at the end.
LEMMA Appended ==
    ASSUME NEW v \in Seq(Requests), NEW w \in Seq(Requests)
    PROVE  v \o w \in Seq(Requests) /\ \A x : In(v, x) \/ In(w, x) => In(v \o w, x)
  <1> DEFINE u == v \o w
             n == Len(v)
             m == Len(w)
  <1>1. /\ u \in Seq(Requests) /\ n \in Nat /\ m \in Nat /\ Len(u) = n + m
        /\ \A i \in 1..n : u[i] = v[i]
        /\ \A i \in 1..m : u[n + i] = w[i]
    BY SMT
  <1> HIDE DEF u, n, m
  <1>2. ASSUME NEW i \in 1..n PROVE i \in 1..Len(u)
    BY SMT, <1>1
  <1>3. ASSUME NEW i \in 1..m PROVE n + i \in 1..Len(u)
    BY SMT, <1>1
  <1> QED BY <1>1, <1>2, <1>3 DEF In, n, m, u

\* The first one is answered.
LEMMA Answering ==
    ASSUME NEW v \in Seq(Requests), v # <<>>
    PROVE  /\ Head(v) \in Requests /\ Tail(v) \in Seq(Requests)
           /\ \A x : In(v, x) /\ x # Head(v) => In(Tail(v), x)
  <1>1. Head(v) \in Requests /\ Tail(v) \in Seq(Requests)
    BY SMT
  <1>2. ASSUME NEW i \in 1..Len(v), v[i] # Head(v) PROVE \E j \in 1..Len(Tail(v)) : Tail(v)[j] = v[i]
    <2>1. i - 1 \in 1..Len(Tail(v)) /\ Tail(v)[i - 1] = v[i]
      BY SMT, <1>2
    <2> QED BY <2>1
  <1> QED BY <1>1, <1>2 DEF In

\* A getdata message asks for its blocks.
LEMMA GetDataAsks ==
    ASSUME NEW blocks \in Seq(Blocks)
    PROVE  GetData(blocks) \in Seq(Requests) /\ \A b : In(blocks, b) => In(GetData(blocks), Asks(b))
  <1> DEFINE g == GetData(blocks)
             n == Len(blocks)
  <1>1. n \in Nat /\ DOMAIN blocks = 1..n /\ \A i \in 1..n : blocks[i] \in Blocks
    BY SMT
  <1>2. \A i \in 1..n : Asks(blocks[i]) \in Requests
    BY <1>1 DEF Requests, Asks
  <1>3. g = [i \in 1..n |-> Asks(blocks[i])]
    BY <1>1 DEF GetData, Asks
  <1> HIDE DEF g, n
  <1>4. g \in [1..n -> Requests]
    BY <1>2, <1>3
  <1>5. g \in Seq(Requests) /\ Len(g) = n
    BY SMT, <1>1, <1>4
  <1> QED BY <1>3, <1>5 DEF In, g, n

\* A getheaders message is a list of requests.
LEMMA GetHeadersAsks == \A b \in Blocks : GetHeaders(b) \in Seq(Requests)
  <1> TAKE b \in Blocks
  <1>1. [kind |-> "headers", block |-> b] \in Requests
    BY DEF Requests
  <1> HIDE DEF Requests
  <1> QED BY SMT, <1>1 DEF GetHeaders

-----------------------------------------------------------------------------
(* The invariant. *)

\* A block in flight from a peer has been asked for and not arrived since.
AskedOK(d, w) == \A b \in Blocks : d.inFlight[b] # None => In(w[d.inFlight[b]], Asks(b))

CommonOK(d, have) ==
    \A p \in Known(d) : d.peer[p].lastCommon # None => Upto[d.peer[p].lastCommon] \subseteq have

\* The blocks, and where the peers are.
ChainsOK ==
    /\ headers \in SUBSET Blocks /\ bestHeader \in Blocks
    /\ data \in SUBSET Blocks /\ tip \in Blocks /\ Upto[tip] \subseteq data
    /\ view \in [Peers -> Nat] /\ \A p \in Peers : view[p] \in 1..Len(Views[p])

DownloadInv ==
    BookOK(node) /\ WantedOK(wanted) /\ AskedOK(node, wanted) /\ CommonOK(node, data) /\ ChainsOK

\* It holds initially.
LEMMA InitDownload == Init => DownloadInv
  <1> SUFFICES ASSUME Init PROVE DownloadInv
    OBVIOUS
  <1>1. 0 \in Int /\ 1 \in Nat /\ <<>> \in Seq(Requests)
    BY SMT
  <1>2. node \in Books /\ (\A p \in Peers : node.peer[p] = None) /\ (\A b \in Blocks : node.inFlight[b] = None)
        /\ node.nPreferredDownload = 0 /\ node.nPeersWithValidatedDownloads = 0 /\ node.nSyncStarted = 0
    BY <1>1 DEF Init, Books
  <1>3. Known(node) = {}
    BY <1>2, StatesAssumption DEF Known
  <1>4. BookOK(node)
    <2>1. Busy(node) = {} /\ Preferred(node) = {} /\ Syncing(node) = {}
      BY <1>3 DEF Busy, Preferred, Syncing
    <2>2. Cardinality({}) = 0
      BY FS_EmptySet
    <2> QED BY <1>2, <1>3, <2>1, <2>2 DEF BookOK, QueuesOK, CountsOK
  <1>5. WantedOK(wanted) /\ AskedOK(node, wanted) /\ CommonOK(node, data)
    BY <1>1, <1>2, <1>3 DEF Init, WantedOK, AskedOK, CommonOK
  <1>6. ChainsOK
    <2>1. \A p \in Peers : 1 \in 1..Len(Views[p])
      BY SMT, PeersAssumption
    <2> QED BY <1>1, <2>1, TreeAssumption DEF Init, ChainsOK
  <1> QED BY <1>4, <1>5, <1>6 DEF DownloadInv

Sent(w, p, v) == [w EXCEPT ![p] = v]

\* The requests v to p are enough for the blocks in flight.
KeepsAsking(d, e, w, p, v) == \A b \in Blocks :
    /\ In(w[p], Asks(b)) => In(v, Asks(b)) \/ e.inFlight[b] # p
    /\ e.inFlight[b] # None => d.inFlight[b] = e.inFlight[b] \/ (e.inFlight[b] = p /\ In(v, Asks(b)))

\* The requests to one peer change: those for the blocks in flight from it are among the new ones.
LEMMA AskedMore ==
    ASSUME NEW d \in Books, NEW e, NEW w, NEW p \in Peers, NEW v \in Seq(Requests), WantedOK(w), AskedOK(d, w),
           KeepsAsking(d, e, w, p, v)
    PROVE  WantedOK(Sent(w, p, v)) /\ AskedOK(e, Sent(w, p, v))
  <1> DEFINE u == Sent(w, p, v)
  <1>1. WantedOK(u) /\ u[p] = v /\ \A q \in Peers : q # p => u[q] = w[q]
    BY DEF WantedOK, Sent
  <1>2. d.inFlight \in [Blocks -> Peers \cup {None}]
    BY BookParts
  <1> HIDE DEF u
  <1>3. ASSUME NEW b \in Blocks, e.inFlight[b] # None PROVE In(u[e.inFlight[b]], Asks(b))
    <2>1. CASE e.inFlight[b] = p
      <3>1. In(v, Asks(b))
        BY <1>3, <2>1 DEF AskedOK, KeepsAsking
      <3> QED BY <1>1, <2>1, <3>1
    <2>2. CASE e.inFlight[b] # p
      <3>1. d.inFlight[b] = e.inFlight[b] /\ d.inFlight[b] # None
        BY <1>3, <2>2 DEF KeepsAsking
      <3>2. In(w[d.inFlight[b]], Asks(b)) /\ d.inFlight[b] \in Peers
        BY <1>2, <3>1 DEF AskedOK
      <3> QED BY <1>1, <2>2, <3>1, <3>2
    <2> QED BY <2>1, <2>2
  <1> QED BY <1>1, <1>3 DEF AskedOK, u

\* One peer's state is replaced by one that keeps what matters.
LEMMA KeptBook ==
    ASSUME NEW d, BookOK(d), NEW p \in Known(d), NEW s \in CNodeStates, Kept(s, d.peer[p])
    PROVE  LET e == With(d, p, s)
           IN  /\ BookOK(e) /\ Known(e) = Known(d) /\ e.inFlight = d.inFlight /\ e.peer[p] = s
               /\ \A q \in Known(d) : e.peer[q].lastCommon = d.peer[q].lastCommon
  <1> DEFINE e == With(d, p, s)
  <1>1. Alike(s, d.peer[p]) /\ s.lastCommon = d.peer[p].lastCommon
    BY DEF Alike, Kept
  <1>2. BookOK(e)
    BY <1>1, ReplacedAlike
  <1>3. d \in Books /\ Known(d) \subseteq Peers
    BY DEF BookOK, Known
  <1>4. Known(e) = Known(d) /\ e.inFlight = d.inFlight /\ e.peer[p] = s /\ \A q \in Peers : q # p => e.peer[q] = d.peer[q]
    BY <1>3, Replaced
  <1> HIDE DEF e
  <1>5. ASSUME NEW q \in Known(d) PROVE e.peer[q].lastCommon = d.peer[q].lastCommon
    <2>1. CASE q = p
      BY <1>1, <1>4, <2>1
    <2>2. CASE q # p
      BY <1>3, <1>4, <2>2
    <2> QED BY <2>1, <2>2
  <1> QED BY <1>2, <1>4, <1>5 DEF e

\* What the tip and the headers are when only the node and the requests change.
Elsewhere == UNCHANGED <<headers, bestHeader, data, tip, view>>

\* The headers and the tip stay sound when neither changes.
LEMMA SameChains == ASSUME ChainsOK, Elsewhere PROVE ChainsOK'
  BY DEF ChainsOK, Elsewhere

\* A step that keeps the requests, the blocks in flight and the last common blocks.
LEMMA QuietStep ==
    ASSUME DownloadInv, Elsewhere, wanted' = wanted, BookOK(node'), Known(node') = Known(node),
           node'.inFlight = node.inFlight, \A q \in Known(node) : node'.peer[q].lastCommon = node.peer[q].lastCommon
    PROVE  DownloadInv'
  <1>1. ChainsOK'
    BY SameChains DEF DownloadInv
  <1>2. WantedOK(wanted') /\ AskedOK(node', wanted')
    BY DEF DownloadInv, AskedOK
  <1>3. CommonOK(node', data')
    BY DEF DownloadInv, CommonOK, Elsewhere
  <1> QED BY <1>1, <1>2, <1>3 DEF DownloadInv

\* The clock.
LEMMA TickStep == ASSUME DownloadInv, Tick PROVE DownloadInv'
  <1> DEFINE f == [p \in Peers |-> IF Present(p) THEN Aged(node.peer[p]) ELSE node.peer[p]]
  <1>1. BookOK(node) /\ node \in Books /\ Elsewhere /\ wanted' = wanted
    BY DEF DownloadInv, BookOK, Tick, Elsewhere
  <1>2. node.peer \in [Peers -> CNodeStates \cup {None, Left}] /\ \A p \in Peers : p \in Known(node) <=> Present(p)
    BY <1>1, BookParts DEF Present
  <1>3. \A a \in Nat : \A l \in Int : Older(a, l) \in Nat
    BY SMT DEF Older
  <1>4. \A a \in Nat \cup {None} : \A l \in Int : Older(a, l) \in Nat \cup {None} /\ (Older(a, l) = None <=> a = None)
    BY <1>3, PeersAssumption DEF Older
  <1>5. BLOCK_STALLING_TIMEOUT \in Int /\ HEADERS_DOWNLOAD_TIMEOUT \in Int /\ LongestTimeout \in Int
    <2>1. Cardinality(Peers) \in Nat
      BY PeersAssumption, FS_CardinalityType
    <2> QED BY SMT, <2>1, LimitsAssumption DEF LongestTimeout
  <1>6. ASSUME NEW s \in CNodeStates
        PROVE  Aged(s) \in CNodeStates /\ Alike(Aged(s), s) /\ Aged(s).lastCommon = s.lastCommon
    <2>1. s.nStallingSince \in Nat \cup {None} /\ s.nHeadersSyncSince \in Nat \cup {None} /\ s.nDownloadingSince \in Nat
      BY DEF CNodeStates
    <2> DEFINE a == Older(s.nStallingSince, BLOCK_STALLING_TIMEOUT)
               b == Older(s.nHeadersSyncSince, HEADERS_DOWNLOAD_TIMEOUT)
               c == Older(s.nDownloadingSince, LongestTimeout)
    <2>2. a \in Nat \cup {None} /\ b \in Nat \cup {None} /\ c \in Nat /\ (a # None => s.nStallingSince # None)
      BY <1>3, <1>4, <1>5, <2>1
    <2>3. Aged(s) = [s EXCEPT !.nStallingSince = a, !.nHeadersSyncSince = b, !.nDownloadingSince = c]
      BY DEF Aged
    <2> HIDE DEF a, b, c
    <2> QED BY <2>2, <2>3 DEF CNodeStates, Alike
  <1>7. node' = [node EXCEPT !.peer = f]
    BY DEF Tick
  <1>8. f \in [Peers -> CNodeStates \cup {None, Left}]
        /\ \A p \in Peers : f[p] = IF p \in Known(node) THEN Aged(node.peer[p]) ELSE node.peer[p]
    BY <1>2, <1>6 DEF Known
  <1> HIDE DEF f
  <1>9. /\ node' \in Books /\ node'.peer = f /\ node'.inFlight = node.inFlight
        /\ node'.nPreferredDownload = node.nPreferredDownload /\ node'.nSyncStarted = node.nSyncStarted
        /\ node'.nPeersWithValidatedDownloads = node.nPeersWithValidatedDownloads
    BY <1>1, <1>7, <1>8 DEF Books
  <1>10. ASSUME NEW p \in Known(node)
         PROVE  /\ Alike(node'.peer[p], node.peer[p]) /\ node'.peer[p].lastCommon = node.peer[p].lastCommon
                /\ node'.peer[p] \in CNodeStates
    BY <1>6, <1>8, <1>9 DEF Known
  <1>11. Known(node') = Known(node)
    BY <1>8, <1>9, <1>10 DEF Known
  <1>12. BookOK(node')
    BY <1>1, <1>9, <1>10, <1>11, SameBook
  <1> QED BY <1>1, <1>9, <1>10, <1>11, <1>12, QuietStep

\* The peers in mapNodeState.
LEMMA KnownPresent == ASSUME DownloadInv PROVE \A p \in Peers : Present(p) <=> p \in Known(node)
  BY BookParts DEF DownloadInv, BookOK, Present

\* A new peer starts with nothing in flight and no flag counted.
LEMMA InitializeStep == ASSUME DownloadInv, NEW p \in Peers, InitializeNode(p) PROVE DownloadInv'
  <1> DEFINE e == With(node, p, CNodeState)
  <1>1. BookOK(node) /\ node.peer[p] = None /\ Elsewhere /\ wanted' = wanted /\ node' = e
    BY DEF DownloadInv, InitializeNode, Elsewhere, With
  <1> HIDE DEF e
  <1>2. /\ BookOK(e) /\ Known(e) = Known(node) \cup {p} /\ e.inFlight = node.inFlight
        /\ e.peer[p].lastCommon = None /\ \A q \in Known(node) : e.peer[q] = node.peer[q]
    BY <1>1, InitializedBook DEF e
  <1>3. WantedOK(wanted') /\ AskedOK(node', wanted')
    BY <1>1, <1>2 DEF DownloadInv, AskedOK
  <1>4. CommonOK(node', data')
    BY <1>1, <1>2 DEF DownloadInv, CommonOK, Elsewhere
  <1> QED BY <1>1, <1>2, <1>3, <1>4, SameChains DEF DownloadInv

\* The version message of an outbound peer counts it as preferred, once.
LEMMA VersionStep == ASSUME DownloadInv, NEW p \in Peers, Version(p) PROVE DownloadInv'
  <1> DEFINE s == node.peer[p]
             out == p \in Outbound
             r == [s EXCEPT !.connected = TRUE, !.fPreferredDownload = out]
             n == IF out THEN node.nPreferredDownload + 1 ELSE node.nPreferredDownload
             m == node.nSyncStarted
             e == Flagged(node, p, r, n, m)
  <1>1. BookOK(node) /\ node \in Books /\ p \in Known(node) /\ ~s.connected /\ Elsewhere /\ wanted' = wanted
    BY KnownPresent DEF DownloadInv, BookOK, Version, Elsewhere
  <1>2. s \in CNodeStates /\ QueueOK(node, p, s) /\ node.nPreferredDownload \in Int /\ node.nSyncStarted \in Int
        /\ node.peer \in [Peers -> CNodeStates \cup {None, Left}]
    BY <1>1, BookParts DEF BookOK, QueuesOK, Known
  <1>3. ~s.fPreferredDownload
    BY <1>1, <1>2 DEF QueueOK
  <1>4. node' = e
    BY <1>1, <1>2 DEF Version, Books, Flagged
  <1>5. out \in BOOLEAN
    BY SMT
  <1>6. n \in Int /\ n = node.nPreferredDownload + Flag(out) - Flag(s.fPreferredDownload)
        /\ m \in Int /\ m = node.nSyncStarted + Flag(s.fSyncStarted) - Flag(s.fSyncStarted)
    BY SMT, <1>2, <1>3 DEF Flag
  <1> HIDE DEF n, m, out
  <1>7. /\ r \in CNodeStates /\ r.fPreferredDownload = out /\ r.connected = TRUE
        /\ r.vBlocksInFlight = s.vBlocksInFlight /\ r.nBlocksInFlight = s.nBlocksInFlight
        /\ r.nStallingSince = s.nStallingSince /\ r.lastCommon = s.lastCommon /\ r.fSyncStarted = s.fSyncStarted
    BY <1>2, <1>5 DEF CNodeStates
  <1> HIDE DEF r
  <1>8. FlagsOK(node, s, r, n, m)
    BY <1>6, <1>7 DEF FlagsOK
  <1>9. r \in CNodeStates /\ n \in Int /\ m \in Int
    BY <1>6, <1>7
  <1>10. /\ BookOK(e) /\ Known(e) = Known(node) /\ e.inFlight = node.inFlight
         /\ \A q \in Known(node) : e.peer[q].lastCommon = node.peer[q].lastCommon
    BY <1>1, <1>8, <1>9, FlaggedBook
  <1> HIDE DEF e
  <1> QED BY <1>1, <1>4, <1>10, QuietStep

\* Marking a peer for disconnection changes nothing that is counted.
LEMMA LeaveStep == ASSUME DownloadInv, NEW p \in Peers, Leave(p) PROVE DownloadInv'
  <1> DEFINE s == node.peer[p]
             r == [s EXCEPT !.fDisconnect = TRUE]
             e == With(node, p, r)
  <1>1. BookOK(node) /\ node \in Books /\ p \in Known(node) /\ Elsewhere /\ wanted' = wanted
    BY KnownPresent DEF DownloadInv, BookOK, Leave, Elsewhere
  <1>2. s \in CNodeStates
    BY <1>1 DEF Known
  <1>3. r \in CNodeStates /\ Kept(r, s)
    BY <1>2 DEF CNodeStates, Kept
  <1>4. node' = e
    BY <1>1 DEF Leave, With
  <1> HIDE DEF r
  <1>5. /\ BookOK(e) /\ Known(e) = Known(node) /\ e.inFlight = node.inFlight
        /\ \A q \in Known(node) : e.peer[q].lastCommon = node.peer[q].lastCommon
    BY <1>1, <1>3, KeptBook
  <1> HIDE DEF e
  <1> QED BY <1>1, <1>4, <1>5, QuietStep

\* FinalizeNode takes back all that the peer holds, and what it was asked for with it.
LEMMA FinalizeStep == ASSUME DownloadInv, NEW p \in Peers, FinalizeNode(p) PROVE DownloadInv'
  <1> DEFINE e == Finalized(node, p)
  <1>1. BookOK(node) /\ node \in Books /\ p \in Known(node) /\ Elsewhere /\ node' = e
        /\ wanted' = Sent(wanted, p, <<>>) /\ WantedOK(wanted) /\ AskedOK(node, wanted)
    BY KnownPresent DEF DownloadInv, BookOK, FinalizeNode, Elsewhere, Sent
  <1>2. /\ BookOK(e) /\ Known(e) = Known(node) \ {p}
        /\ \A b \in Blocks : e.inFlight[b] # None => e.inFlight[b] = node.inFlight[b] /\ e.inFlight[b] # p
        /\ \A q \in Known(e) : e.peer[q] = node.peer[q]
    BY <1>1, FinalizedBook
  <1> HIDE DEF e
  <1>3. <<>> \in Seq(Requests)
    BY SMT
  <1>4. p # None
    BY PeersAssumption
  <1>5. \A b \in Blocks : In(wanted[p], Asks(b)) => In(<<>>, Asks(b)) \/ e.inFlight[b] # p
    BY <1>2, <1>4
  <1>6. \A b \in Blocks : e.inFlight[b] # None => node.inFlight[b] = e.inFlight[b] \/ (e.inFlight[b] = p /\ In(<<>>, Asks(b)))
    BY <1>2
  <1>7. WantedOK(wanted') /\ AskedOK(e, wanted')
    <2>1. KeepsAsking(node, e, wanted, p, <<>>)
      BY <1>5, <1>6 DEF KeepsAsking
    <2> QED BY <1>1, <1>3, <2>1, AskedMore
  <1>8. CommonOK(node', data')
    BY <1>1, <1>2 DEF DownloadInv, CommonOK, Elsewhere
  <1> QED BY <1>1, <1>2, <1>7, <1>8, SameChains DEF DownloadInv

-----------------------------------------------------------------------------
(* SendMessages. *)

\* The books e are right, with the same peers, blocks in flight and last common blocks as d.
Quiet(e, d) ==
    /\ BookOK(e) /\ Known(e) = Known(d) /\ e.inFlight = d.inFlight
    /\ \A q \in Known(d) : e.peer[q].lastCommon = d.peer[q].lastCommon

\* Two quiet changes in a row are quiet.
LEMMA QuietTransitive == ASSUME NEW d, NEW e, NEW f, Quiet(f, e), Quiet(e, d) PROVE Quiet(f, d)
  BY DEF Quiet

\* Replacing a peer's state by one that keeps its queue and its flags is quiet.
LEMMA QuietKept ==
    ASSUME NEW d, BookOK(d), NEW p \in Known(d), NEW s \in CNodeStates, Kept(s, d.peer[p])
    PROVE  Quiet(With(d, p, s), d)
  <1> DEFINE e == With(d, p, s)
  <1>1. /\ BookOK(e) /\ Known(e) = Known(d) /\ e.inFlight = d.inFlight
        /\ \A q \in Known(d) : e.peer[q].lastCommon = d.peer[q].lastCommon
    BY KeptBook
  <1> HIDE DEF e
  <1> QED BY <1>1 DEF Quiet, e

\* The first request for headers.
LEMMA SyncQuiet == ASSUME BookOK(node), NEW p \in Known(node) PROVE Quiet(SyncStarted(p), node)
  <1>1. CASE ~StartsSync(p)
    BY <1>1 DEF SyncStarted, Quiet
  <1>2. CASE StartsSync(p)
    <2> DEFINE s == node.peer[p]
               r == [s EXCEPT !.fSyncStarted = TRUE, !.nHeadersSyncSince = 0]
               n == node.nPreferredDownload
               m == node.nSyncStarted + 1
               e == Flagged(node, p, r, n, m)
    <2>1. node \in Books /\ s \in CNodeStates /\ QueueOK(node, p, s) /\ n \in Int /\ node.nSyncStarted \in Int
          /\ node.peer \in [Peers -> CNodeStates \cup {None, Left}] /\ p \in Peers
      BY BookParts DEF BookOK, QueuesOK, Known
    <2>2. ~s.fSyncStarted /\ (s.fPreferredDownload => s.connected)
      BY <1>2, <2>1 DEF StartsSync, QueueOK
    <2>3. m \in Int /\ m = node.nSyncStarted + Flag(TRUE) - Flag(s.fSyncStarted)
          /\ n = node.nPreferredDownload + Flag(s.fPreferredDownload) - Flag(s.fPreferredDownload) /\ 0 \in Nat
      BY SMT, <2>1, <2>2 DEF Flag
    <2>4. SyncStarted(p) = e
      BY <1>2, <2>1 DEF SyncStarted, Books, Flagged
    <2>5. /\ r \in CNodeStates /\ r.fSyncStarted = TRUE /\ r.fPreferredDownload = s.fPreferredDownload
          /\ r.connected = s.connected /\ r.vBlocksInFlight = s.vBlocksInFlight
          /\ r.nBlocksInFlight = s.nBlocksInFlight
          /\ r.nStallingSince = s.nStallingSince /\ r.lastCommon = s.lastCommon
      BY <2>1, <2>3 DEF CNodeStates
    <2> HIDE DEF r, n, m
    <2>6. FlagsOK(node, s, r, n, m)
      BY <2>2, <2>3, <2>5 DEF FlagsOK
    <2>7. r \in CNodeStates /\ n \in Int /\ m \in Int
      BY <2>1, <2>3, <2>5
    <2>8. /\ BookOK(e) /\ Known(e) = Known(node) /\ e.inFlight = node.inFlight
          /\ \A q \in Known(node) : e.peer[q].lastCommon = node.peer[q].lastCommon
      BY <2>6, <2>7, FlaggedBook
    <2> HIDE DEF e
    <2> QED BY <2>4, <2>8 DEF Quiet
  <1> QED BY <1>1, <1>2

\* The request itself.
LEMMA InitialAsks == ASSUME bestHeader \in Blocks, NEW p PROVE InitialGetHeaders(p) \in Seq(Requests)
  <1> DEFINE b == IF bestHeader = Genesis THEN Genesis ELSE Parent[bestHeader]
  <1>1. b \in Blocks
    BY TreeAssumption
  <1>2. <<>> \in Seq(Requests)
    BY SMT
  <1>3. InitialGetHeaders(p) \in {<<>>, GetHeaders(b)}
    BY DEF InitialGetHeaders
  <1> HIDE DEF b
  <1> QED BY <1>1, <1>2, <1>3, GetHeadersAsks

\* Dropping the headers deadline of a peer is quiet.
LEMMA HeadersQuiet == ASSUME NEW d, BookOK(d), NEW p \in Known(d) PROVE Quiet(HeadersSynced(d, p), d)
  <1> DEFINE r == [d.peer[p] EXCEPT !.nHeadersSyncSince = None]
  <1>1. d.peer[p] \in CNodeStates
    BY DEF Known
  <1>2. r \in CNodeStates /\ Kept(r, d.peer[p])
    BY <1>1 DEF CNodeStates, Kept
  <1>3. Quiet(d, d)
    BY DEF Quiet
  <1>4. HeadersSynced(d, p) \in {d, With(d, p, r)}
    BY DEF HeadersSynced, With
  <1> HIDE DEF r
  <1> QED BY <1>2, <1>3, <1>4, QuietKept

\* A peer with a block in flight is accused of stalling.
LEMMA AccuseQuiet ==
    ASSUME NEW d, BookOK(d), NEW p, NEW q, q # None => \E b \in Blocks : d.inFlight[b] = q
    PROVE  Quiet(Accuse(d, p, q), d)
  <1>1. Quiet(d, d)
    BY DEF Quiet
  <1>2. CASE q = None
    BY <1>1, <1>2 DEF Accuse
  <1>3. CASE q # None
    <2> DEFINE s == d.peer[q]
               r == [s EXCEPT !.nStallingSince = 0]
               e == With(d, q, r)
    <2>1. PICK b \in Blocks : d.inFlight[b] = q
      BY <1>3
    <2>2. q \in Known(d)
      BY <1>3, <2>1 DEF BookOK, QueuesOK
    <2>3. s \in CNodeStates /\ QueueOK(d, q, s) /\ d \in Books /\ Known(d) \subseteq Peers
      BY <2>2 DEF BookOK, QueuesOK, Known
    <2>4. In(s.vBlocksInFlight, b)
      BY <2>1, <2>3 DEF QueueOK
    <2>5. s.vBlocksInFlight # <<>>
      BY SMT, <2>4 DEF In
    <2>6. 0 \in Nat
      BY SMT
    <2>7. r \in CNodeStates /\ Alike(r, s) /\ r.lastCommon = s.lastCommon
      BY <2>3, <2>5, <2>6 DEF CNodeStates, Alike
    <2>8. Accuse(d, p, q) \in {d, e}
      BY DEF Accuse, With
    <2> HIDE DEF r
    <2>9. BookOK(e)
      BY <2>2, <2>7, ReplacedAlike
    <2>10. /\ Known(e) = Known(d) /\ e.inFlight = d.inFlight /\ e.peer[q] = r
           /\ \A t \in Peers : t # q => e.peer[t] = d.peer[t]
      BY SMT, <2>2, <2>3, <2>7, Replaced
    <2> HIDE DEF e
    <2>11. \A t \in Known(d) : e.peer[t].lastCommon = d.peer[t].lastCommon
      BY <2>3, <2>7, <2>10
    <2>12. Quiet(e, d)
      BY <2>9, <2>10, <2>11 DEF Quiet
    <2> QED BY <1>1, <2>8, <2>12
  <1> QED BY <1>2, <1>3

\* A step that adds requests and keeps the blocks in flight.
LEMMA AskStep ==
    ASSUME DownloadInv, Elsewhere, NEW p \in Peers, NEW v \in Seq(Requests), wanted' = Sent(wanted, p, v),
           \A b \in Blocks : In(wanted[p], Asks(b)) => In(v, Asks(b)), Quiet(node', node)
    PROVE  DownloadInv'
  <1>1. node \in Books /\ WantedOK(wanted) /\ AskedOK(node, wanted) /\ ChainsOK
    BY DEF DownloadInv, BookOK
  <1>2. BookOK(node') /\ node'.inFlight = node.inFlight
    BY DEF Quiet
  <1>3. WantedOK(Sent(wanted, p, v)) /\ AskedOK(node', Sent(wanted, p, v))
    <2>1. KeepsAsking(node, node', wanted, p, v)
      BY <1>2 DEF KeepsAsking
    <2> QED BY <1>1, <2>1, AskedMore
  <1>4. CommonOK(node', data')
    BY DEF DownloadInv, CommonOK, Elsewhere, Quiet
  <1> QED BY <1>1, <1>2, <1>3, <1>4, SameChains DEF DownloadInv

\* A pass of SendMessages that ends in a disconnection for a timeout keeps the invariant.
LEMMA DisconnectStep == ASSUME DownloadInv, NEW p \in Peers, Disconnect(p) PROVE DownloadInv'
  <1> DEFINE d == SyncStarted(p)
             r == [d.peer[p] EXCEPT !.fDisconnect = TRUE]
             v == wanted[p] \o InitialGetHeaders(p)
  <1>1. BookOK(node) /\ p \in Known(node) /\ WantedOK(wanted) /\ bestHeader \in Blocks /\ Elsewhere
        /\ node' = With(d, p, r) /\ wanted' = Sent(wanted, p, v)
    BY KnownPresent DEF DownloadInv, ChainsOK, Disconnect, Up, Elsewhere, With, Sent
  <1>2. Quiet(d, node)
    BY <1>1, SyncQuiet
  <1> HIDE DEF d
  <1>3. BookOK(d) /\ p \in Known(d) /\ d.peer[p] \in CNodeStates
    BY <1>1, <1>2 DEF Quiet, Known
  <1>4. r \in CNodeStates /\ Kept(r, d.peer[p])
    BY <1>3 DEF CNodeStates, Kept
  <1> HIDE DEF r
  <1>5. Quiet(node', node)
    BY <1>1, <1>2, <1>3, <1>4, QuietKept, QuietTransitive
  <1>6. wanted[p] \in Seq(Requests) /\ InitialGetHeaders(p) \in Seq(Requests)
    BY <1>1, InitialAsks DEF WantedOK
  <1>7. v \in Seq(Requests) /\ \A b \in Blocks : In(wanted[p], Asks(b)) => In(v, Asks(b))
    BY <1>6, Appended
  <1> HIDE DEF v
  <1> QED BY <1>1, <1>5, <1>7, AskStep

\* Blocks are asked for: the books stay right, and the blocks in flight are those and the ones before.
LEMMA MarkedAsked ==
    ASSUME NEW d, BookOK(d), NEW p \in Known(d), NEW blocks, Askable(d, p, blocks)
    PROVE  LET e == MarkBlocksAsInFlight(d, p, blocks)
           IN  /\ BookOK(e) /\ Known(e) = Known(d)
               /\ \A b \in Blocks : In(blocks, b) => e.inFlight[b] = p
               /\ \A b \in Blocks : ~In(blocks, b) => e.inFlight[b] = d.inFlight[b]
               /\ \A q \in Known(d) : e.peer[q].lastCommon = d.peer[q].lastCommon
  <1> DEFINE e == MarkBlocksAsInFlight(d, p, blocks)
  <1>1. BookOK(e)
    BY MarkedBook
  <1>2. d \in Books /\ blocks \in Seq(Blocks) /\ Known(d) \subseteq Peers
    BY DEF BookOK, Askable, Known
  <1>3. /\ Known(e) = Known(d)
        /\ \A b \in Blocks : e.inFlight[b] = IF In(blocks, b) THEN p ELSE d.inFlight[b]
        /\ e.peer[p].lastCommon = d.peer[p].lastCommon
        /\ \A q \in Peers : q # p => e.peer[q] = d.peer[q]
    BY <1>2, MarkEffect
  <1> HIDE DEF e
  <1>4. \A q \in Known(d) : e.peer[q].lastCommon = d.peer[q].lastCommon
    <2> TAKE q \in Known(d)
    <2>1. CASE q = p
      BY <1>3, <2>1
    <2>2. CASE q # p
      BY <1>2, <1>3, <2>2
    <2> QED BY <2>1, <2>2
  <1> QED BY <1>1, <1>3, <1>4 DEF e

SetCommon(d, p, c) == [d EXCEPT !.peer[p].lastCommon = c]

\* The last common block of a peer is set.
LEMMA CommonSet ==
    ASSUME NEW d, BookOK(d), NEW p \in Known(d), NEW c \in Blocks \cup {None}
    PROVE  LET e == SetCommon(d, p, c)
           IN  /\ BookOK(e) /\ Known(e) = Known(d) /\ e.inFlight = d.inFlight
               /\ e.peer[p].lastCommon = c /\ e.peer[p].nBlocksInFlight = d.peer[p].nBlocksInFlight
               /\ \A q \in Peers : q # p => e.peer[q] = d.peer[q]
  <1> DEFINE s == d.peer[p]
             r == [s EXCEPT !.lastCommon = c]
             e == With(d, p, r)
  <1>1. d \in Books /\ s \in CNodeStates
    BY DEF BookOK, Known
  <1>2. r \in CNodeStates /\ Alike(r, s) /\ r.lastCommon = c /\ r.nBlocksInFlight = s.nBlocksInFlight
    BY <1>1 DEF CNodeStates, Alike
  <1>3. SetCommon(d, p, c) = e
    BY DEF With, SetCommon
  <1> HIDE DEF r
  <1>4. BookOK(e)
    BY <1>2, ReplacedAlike
  <1>5. /\ Known(e) = Known(d) /\ e.inFlight = d.inFlight /\ e.peer[p] = r
        /\ \A q \in Peers : q # p => e.peer[q] = d.peer[q]
    BY <1>1, <1>2, Replaced
  <1> HIDE DEF e
  <1> QED BY <1>2, <1>3, <1>4, <1>5

\* The blocks that FindNextBlocksToDownload gives are asked for.
LEMMA FetchStep ==
    ASSUME DownloadInv, Elsewhere, NEW p \in Known(node), NEW d, Quiet(d, node),
           NEW v \in Seq(Requests), \A b \in Blocks : In(wanted[p], Asks(b)) => In(v, Asks(b)),
           NEW next, next = FindNextBlocksToDownload(d, p),
           node' = Accuse(MarkBlocksAsInFlight(SetCommon(d, p, next.common), p, next.blocks),
                          p, next.staller),
           wanted' = Sent(wanted, p, v \o GetData(next.blocks))
    PROVE  DownloadInv'
  <1> DEFINE count == MAX_BLOCKS_IN_TRANSIT_PER_PEER - d.peer[p].nBlocksInFlight
             c == next.common
             blocks == next.blocks
             q == next.staller
             e == SetCommon(d, p, c)
             f == MarkBlocksAsInFlight(e, p, blocks)
             u == v \o GetData(blocks)
  <1>1. BookOK(d) /\ Known(d) = Known(node) /\ d.inFlight = node.inFlight
        /\ \A t \in Known(node) : d.peer[t].lastCommon = node.peer[t].lastCommon
    BY DEF Quiet
  <1>2. p \in Peers /\ tip \in Blocks /\ Upto[tip] \subseteq data /\ data' = data
        /\ node \in Books /\ WantedOK(wanted) /\ AskedOK(node, wanted)
        /\ \A t \in Known(node) : node.peer[t].lastCommon # None => Linked(node.peer[t].lastCommon)
    BY DEF DownloadInv, BookOK, ChainsOK, Known, CommonOK, Linked, Elsewhere
  <1>3. NextOK(d, count, next)
    <2>1. d.peer[p].lastCommon # None => Linked(d.peer[p].lastCommon)
      BY <1>1, <1>2
    <2> QED BY <1>1, <1>2, <2>1, FindNextSound
  <1>4. /\ c \in Blocks \cup {None} /\ (c # None => Linked(c))
        /\ blocks \in Seq(Blocks) /\ Once(blocks) /\ Len(blocks) <= count
        /\ \A b \in Blocks : In(blocks, b) => d.inFlight[b] = None
        /\ q # None => \E b \in Blocks : d.inFlight[b] = q
    BY <1>3 DEF NextOK
  <1> HIDE DEF count, c, blocks, q
  <1>5. /\ BookOK(e) /\ Known(e) = Known(d) /\ e.inFlight = d.inFlight
        /\ e.peer[p].lastCommon = c /\ e.peer[p].nBlocksInFlight = d.peer[p].nBlocksInFlight
        /\ \A t \in Peers : t # p => e.peer[t] = d.peer[t]
    <2>1. BookOK(d) /\ p \in Known(d) /\ c \in Blocks \cup {None}
      BY <1>1, <1>4
    <2> QED BY <2>1, CommonSet
  <1> HIDE DEF e
  <1>6. Askable(e, p, blocks)
    <2>1. d.peer[p].nBlocksInFlight \in Int
      BY <1>1 DEF Known, CNodeStates
    <2>2. Len(blocks) \in Nat /\ MAX_BLOCKS_IN_TRANSIT_PER_PEER \in Nat
      BY <1>4, EmptyQueue, LimitsAssumption
    <2>3. Len(blocks) <= count
      BY <1>4
    <2>4. d.peer[p].nBlocksInFlight + Len(blocks) <= MAX_BLOCKS_IN_TRANSIT_PER_PEER
      BY SMT, <2>1, <2>2, <2>3 DEF count
    <2> QED BY <1>4, <1>5, <2>4 DEF Askable
  <1>7. /\ BookOK(f) /\ Known(f) = Known(e)
        /\ \A b \in Blocks : In(blocks, b) => f.inFlight[b] = p
        /\ \A b \in Blocks : ~In(blocks, b) => f.inFlight[b] = e.inFlight[b]
        /\ \A t \in Known(e) : f.peer[t].lastCommon = e.peer[t].lastCommon
    <2>1. BookOK(e) /\ p \in Known(e)
      BY <1>1, <1>5
    <2> QED BY <1>6, <2>1, MarkedAsked
  <1>8. node' = Accuse(f, p, q)
    BY DEF e, c, blocks, q
  <1> HIDE DEF f
  <1>9. q # None => \E b \in Blocks : f.inFlight[b] = q
    <2> SUFFICES ASSUME q # None PROVE \E b \in Blocks : f.inFlight[b] = q
      OBVIOUS
    <2>1. PICK b \in Blocks : d.inFlight[b] = q
      BY <1>4
    <2>2. ~In(blocks, b)
      BY <1>4, <2>1
    <2> QED BY <1>5, <1>7, <2>1, <2>2
  <1>10. Quiet(node', f)
    <2>1. BookOK(f)
      BY <1>7
    <2> QED BY <1>8, <1>9, <2>1, AccuseQuiet
  <1>11. BookOK(node') /\ Known(node') = Known(node) /\ node'.inFlight = f.inFlight
    BY <1>1, <1>5, <1>7, <1>10 DEF Quiet
  <1>12. CommonOK(node', data')
    <2> SUFFICES ASSUME NEW t \in Known(node), node'.peer[t].lastCommon # None
                 PROVE  Linked(node'.peer[t].lastCommon)
      BY <1>2, <1>11 DEF CommonOK, Linked
    <2>1. node'.peer[t].lastCommon = e.peer[t].lastCommon
      BY SMT, <1>1, <1>5, <1>7, <1>10 DEF Quiet
    <2>2. CASE t = p
      BY <1>4, <1>5, <2>1, <2>2
    <2>3. CASE t # p
      BY <1>1, <1>2, <1>5, <2>1, <2>3 DEF Known
    <2> QED BY <2>2, <2>3
  <1>13. GetData(blocks) \in Seq(Requests) /\ \A b : In(blocks, b) => In(GetData(blocks), Asks(b))
    BY <1>4, GetDataAsks
  <1>14. u \in Seq(Requests) /\ \A x : In(v, x) \/ In(GetData(blocks), x) => In(u, x)
    BY <1>13, Appended
  <1> HIDE DEF u
  <1>15. \A b \in Blocks : In(wanted[p], Asks(b)) => In(u, Asks(b)) \/ node'.inFlight[b] # p
    BY <1>14
  <1>16. ASSUME NEW b \in Blocks, node'.inFlight[b] # None
         PROVE  node.inFlight[b] = node'.inFlight[b] \/ (node'.inFlight[b] = p /\ In(u, Asks(b)))
    <2>1. CASE In(blocks, b)
      BY <1>7, <1>11, <1>13, <1>14, <2>1
    <2>2. CASE ~In(blocks, b)
      BY <1>1, <1>5, <1>7, <1>11, <2>2
    <2> QED BY <2>1, <2>2
  <1>17. WantedOK(Sent(wanted, p, u)) /\ AskedOK(node', Sent(wanted, p, u))
    <2>1. KeepsAsking(node, node', wanted, p, u)
      BY <1>15, <1>16 DEF KeepsAsking
    <2> QED BY <1>2, <1>14, <2>1, AskedMore
  <1>18. WantedOK(wanted') /\ AskedOK(node', wanted')
    BY <1>17 DEF u, blocks
  <1> QED BY <1>11, <1>12, <1>18, SameChains DEF DownloadInv

\* A pass of SendMessages that goes on to request blocks keeps the invariant.
LEMMA SendStep == ASSUME DownloadInv, NEW p \in Peers, SendMessages(p) PROVE DownloadInv'
  <1> DEFINE v == wanted[p] \o InitialGetHeaders(p)
             d == HeadersSynced(SyncStarted(p), p)
             r == ProcessBlockAvailability(d.peer[p], headers)
             e == With(d, p, r)
             next == FindNextBlocksToDownload(e, p)
  <1>1. BookOK(node) /\ p \in Known(node) /\ WantedOK(wanted) /\ bestHeader \in Blocks /\ headers \in SUBSET Blocks
        /\ Elsewhere
    BY KnownPresent DEF DownloadInv, ChainsOK, SendMessages, Up, Elsewhere
  <1>2. Quiet(SyncStarted(p), node)
    BY <1>1, SyncQuiet
  <1>3. BookOK(SyncStarted(p)) /\ p \in Known(SyncStarted(p))
    BY <1>1, <1>2 DEF Quiet
  <1>4. Quiet(d, SyncStarted(p))
    BY <1>3, HeadersQuiet
  <1>5. Quiet(d, node)
    BY <1>2, <1>4, QuietTransitive
  <1>6. wanted[p] \in Seq(Requests) /\ InitialGetHeaders(p) \in Seq(Requests)
    BY <1>1, InitialAsks DEF WantedOK
  <1>7. v \in Seq(Requests) /\ \A b \in Blocks : In(wanted[p], Asks(b)) => In(v, Asks(b))
    BY <1>6, Appended
  <1>8. CASE MayFetch(d, p)
    <2>1. /\ node' = Accuse(MarkBlocksAsInFlight(SetCommon(e, p, next.common), p, next.blocks),
                             p, next.staller)
          /\ wanted' = Sent(wanted, p, v \o GetData(next.blocks))
      BY <1>8 DEF SendMessages, Sent, With, SetCommon
    <2> HIDE DEF d, v
    <2>2. BookOK(d) /\ p \in Known(d) /\ d.peer[p] \in CNodeStates
      BY <1>1, <1>5 DEF Quiet, Known
    <2>3. r \in CNodeStates /\ Kept(r, d.peer[p])
      BY <1>1, <2>2, ProcessKeeps
    <2> HIDE DEF r
    <2>4. Quiet(e, d)
      BY <2>2, <2>3, QuietKept
    <2>5. Quiet(e, node)
      BY <1>5, <2>4, QuietTransitive
    <2> HIDE DEF e
    <2> QED BY <1>1, <1>7, <2>1, <2>5, FetchStep
  <1>9. CASE ~MayFetch(d, p)
    <2>1. node' = d /\ wanted' = Sent(wanted, p, v)
      BY <1>9 DEF SendMessages, Sent
    <2> HIDE DEF d, v
    <2> QED BY <1>1, <1>5, <1>7, <2>1, AskStep
  <1> QED BY <1>8, <1>9

-----------------------------------------------------------------------------
(* What peers send. *)

\* The tips of a peer are blocks.
LEMMA ViewBlock ==
    ASSUME ChainsOK, NEW p \in Peers
    PROVE  /\ TipOf(p) \in Blocks /\ view \in [Peers -> Nat]
           /\ view[p] < Len(Views[p]) => /\ Views[p][view[p] + 1] \in Blocks
                                         /\ view[p] + 1 \in Nat /\ view[p] + 1 \in 1..Len(Views[p])
  <1>1. Views[p] \in Seq(Blocks) /\ view[p] \in 1..Len(Views[p]) /\ view \in [Peers -> Nat]
    BY PeersAssumption DEF ChainsOK
  <1> QED BY SMT, <1>1 DEF TipOf

\* A new tip.
LEMMA ViewMoves ==
    ASSUME ChainsOK, NEW p \in Peers, view[p] < Len(Views[p]), view' = [view EXCEPT ![p] = @ + 1]
    PROVE  view' \in [Peers -> Nat] /\ \A q \in Peers : view'[q] \in 1..Len(Views[q])
  <1>1. view \in [Peers -> Nat] /\ view[p] + 1 \in Nat /\ view[p] + 1 \in 1..Len(Views[p])
        /\ \A q \in Peers : view[q] \in 1..Len(Views[q])
    BY ViewBlock DEF ChainsOK
  <1>2. view' = [view EXCEPT ![p] = view[p] + 1]
    OBVIOUS
  <1> DEFINE n == view[p] + 1
  <1> HIDE DEF n
  <1> QED BY <1>1, <1>2 DEF n

\* Headers are added to mapBlockIndex.
LEMMA HeadersAccepted ==
    ASSUME ChainsOK, NEW b \in Blocks, AcceptHeaders(b)
    PROVE  headers' \in SUBSET Blocks /\ bestHeader' \in Blocks
  BY ChainOf DEF AcceptHeaders, ChainsOK

\* Headers that connect: some blocks may be asked for at once.
LEMMA HeadersProcessed ==
    ASSUME DownloadInv, NEW p \in Known(node), NEW b \in Blocks, NEW rest \in Seq(Requests),
           \A a \in Blocks : In(wanted[p], Asks(a)) => In(rest, Asks(a)),
           ProcessHeadersMessage(p, b, rest), data' = data
    PROVE  /\ BookOK(node') /\ WantedOK(wanted') /\ AskedOK(node', wanted') /\ CommonOK(node', data')
           /\ headers' \in SUBSET Blocks /\ bestHeader' \in Blocks
  <1> DEFINE blocks == DirectFetch(node, p, b)
             known == headers \cup Upto[b]
             f == MarkBlocksAsInFlight(node, p, blocks)
             r == UpdateBlockAvailability(f.peer[p], b, known)
             u == rest \o GetData(blocks)
  <1>1. /\ BookOK(node) /\ node \in Books /\ p \in Peers /\ WantedOK(wanted) /\ AskedOK(node, wanted) /\ ChainsOK
        /\ AcceptHeaders(b) /\ node' = With(f, p, r) /\ wanted' = Sent(wanted, p, u)
    BY DEF DownloadInv, BookOK, Known, ProcessHeadersMessage, With, Sent
  <1>2. headers' \in SUBSET Blocks /\ bestHeader' \in Blocks /\ known \in SUBSET Blocks
    BY <1>1, HeadersAccepted, ChainOf DEF ChainsOK
  <1>3. Askable(node, p, blocks)
    BY <1>1, DirectFetchSound
  <1> HIDE DEF blocks, known
  <1>4. /\ BookOK(f) /\ Known(f) = Known(node)
        /\ \A a \in Blocks : In(blocks, a) => f.inFlight[a] = p
        /\ \A a \in Blocks : ~In(blocks, a) => f.inFlight[a] = node.inFlight[a]
        /\ \A t \in Known(node) : f.peer[t].lastCommon = node.peer[t].lastCommon
    BY SMT, <1>1, <1>3, MarkedAsked
  <1> HIDE DEF f
  <1>5. f.peer[p] \in CNodeStates /\ BookOK(f) /\ p \in Known(f)
    BY <1>4 DEF Known
  <1>6. r \in CNodeStates /\ Kept(r, f.peer[p])
    BY <1>2, <1>5, UpdateKeeps
  <1> HIDE DEF r
  <1>7. Quiet(node', f)
    BY <1>1, <1>5, <1>6, QuietKept
  <1>8. BookOK(node') /\ Known(node') = Known(node) /\ node'.inFlight = f.inFlight
    BY <1>4, <1>7 DEF Quiet
  <1>9. CommonOK(node', data')
    BY <1>4, <1>7 DEF Quiet, CommonOK, DownloadInv
  <1>10. GetData(blocks) \in Seq(Requests) /\ \A a : In(blocks, a) => In(GetData(blocks), Asks(a))
    BY <1>3, GetDataAsks DEF Askable
  <1>11. u \in Seq(Requests) /\ \A x : In(rest, x) \/ In(GetData(blocks), x) => In(u, x)
    BY <1>10, Appended
  <1> HIDE DEF u
  <1>12. \A a \in Blocks : In(wanted[p], Asks(a)) => In(u, Asks(a)) \/ node'.inFlight[a] # p
    BY <1>11
  <1>13. ASSUME NEW a \in Blocks, node'.inFlight[a] # None
         PROVE  node.inFlight[a] = node'.inFlight[a] \/ (node'.inFlight[a] = p /\ In(u, Asks(a)))
    <2>1. CASE In(blocks, a)
      BY <1>4, <1>8, <1>10, <1>11, <2>1
    <2>2. CASE ~In(blocks, a)
      BY <1>4, <1>8, <2>2
    <2> QED BY <2>1, <2>2
  <1>14. WantedOK(Sent(wanted, p, u)) /\ AskedOK(node', Sent(wanted, p, u))
    <2>1. KeepsAsking(node, node', wanted, p, u)
      BY <1>12, <1>13 DEF KeepsAsking
    <2> QED BY <1>1, <1>11, <2>1, AskedMore
  <1> QED BY <1>1, <1>2, <1>8, <1>9, <1>14

\* The answer to getheaders.
LEMMA HeadersStep == ASSUME DownloadInv, NEW p \in Peers, Headers(p) PROVE DownloadInv'
  <1> DEFINE w == wanted[p]
             rest == Tail(w)
  <1>1. p \in Known(node) /\ w \in Seq(Requests) /\ w # <<>> /\ Head(w).kind = "headers" /\ ChainsOK
        /\ data' = data /\ tip' = tip /\ view' = view
    BY KnownPresent DEF DownloadInv, WantedOK, Headers, Up
  <1>2. rest \in Seq(Requests) /\ \A x : In(w, x) /\ x # Head(w) => In(rest, x)
    BY <1>1, Answering
  <1>3. \A a \in Blocks : Asks(a) # Head(w)
    <2>1. \A a \in Blocks : Asks(a).kind = "block"
      BY DEF Asks
    <2>2. "block" # "headers"
      BY SMT
    <2> QED BY <1>1, <2>1, <2>2
  <1>4. \A a \in Blocks : In(w, Asks(a)) => In(rest, Asks(a))
    BY <1>2, <1>3
  <1>5. CASE TipOf(p) \in Upto[Head(w).block]
    <2>1. Elsewhere /\ node' = node /\ wanted' = Sent(wanted, p, rest)
      BY <1>1, <1>5 DEF Headers, Elsewhere, Sent
    <2>2. Quiet(node', node)
      BY <2>1 DEF Quiet, DownloadInv
    <2> QED BY <1>2, <1>4, <2>1, <2>2, AskStep
  <1>6. CASE TipOf(p) \notin Upto[Head(w).block]
    <2>1. ProcessHeadersMessage(p, TipOf(p), rest)
      BY <1>6 DEF Headers
    <2>2. TipOf(p) \in Blocks
      BY <1>1, ViewBlock
    <2>3. /\ BookOK(node') /\ WantedOK(wanted') /\ AskedOK(node', wanted') /\ CommonOK(node', data')
          /\ headers' \in SUBSET Blocks /\ bestHeader' \in Blocks
      BY <1>1, <1>2, <1>4, <2>1, <2>2, HeadersProcessed
    <2> QED BY <1>1, <2>3 DEF DownloadInv, ChainsOK
  <1> QED BY <1>5, <1>6

\* A block arrives.
LEMMA BlockReceived ==
    ASSUME DownloadInv, NEW b \in Blocks, ReceiveBlock(b), view' = view
    PROVE  /\ BookOK(node') /\ CommonOK(node', data') /\ ChainsOK'
           /\ node'.inFlight[b] = None /\ \A a \in Blocks : a # b => node'.inFlight[a] = node.inFlight[a]
  <1> DEFINE e == MarkBlockAsReceived(node, b)
  <1>1. BookOK(node) /\ ChainsOK /\ node' = e /\ CommonOK(node, data)
    BY DEF DownloadInv, ReceiveBlock
  <1>2. /\ BookOK(e) /\ Known(e) = Known(node)
        /\ e.inFlight[b] = None /\ \A a \in Blocks : a # b => e.inFlight[a] = node.inFlight[a]
        /\ \A q \in Known(node) : e.peer[q].lastCommon = node.peer[q].lastCommon
    BY <1>1, ReceivedBook
  <1> HIDE DEF e
  <1>3. headers' \in SUBSET Blocks /\ bestHeader' \in Blocks
    <2>1. CASE Considers(b)
      BY <1>1, <2>1, HeadersAccepted DEF ReceiveBlock
    <2>2. CASE ~Considers(b)
      <3>1. UNCHANGED <<headers, bestHeader>>
        BY <2>2 DEF ReceiveBlock
      <3> QED BY <1>1, <3>1 DEF ChainsOK
    <2> QED BY <2>1, <2>2
  <1>4. ChainsOK' /\ data \subseteq data'
    <2>1. CASE data' = data \cup {b} /\ ActivateBestChain(data')
      <3>1. data' \in SUBSET Blocks /\ data \subseteq data'
        BY <1>1, <2>1 DEF ChainsOK
      <3>2. tip' = tip \/ (tip' \in data' /\ Upto[tip'] \subseteq data')
        BY <2>1 DEF ActivateBestChain
      <3>3. tip' \in Blocks /\ Upto[tip'] \subseteq data'
        BY <1>1, <3>1, <3>2 DEF ChainsOK
      <3> QED BY <1>1, <1>3, <3>1, <3>3 DEF ChainsOK
    <2>2. CASE UNCHANGED <<data, tip>>
      BY <1>1, <1>3, <2>2 DEF ChainsOK
    <2> QED BY <2>1, <2>2 DEF ReceiveBlock
  <1>5. CommonOK(node', data')
    BY <1>1, <1>2, <1>4 DEF CommonOK
  <1> QED BY <1>1, <1>2, <1>4, <1>5

\* The answer to getdata.
LEMMA BlockStep == ASSUME DownloadInv, NEW p \in Peers, Block(p) PROVE DownloadInv'
  <1> DEFINE w == wanted[p]
             b == Head(w).block
             rest == Tail(w)
  <1>1. /\ node \in Books /\ WantedOK(wanted) /\ AskedOK(node, wanted) /\ w \in Seq(Requests) /\ w # <<>>
        /\ Head(w).kind = "block" /\ ReceiveBlock(b) /\ wanted' = Sent(wanted, p, rest) /\ view' = view
    BY DEF DownloadInv, BookOK, WantedOK, Block, Sent
  <1>2. Head(w) \in Requests /\ rest \in Seq(Requests) /\ \A x : In(w, x) /\ x # Head(w) => In(rest, x)
    BY <1>1, Answering
  <1>3. b \in Blocks
    BY <1>2 DEF Requests
  <1>4. \A a \in Blocks : a # b => Asks(a) # Head(w)
    <2>1. \A a \in Blocks : Asks(a).block = a
      BY DEF Asks
    <2> QED BY <2>1
  <1>5. /\ BookOK(node') /\ CommonOK(node', data') /\ ChainsOK'
        /\ node'.inFlight[b] = None /\ \A a \in Blocks : a # b => node'.inFlight[a] = node.inFlight[a]
    BY <1>1, <1>3, BlockReceived
  <1> HIDE DEF b, rest
  <1>6. p # None
    BY PeersAssumption
  <1>7. ASSUME NEW a \in Blocks, In(w, Asks(a)) PROVE In(rest, Asks(a)) \/ node'.inFlight[a] # p
    <2>1. CASE a = b
      BY <1>5, <1>6, <2>1
    <2>2. CASE a # b
      BY <1>2, <1>4, <1>7, <2>2
    <2> QED BY <2>1, <2>2
  <1>8. \A a \in Blocks : node'.inFlight[a] # None =>
            node.inFlight[a] = node'.inFlight[a] \/ (node'.inFlight[a] = p /\ In(rest, Asks(a)))
    BY <1>5
  <1>9. WantedOK(Sent(wanted, p, rest)) /\ AskedOK(node', Sent(wanted, p, rest))
    <2>1. KeepsAsking(node, node', wanted, p, rest)
      BY <1>7, <1>8 DEF KeepsAsking
    <2> QED BY <1>1, <1>2, <2>1, AskedMore
  <1> QED BY <1>1, <1>5, <1>9 DEF DownloadInv

\* A block from a peer that was not asked for it.
LEMMA UnaskedStep == ASSUME DownloadInv, NEW p \in Peers, BlockUnasked(p) PROVE DownloadInv'
  <1> DEFINE b == TipOf(p)
  <1>1. AskedOK(node, wanted) /\ WantedOK(wanted) /\ ChainsOK /\ ReceiveBlock(b) /\ wanted' = wanted /\ view' = view
    BY DEF DownloadInv, BlockUnasked
  <1>2. b \in Blocks
    BY <1>1, ViewBlock
  <1> HIDE DEF b
  <1>3. /\ BookOK(node') /\ CommonOK(node', data') /\ ChainsOK'
        /\ node'.inFlight[b] = None /\ \A a \in Blocks : a # b => node'.inFlight[a] = node.inFlight[a]
    BY <1>1, <1>2, BlockReceived
  <1>4. AskedOK(node', wanted')
    BY <1>1, <1>3 DEF AskedOK
  <1> QED BY <1>1, <1>3, <1>4 DEF DownloadInv

\* A step that updates what is known of a peer's blocks and may ask it for headers.
LEMMA AnnouncedStep ==
    ASSUME DownloadInv, NEW p \in Known(node), NEW b \in Blocks, NEW v \in Seq(Requests),
           \A a \in Blocks : In(wanted[p], Asks(a)) => In(v, Asks(a)), wanted' = Sent(wanted, p, v),
           node' = With(node, p, UpdateBlockAvailability(node.peer[p], b, headers)),
           UNCHANGED <<headers, bestHeader, data, tip>>,
           view' \in [Peers -> Nat], \A q \in Peers : view'[q] \in 1..Len(Views[q])
    PROVE  DownloadInv'
  <1> DEFINE r == UpdateBlockAvailability(node.peer[p], b, headers)
  <1>1. node.peer[p] \in CNodeStates /\ headers \in SUBSET Blocks /\ BookOK(node) /\ ChainsOK /\ p \in Peers
        /\ node \in Books /\ WantedOK(wanted) /\ AskedOK(node, wanted)
    BY DEF DownloadInv, BookOK, ChainsOK, Known
  <1>2. r \in CNodeStates /\ Kept(r, node.peer[p])
    BY <1>1, UpdateKeeps
  <1> HIDE DEF r
  <1>3. Quiet(node', node)
    BY <1>1, <1>2, QuietKept DEF r
  <1>4. BookOK(node') /\ node'.inFlight = node.inFlight /\ CommonOK(node', data')
    BY <1>3 DEF Quiet, CommonOK, DownloadInv
  <1>5. WantedOK(Sent(wanted, p, v)) /\ AskedOK(node', Sent(wanted, p, v))
    <2>1. KeepsAsking(node, node', wanted, p, v)
      BY <1>4 DEF KeepsAsking
    <2> QED BY <1>1, <2>1, AskedMore
  <1>6. ChainsOK'
    BY <1>1 DEF ChainsOK
  <1> QED BY <1>4, <1>5, <1>6 DEF DownloadInv

\* A new tip, announced with its header.
LEMMA AnnounceHeaderStep == ASSUME DownloadInv, NEW p \in Peers, AnnounceHeader(p) PROVE DownloadInv'
  <1> DEFINE b == Views[p][view[p] + 1]
             v == wanted[p] \o GetHeaders(bestHeader)
  <1>1. p \in Known(node) /\ ChainsOK /\ wanted[p] \in Seq(Requests) /\ bestHeader \in Blocks
        /\ view[p] < Len(Views[p]) /\ view' = [view EXCEPT ![p] = @ + 1] /\ data' = data /\ tip' = tip
    BY KnownPresent DEF DownloadInv, WantedOK, ChainsOK, AnnounceHeader, Up
  <1>2. b \in Blocks
    BY <1>1, ViewBlock
  <1>3. view' \in [Peers -> Nat] /\ \A q \in Peers : view'[q] \in 1..Len(Views[q])
    BY <1>1, ViewMoves
  <1>4. CASE Parent[b] \in headers
    <2>1. ProcessHeadersMessage(p, b, wanted[p])
      BY <1>4 DEF AnnounceHeader
    <2> HIDE DEF b
    <2>2. /\ BookOK(node') /\ WantedOK(wanted') /\ AskedOK(node', wanted') /\ CommonOK(node', data')
          /\ headers' \in SUBSET Blocks /\ bestHeader' \in Blocks
      BY <1>1, <1>2, <2>1, HeadersProcessed
    <2> QED BY <1>1, <1>3, <2>2 DEF DownloadInv, ChainsOK
  <1>5. CASE Parent[b] \notin headers
    <2>1. /\ node' = With(node, p, UpdateBlockAvailability(node.peer[p], b, headers))
          /\ wanted' = Sent(wanted, p, v) /\ UNCHANGED <<headers, bestHeader, data, tip>>
      BY <1>5 DEF AnnounceHeader, With, Sent
    <2>2. GetHeaders(bestHeader) \in Seq(Requests)
      BY <1>1, GetHeadersAsks
    <2>3. v \in Seq(Requests) /\ \A a \in Blocks : In(wanted[p], Asks(a)) => In(v, Asks(a))
      BY <1>1, <2>2, Appended
    <2> HIDE DEF b, v
    <2> QED BY <1>1, <1>2, <1>3, <2>1, <2>3, AnnouncedStep
  <1> QED BY <1>4, <1>5

\* A new tip, announced with an inv message.
LEMMA AnnounceInvStep == ASSUME DownloadInv, NEW p \in Peers, AnnounceInv(p) PROVE DownloadInv'
  <1> DEFINE b == Views[p][view[p] + 1]
             v == IF b \in headers \/ node.inFlight[b] # None THEN wanted[p]
                  ELSE wanted[p] \o GetHeaders(bestHeader)
  <1>1. p \in Known(node) /\ ChainsOK /\ wanted[p] \in Seq(Requests) /\ bestHeader \in Blocks
        /\ view[p] < Len(Views[p]) /\ view' = [view EXCEPT ![p] = @ + 1]
    BY KnownPresent DEF DownloadInv, WantedOK, ChainsOK, AnnounceInv, Up
  <1>2. b \in Blocks
    BY <1>1, ViewBlock
  <1>3. view' \in [Peers -> Nat] /\ \A q \in Peers : view'[q] \in 1..Len(Views[q])
    BY <1>1, ViewMoves
  <1>4. /\ node' = With(node, p, UpdateBlockAvailability(node.peer[p], b, headers))
        /\ wanted' = Sent(wanted, p, v) /\ UNCHANGED <<headers, bestHeader, data, tip>>
    BY DEF AnnounceInv, With, Sent
  <1>5. GetHeaders(bestHeader) \in Seq(Requests)
    BY <1>1, GetHeadersAsks
  <1>6. /\ wanted[p] \o GetHeaders(bestHeader) \in Seq(Requests)
        /\ \A a \in Blocks : In(wanted[p], Asks(a)) => In(wanted[p] \o GetHeaders(bestHeader), Asks(a))
    BY <1>1, <1>5, Appended
  <1>7. v \in Seq(Requests) /\ \A a \in Blocks : In(wanted[p], Asks(a)) => In(v, Asks(a))
    BY <1>1, <1>6
  <1> HIDE DEF b, v
  <1> QED BY <1>1, <1>2, <1>3, <1>4, <1>7, AnnouncedStep

-----------------------------------------------------------------------------
(* The theorem. *)

\* Every step keeps the invariant.
LEMMA NextDownload == DownloadInv /\ [Next]_vars => DownloadInv'
  <1> SUFFICES ASSUME DownloadInv, [Next]_vars PROVE DownloadInv'
    OBVIOUS
  <1>1. CASE UNCHANGED vars
    BY <1>1 DEF vars, DownloadInv, ChainsOK
  <1>2. CASE Tick
    BY <1>2, TickStep
  <1>3. ASSUME NEW p \in Peers,
               \/ InitializeNode(p) \/ Version(p) \/ Leave(p) \/ FinalizeNode(p)
               \/ SendMessages(p) \/ Disconnect(p)
               \/ Headers(p) \/ Block(p) \/ BlockUnasked(p)
               \/ AnnounceHeader(p) \/ AnnounceInv(p)
        PROVE  DownloadInv'
    BY <1>3, InitializeStep, VersionStep, LeaveStep, FinalizeStep, SendStep, DisconnectStep,
       HeadersStep, BlockStep, UnaskedStep, AnnounceHeaderStep, AnnounceInvStep
  <1> QED BY <1>1, <1>2, <1>3 DEF Next

\* A queue without repetitions is as long as the set of its blocks is large.
LEMMA QueueCounts ==
    ASSUME NEW v \in Seq(Blocks), Once(v)
    PROVE  Cardinality(Range(v)) = Len(v) /\ \A b : b \in Range(v) <=> In(v, b)
  <1> DEFINE n == Len(v)
             R == Range(v)
  <1>1. n \in Nat /\ DOMAIN v = 1..n /\ v \in [1..n -> Blocks]
    BY SMT
  <1>2. \A b : b \in R <=> In(v, b)
    BY InRange
  <1>3. v \in [1..n -> R] /\ (\A i \in 1..n : v[i] \in R) /\ \A b \in R : \E i \in 1..n : v[i] = b
    BY <1>1 DEF Range
  <1>4. v \in Bijection(1..n, R)
    BY <1>1, <1>3 DEF Once, Bijection, Injection, Surjection, IsInjective
  <1>5. IsFiniteSet(1..n) /\ Cardinality(1..n) = n
    <2>1. 1 \in Int /\ n \in Int
      BY SMT, <1>1
    <2>2. IsFiniteSet(1..n) /\ Cardinality(1..n) = IF 1 > n THEN 0 ELSE n - 1 + 1
      BY <2>1, FS_Interval
    <2> HIDE DEF n
    <2> QED BY SMT, <1>1, <2>2
  <1>6. Cardinality(R) = n
    BY <1>4, <1>5, FS_Bijection DEF ExistsBijection
  <1> QED BY <1>2, <1>6

\* The invariant says what the run checks.
LEMMA InvSound == DownloadInv => DownloadsSound
  <1> SUFFICES ASSUME DownloadInv PROVE DownloadsSound
    OBVIOUS
  <1>1. BookOK(node) /\ AskedOK(node, wanted) /\ CommonOK(node, data)
    BY DEF DownloadInv
  <1>2. Connected = Known(node)
    BY KnownPresent DEF Connected, Known
  <1>3. ASSUME NEW p \in Known(node)
        PROVE  LET s == node.peer[p] IN
               /\ s.nBlocksInFlight = Len(s.vBlocksInFlight)
               /\ Range(s.vBlocksInFlight) = {b \in Blocks : node.inFlight[b] = p}
               /\ Cardinality(Range(s.vBlocksInFlight)) = s.nBlocksInFlight
               /\ s.nBlocksInFlight <= MAX_BLOCKS_IN_TRANSIT_PER_PEER
               /\ s.nStallingSince # None => s.vBlocksInFlight # <<>>
    <2> DEFINE s == node.peer[p]
               v == s.vBlocksInFlight
    <2>1. QueueOK(node, p, s) /\ s \in CNodeStates
      BY <1>1 DEF BookOK, QueuesOK, Known
    <2>2. v \in Seq(Blocks) /\ Once(v) /\ s.nBlocksInFlight = Len(v) /\ s.nBlocksInFlight <= MAX_BLOCKS_IN_TRANSIT_PER_PEER
          /\ (s.nStallingSince # None => v # <<>>) /\ \A b \in Blocks : node.inFlight[b] = p <=> In(v, b)
      BY <2>1 DEF QueueOK, CNodeStates
    <2>3. Cardinality(Range(v)) = Len(v) /\ \A b : b \in Range(v) <=> In(v, b)
      BY <2>2, QueueCounts
    <2>4. \A b : In(v, b) => b \in Blocks
      BY SMT, <2>2 DEF In
    <2>5. \A b : b \in Range(v) <=> b \in {a \in Blocks : node.inFlight[a] = p}
      BY <2>2, <2>3, <2>4
    <2>6. Range(v) = {b \in Blocks : node.inFlight[b] = p}
      BY SMT, <2>5
    <2> QED BY <2>2, <2>3, <2>6
  <1>4. DownloadsAgree
    <2>1. \A b \in Blocks : node.inFlight[b] # None => node.inFlight[b] \in Connected
      BY <1>1, <1>2 DEF BookOK, QueuesOK
    <2>2. /\ node.nPeersWithValidatedDownloads = Cardinality({p \in Connected : node.peer[p].vBlocksInFlight # <<>>})
          /\ node.nPreferredDownload = Cardinality({p \in Connected : node.peer[p].fPreferredDownload})
          /\ node.nSyncStarted = Cardinality({p \in Connected : node.peer[p].fSyncStarted})
      BY <1>1, <1>2 DEF BookOK, CountsOK, Busy, Preferred, Syncing
    <2> QED BY <1>2, <1>3, <2>1, <2>2 DEF DownloadsAgree
  <1>5. InFlightAsked
    <2> SUFFICES ASSUME NEW b \in Blocks, node.inFlight[b] # None
                 PROVE  Asks(b) \in Range(wanted[node.inFlight[b]])
      BY DEF InFlightAsked, Asks
    <2> DEFINE p == node.inFlight[b]
    <2>1. p \in Known(node) /\ Known(node) \subseteq Peers
      BY <1>1 DEF BookOK, QueuesOK, Known
    <2>2. wanted[p] \in Seq(Requests)
      BY <2>1 DEF DownloadInv, WantedOK
    <2>3. In(wanted[p], Asks(b))
      BY <1>1 DEF AskedOK
    <2> QED BY <2>2, <2>3, InRange
  <1>6. StallersOwe /\ NothingSkipped
    BY <1>1, <1>2, <1>3 DEF StallersOwe, NothingSkipped, CommonOK, Linked
  <1> QED BY <1>4, <1>5, <1>6 DEF DownloadsSound

\* Whatever the tree of blocks, the peers and the limits are, and in whatever order messages are
\* handled, peers leave and time passes: mapBlocksInFlight, the queues of the peers and the three
\* counters agree, no peer has more than MAX_BLOCKS_IN_TRANSIT_PER_PEER blocks in flight, each of
\* them has been asked for since it last arrived, a peer accused of stalling has a block to send,
\* and all blocks up to the last common block with a peer have been received.
THEOREM DownloadsStaySound == Spec => []DownloadsSound
  <1>1. Init => DownloadInv
    BY InitDownload
  <1>2. DownloadInv /\ [Next]_vars => DownloadInv'
    BY NextDownload
  <1>3. DownloadInv => DownloadsSound
    BY InvSound
  <1> QED BY <1>1, <1>2, <1>3, PTL DEF Spec
=============================================================================
