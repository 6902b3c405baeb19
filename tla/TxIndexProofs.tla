--------------------------- MODULE TxIndexProofs ---------------------------
(***************************************************************************)
(* The safety properties of TxIndex for every tree of blocks and every     *)
(* length of the callback queue.                                           *)
(***************************************************************************)
EXTENDS TxIndex, TLAPS

\* The connected blocks in a queue: a later one builds on an ancestor of the one before it, and
\* the tip is the last one or below it.  Both are said without a notion of "next" or "last".
Conn(q) == {i \in 1..Len(q) : q[i].kind = "connected"}
Linked(q) ==
    \A i, j \in Conn(q) : i < j =>
        \E k \in Conn(q) : i < k /\ k <= j /\ Connects(q[i].block, q[k].block)
Ends(q, t) == \A i \in Conn(q) : \E j \in Conn(q) : i <= j /\ t \in Anc[q[j].block]

\* Some pending block connects to the one that the index is at.
Reaches(q, best) == \E i \in Conn(q) : Connects(best, q[i].block)

\* The same, and the tip that a reader has asked for is reached before its callback.
Serves(q, best, a) ==
    \E i, j \in Conn(q) :
        /\ i <= j /\ Connects(best, q[i].block) /\ a \in Anc[q[j].block]
        /\ \A k \in 1..Len(q) : q[k].kind = "drained" => j < k

\* There is one reader.
OneDrained(q) == \A k, l \in 1..Len(q) : q[k].kind = "drained" /\ q[l].kind = "drained" => k = l
NoneDrained(q) == \A k \in 1..Len(q) : q[k].kind # "drained"

Written == indexed \cup missed \cup {Genesis}

\* Where the sync thread is, all below is covered.
SyncOK ==
    pc # "off" =>
        /\ phase # "down" /\ ~m_synced /\ pindex \in Blocks
        /\ pc = "next" => Anc[pindex] \subseteq Written
        /\ pc # "next" => pindex # Genesis /\ Anc[pprev[pindex]] \subseteq Written

DownOK == phase = "down" => queue = <<>> /\ rpc = "idle" /\ ~m_synced

QueueOK == Linked(queue) /\ (Conn(queue) # {} => tip # None /\ Ends(queue, tip))

HandOverOK ==
    phase = "up" /\ m_synced /\ tip # None
    => tip \in Branch(m_best_block_index) \/ Reaches(queue, m_best_block_index)

ReaderOK ==
    /\ rpc # "idle" => m_synced /\ asked \in Blocks
    /\ OneDrained(queue)
    /\ rpc # "waiting" => NoneDrained(queue)
    /\ rpc # "idle" /\ phase = "up"
       => Anc[asked] \subseteq Written \/ Serves(queue, m_best_block_index, asked)

IInv ==
    /\ TypeOK /\ BestIsCovered /\ LocatorIsCovered
    /\ SyncOK /\ DownOK /\ QueueOK /\ HandOverOK /\ ReaderOK

-----------------------------------------------------------------------------
\* What a callback appended to a queue leaves of it.
LEMMA PushFacts ==
    ASSUME NEW q \in Seq(Callbacks), NEW c \in Callbacks
    PROVE  /\ Append(q, c) \in Seq(Callbacks) /\ Len(Append(q, c)) = Len(q) + 1
           /\ \A i \in 1..Len(q) : Append(q, c)[i] = q[i]
           /\ Append(q, c)[Len(q) + 1] = c
           /\ Conn(q) \subseteq Conn(Append(q, c))
           /\ Conn(Append(q, c)) \subseteq Conn(q) \cup {Len(q) + 1}
           /\ Len(q) + 1 \in Conn(Append(q, c)) <=> c.kind = "connected"
BY DEF Conn

\* Blocks in a queue are blocks.
LEMMA ConnBlocks ==
    ASSUME NEW q \in Seq(Callbacks), NEW i \in Conn(q)
    PROVE  q[i].block \in Blocks /\ i \in 1..Len(q) /\ i \in Nat
<1>1. i \in 1..Len(q) /\ q[i] \in Callbacks /\ q[i].kind = "connected"
    BY DEF Conn
<1> QED
    BY <1>1 DEF Callbacks

\* A flush or a reader's callback changes nothing about the connected blocks.
LEMMA PushOther ==
    ASSUME NEW q \in Seq(Callbacks), NEW c \in Callbacks, c.kind # "connected"
    PROVE  /\ Conn(Append(q, c)) = Conn(q)
           /\ \A i \in Conn(q) : Append(q, c)[i] = q[i]
<1> DEFINE p == Append(q, c)
<1>1. Conn(q) \subseteq 1..Len(q)
    BY DEF Conn
<1>2. /\ \A i \in 1..Len(q) : p[i] = q[i]
      /\ Conn(q) \subseteq Conn(p) /\ Conn(p) \subseteq Conn(q) \cup {Len(q) + 1}
      /\ Len(q) + 1 \notin Conn(p)
    BY PushFacts
<1> HIDE DEF p
<1>3. Conn(p) = Conn(q) /\ \A i \in Conn(q) : p[i] = q[i]
    BY <1>1, <1>2
<1> QED
    BY Zenon, <1>3 DEF p

\* So it keeps what is said of them.
LEMMA PushOtherKeeps ==
    ASSUME NEW q \in Seq(Callbacks), NEW c \in Callbacks, c.kind # "connected"
    PROVE  /\ Linked(q) => Linked(Append(q, c))
           /\ \A t : Ends(q, t) => Ends(Append(q, c), t)
           /\ \A b : Reaches(q, b) => Reaches(Append(q, c), b)
<1> DEFINE p == Append(q, c)
<1>1. Conn(p) = Conn(q) /\ \A i \in Conn(q) : p[i] = q[i]
    BY Zenon, PushOther
<1> HIDE DEF p
<1>2. Linked(q) => Linked(p)
    BY <1>1 DEF Linked
<1>3. \A t : Ends(q, t) => Ends(p, t)
    BY <1>1 DEF Ends
<1>4. \A b : Reaches(q, b) => Reaches(p, b)
    BY <1>1 DEF Reaches
<1> QED
    BY <1>2, <1>3, <1>4 DEF p

\* A promise to a reader survives whatever is queued after it; a reader's own callback too, when
\* it is the only one.
LEMMA PushServes ==
    ASSUME NEW q \in Seq(Callbacks), NEW c \in Callbacks, NEW best, NEW a, Serves(q, best, a)
    PROVE  Serves(Append(q, c), best, a)
<1> DEFINE p == Append(q, c)
<1>1. PICK i \in Conn(q), j \in Conn(q) :
          /\ i <= j /\ Connects(best, q[i].block) /\ a \in Anc[q[j].block]
          /\ \A k \in 1..Len(q) : q[k].kind = "drained" => j < k
    BY DEF Serves
<1>2. i \in 1..Len(q) /\ j \in 1..Len(q) /\ Len(q) \in Nat
    BY ConnBlocks
<1>3. Len(p) = Len(q) + 1 /\ (\A k \in 1..Len(q) : p[k] = q[k]) /\ Conn(q) \subseteq Conn(p)
    BY PushFacts
<1> HIDE DEF p
<1>4. \A k \in 1..Len(p) : p[k].kind = "drained" => j < k
    BY <1>1, <1>2, <1>3
<1>5. Serves(p, best, a)
    BY <1>1, <1>2, <1>3, <1>4 DEF Serves
<1> QED
    BY <1>5 DEF p

\* A block connected to the tip continues the connected blocks of the queue.
LEMMA PushConnected ==
    ASSUME NEW q \in Seq(Callbacks), NEW b \in Blocks, NEW t,
           Linked(q), Conn(q) # {} => Ends(q, t) /\ b # Genesis /\ pprev[b] = t /\ t # None
    PROVE  Linked(Append(q, Connected(b))) /\ Ends(Append(q, Connected(b)), b)
<1> DEFINE p == Append(q, Connected(b))
           n == Len(q) + 1
<1>0. Connected(b) \in Callbacks /\ Connected(b).kind = "connected" /\ Connected(b).block = b
    BY DEF Connected, Callbacks
<1>1. /\ \A i \in 1..Len(q) : p[i] = q[i]
      /\ p[n] = Connected(b)
      /\ Conn(q) \subseteq Conn(p) /\ Conn(p) \subseteq Conn(q) \cup {n} /\ n \in Conn(p)
    BY <1>0, PushFacts
<1>2. \A i \in Conn(q) : i \in 1..Len(q) /\ q[i].block \in Blocks /\ p[i] = q[i]
    BY <1>1, ConnBlocks
<1>3. Len(q) \in Nat
    OBVIOUS
<1> HIDE DEF p
<1>4. Linked(p)
  <2> SUFFICES ASSUME NEW i \in Conn(p), NEW j \in Conn(p), i < j
               PROVE  \E k \in Conn(p) : i < k /\ k <= j /\ Connects(p[i].block, p[k].block)
      BY DEF Linked
  <2>1. i \in Conn(q)
      BY <1>1, <1>2, <1>3
  <2>2. CASE j \in Conn(q)
      BY Zenon, <1>1, <1>2, <2>1, <2>2 DEF Linked
  <2>3. CASE j = n
    <3>1. PICK l \in Conn(q) : i <= l /\ t \in Anc[q[l].block]
        BY <2>1 DEF Ends
    <3>2. CASE l = i
      <4>1. Connects(q[i].block, b)
          BY <2>1, <3>1, <3>2, <1>2, TreeAssumption DEF Connects
      <4> QED
          BY <4>1, <1>0, <1>1, <1>2, <2>1, <2>3 DEF Linked
    <3>3. CASE l # i
      <4>1. i < l /\ l < n
          BY <2>1, <3>1, <3>3, <1>2, <1>3
      <4>2. PICK k \in Conn(q) : i < k /\ k <= l /\ Connects(q[i].block, q[k].block)
          BY <4>1, <2>1 DEF Linked
      <4>3. k \in Conn(p) /\ p[i] = q[i] /\ p[k] = q[k]
          BY <4>2, <1>1, <1>2, <2>1
      <4>4. k <= j
          BY <1>2, <1>3, <2>3
      <4> QED
          BY <4>2, <4>3, <4>4
    <3> QED
        BY <3>2, <3>3
  <2> QED
      BY <1>1, <2>2, <2>3
<1>5. Ends(p, b)
  <2>1. \A i \in Conn(p) : i <= n
      BY <1>1, <1>2, <1>3
  <2>2. b \in Anc[p[n].block]
      BY <1>0, <1>1, TreeAssumption
  <2> QED
      BY <2>1, <2>2, <1>1 DEF Ends
<1> QED
    BY <1>4, <1>5 DEF p

\* What is left of a queue when its first callback is taken.
LEMMA PopFacts ==
    ASSUME NEW q \in Seq(Callbacks), q # <<>>
    PROVE  /\ Tail(q) \in Seq(Callbacks) /\ Head(q) = q[1] /\ q[1] \in Callbacks
           /\ Len(q) \in Nat \ {0} /\ Len(Tail(q)) = Len(q) - 1
           /\ \A i \in 1..Len(q) - 1 : Tail(q)[i] = q[i + 1]
           /\ \A i \in Conn(Tail(q)) : i \in Nat /\ i + 1 \in Conn(q) /\ Tail(q)[i] = q[i + 1]
           /\ \A i \in Conn(q) \ {1} : i \in Nat /\ i > 1 /\ i - 1 \in Conn(Tail(q)) /\ Tail(q)[i - 1] = q[i]
<1>1. /\ Tail(q) \in Seq(Callbacks) /\ Head(q) = q[1] /\ q[1] \in Callbacks
      /\ Len(q) \in Nat \ {0} /\ Len(Tail(q)) = Len(q) - 1
      /\ \A i \in 1..Len(q) - 1 : Tail(q)[i] = q[i + 1]
    OBVIOUS
<1>2. \A i \in Conn(Tail(q)) : i \in Nat /\ i + 1 \in Conn(q) /\ Tail(q)[i] = q[i + 1]
    BY <1>1 DEF Conn
<1>3. \A i \in Conn(q) \ {1} : i \in Nat /\ i > 1 /\ i - 1 \in Conn(Tail(q)) /\ Tail(q)[i - 1] = q[i]
  <2> SUFFICES ASSUME NEW i \in Conn(q) \ {1}
               PROVE  i \in Nat /\ i > 1 /\ i - 1 \in Conn(Tail(q)) /\ Tail(q)[i - 1] = q[i]
      BY Zenon
  <2>1. i \in 1..Len(q) /\ i > 1 /\ q[i].kind = "connected"
      BY <1>1 DEF Conn
  <2>2. i - 1 \in 1..Len(q) - 1 /\ (i - 1) + 1 = i
      BY <2>1, <1>1
  <2>3. Tail(q)[i - 1] = q[i]
      BY <2>2, <1>1
  <2> QED
      BY <2>1, <2>2, <2>3, <1>1 DEF Conn
<1> QED
    BY Zenon, <1>1, <1>2, <1>3

\* Taking the first callback keeps the order of the connected blocks.
LEMMA PopKeeps ==
    ASSUME NEW q \in Seq(Callbacks), q # <<>>
    PROVE  /\ Linked(q) => Linked(Tail(q))
           /\ \A t : Ends(q, t) => Ends(Tail(q), t)
<1> DEFINE p == Tail(q)
<1>1. /\ \A i \in Conn(p) : i \in Nat /\ i + 1 \in Conn(q) /\ p[i] = q[i + 1]
      /\ \A i \in Conn(q) \ {1} : i \in Nat /\ i > 1 /\ i - 1 \in Conn(p) /\ p[i - 1] = q[i]
    BY Zenon, PopFacts
<1>2. \A i \in Conn(q) : i \in Nat \ {0}
    BY ConnBlocks
<1> HIDE DEF p
<1>3. \A i \in Conn(p) : i \in Nat \ {0}
    BY DEF Conn
<1>4. ASSUME Linked(q) PROVE Linked(p)
  <2> SUFFICES ASSUME NEW i \in Conn(p), NEW j \in Conn(p), i < j
               PROVE  \E k \in Conn(p) : i < k /\ k <= j /\ Connects(p[i].block, p[k].block)
      BY DEF Linked
  <2>1. i + 1 \in Conn(q) /\ j + 1 \in Conn(q) /\ i + 1 < j + 1 /\ p[i] = q[i + 1]
      BY <1>1
  <2>2. PICK k \in Conn(q) : i + 1 < k /\ k <= j + 1 /\ Connects(q[i + 1].block, q[k].block)
      BY <2>1, <1>4 DEF Linked
  <2>3. k # 1 /\ k \in Nat
      BY <2>2, <1>2, <1>1
  <2>4. k - 1 \in Conn(p) /\ p[k - 1] = q[k]
      BY <2>3, <1>1
  <2>5. i < k - 1 /\ k - 1 <= j
      BY <2>2, <2>3, <1>1
  <2> QED
      BY <2>1, <2>2, <2>4, <2>5
<1>5. ASSUME NEW t, Ends(q, t) PROVE Ends(p, t)
  <2> SUFFICES ASSUME NEW i \in Conn(p)
               PROVE  \E j \in Conn(p) : i <= j /\ t \in Anc[p[j].block]
      BY DEF Ends
  <2>1. i + 1 \in Conn(q) /\ i \in Nat \ {0}
      BY <1>1, <1>3
  <2>2. PICK j \in Conn(q) : i + 1 <= j /\ t \in Anc[q[j].block]
      BY <2>1, <1>5 DEF Ends
  <2>3. j # 1 /\ j \in Nat
      BY <2>1, <2>2, <1>2
  <2>4. j - 1 \in Conn(p) /\ p[j - 1] = q[j] /\ i <= j - 1
      BY <2>1, <2>2, <2>3, <1>1
  <2> QED
      BY <2>2, <2>4
<1> QED
    BY <1>4, <1>5 DEF p

\* Passing over a first callback that does not connect leaves those that do.
LEMMA PopReaches ==
    ASSUME NEW q \in Seq(Callbacks), q # <<>>, NEW best,
           1 \in Conn(q) => ~Connects(best, q[1].block)
    PROVE  Reaches(q, best) => Reaches(Tail(q), best)
BY Zenon, PopFacts DEF Reaches

\* Of those, the ones that a reader waits for.
LEMMA PopServes ==
    ASSUME NEW q \in Seq(Callbacks), q # <<>>, NEW best, NEW a,
           1 \in Conn(q) => ~Connects(best, q[1].block),
           Serves(q, best, a)
    PROVE  Serves(Tail(q), best, a)
<1> DEFINE p == Tail(q)
<1>1. PICK i \in Conn(q), j \in Conn(q) :
          /\ i <= j /\ Connects(best, q[i].block) /\ a \in Anc[q[j].block]
          /\ \A k \in 1..Len(q) : q[k].kind = "drained" => j < k
    BY DEF Serves
<1>2. i # 1 /\ i \in Nat \ {0} /\ j \in Nat \ {0}
    BY <1>1, ConnBlocks
<1>3. j # 1
    BY <1>1, <1>2
<1>4. /\ i - 1 \in Conn(p) /\ p[i - 1] = q[i]
      /\ j - 1 \in Conn(p) /\ p[j - 1] = q[j]
    BY Zenon, <1>2, <1>3, PopFacts
<1>5. /\ Len(q) \in Nat \ {0} /\ Len(p) = Len(q) - 1
      /\ \A k \in 1..Len(q) - 1 : p[k] = q[k + 1]
    BY PopFacts
<1> HIDE DEF p
<1>6. ASSUME NEW k \in 1..Len(p), p[k].kind = "drained" PROVE j - 1 < k
  <2>1. k + 1 \in 1..Len(q) /\ p[k] = q[k + 1]
      BY <1>5
  <2> QED
      BY <2>1, <1>1, <1>2, <1>6
<1>7. i - 1 <= j - 1
    BY <1>1, <1>2
<1>8. Serves(p, best, a)
    BY <1>1, <1>4, <1>6, <1>7 DEF Serves
<1> QED
    BY <1>8 DEF p

\* After the first block was indexed the next one connects to it, or the tip is reached.
LEMMA PopConnected ==
    ASSUME NEW q \in Seq(Callbacks), q # <<>>, 1 \in Conn(q), Linked(q), NEW t, Ends(q, t)
    PROVE  t \in Anc[q[1].block] \/ Reaches(Tail(q), q[1].block)
<1>1. PICK j \in Conn(q) : t \in Anc[q[j].block]
    BY DEF Ends
<1>2. CASE j # 1
  <2>1. j \in Nat /\ 1 < j
      BY <1>2, PopFacts
  <2>2. PICK k \in Conn(q) : 1 < k /\ Connects(q[1].block, q[k].block)
      BY <2>1 DEF Linked
  <2>3. k # 1 /\ k \in Nat
      BY <2>2, ConnBlocks
  <2>4. k - 1 \in Conn(Tail(q)) /\ Tail(q)[k - 1] = q[k]
      BY Zenon, <2>3, PopFacts
  <2> QED
      BY Zenon, <2>2, <2>4 DEF Reaches
<1> QED
    BY <1>1, <1>2

\* And a reader has its tip, or will be served by what is left.
LEMMA PopServesConnected ==
    ASSUME NEW q \in Seq(Callbacks), q # <<>>, 1 \in Conn(q), Linked(q),
           NEW best, NEW a, Serves(q, best, a)
    PROVE  a \in Anc[q[1].block] \/ Serves(Tail(q), q[1].block, a)
<1> DEFINE p == Tail(q)
<1>1. PICK j \in Conn(q) :
          a \in Anc[q[j].block] /\ \A k \in 1..Len(q) : q[k].kind = "drained" => j < k
    BY DEF Serves
<1>2. CASE j # 1
  <2>1. j \in Nat /\ 1 < j
      BY <1>2, PopFacts
  <2>2. PICK i \in Conn(q) : 1 < i /\ i <= j /\ Connects(q[1].block, q[i].block)
      BY <2>1 DEF Linked
  <2>3. i \in Nat /\ i # 1
      BY <2>2, ConnBlocks
  <2>4. /\ i - 1 \in Conn(p) /\ p[i - 1] = q[i]
        /\ j - 1 \in Conn(p) /\ p[j - 1] = q[j]
      BY Zenon, <2>3, <1>2, PopFacts
  <2>5. /\ Len(q) \in Nat \ {0} /\ Len(p) = Len(q) - 1
        /\ \A k \in 1..Len(q) - 1 : p[k] = q[k + 1]
      BY PopFacts
  <2> HIDE DEF p
  <2>6. ASSUME NEW k \in 1..Len(p), p[k].kind = "drained" PROVE j - 1 < k
    <3>1. k + 1 \in 1..Len(q) /\ p[k] = q[k + 1]
        BY <2>5
    <3> QED
        BY <3>1, <1>1, <2>1, <2>6
  <2>7. i - 1 <= j - 1
      BY <2>1, <2>2, <2>3
  <2>8. Serves(p, q[1].block, a)
      BY <1>1, <2>2, <2>4, <2>6, <2>7 DEF Serves
  <2> QED
      BY <2>8 DEF p
<1> QED
    BY <1>1, <1>2

-----------------------------------------------------------------------------
\* Facts on the tree, as the proofs below use them.
LEMMA Tree ==
    /\ Genesis \in Blocks /\ None \notin Blocks /\ Anc[Genesis] = {Genesis}
    /\ \A b \in Blocks : b \in Anc[b] /\ Anc[b] \subseteq Blocks /\ Genesis \in Anc[b]
    /\ \A b \in Blocks \ {Genesis} : pprev[b] \in Blocks /\ Anc[b] = Anc[pprev[b]] \cup {b}
    /\ \A b \in Blocks : \A c \in Anc[b] : Anc[c] \subseteq Anc[b]
BY TreeAssumption

\* The callbacks that are queued are callbacks.
LEMMA Kinds ==
    /\ \A b \in Blocks : Connected(b) \in Callbacks /\ Flushed(b) \in Callbacks
    /\ Drained \in Callbacks
    /\ \A b : Flushed(b).kind = "flushed" /\ Connected(b).kind = "connected" /\ Connected(b).block = b
    /\ Drained.kind = "drained"
BY DEF Connected, Flushed, Drained, Callbacks

\* An empty queue has nothing to say.
LEMMA EmptyQueue == Conn(<<>>) = {} /\ Linked(<<>>) /\ OneDrained(<<>>) /\ NoneDrained(<<>>)
BY DEF Conn, Linked, OneDrained, NoneDrained

\* A new data directory satisfies the inductive invariant.
LEMMA InitHolds == Init => IInv
<1> SUFFICES ASSUME Init PROVE IInv
    OBVIOUS
<1> USE DEF Init
<1>1. TypeOK
  <2>1. m_synced \in BOOLEAN
      BY Zenon
  <2> QED
      BY <2>1 DEF TypeOK, MaybeBlock
<1>2. BestIsCovered /\ LocatorIsCovered
    BY DEF BestIsCovered, LocatorIsCovered, Covered, Branch
<1>3. SyncOK /\ DownOK
    BY DEF SyncOK, DownOK
<1>4. QueueOK
    BY EmptyQueue DEF QueueOK
<1>5. HandOverOK /\ ReaderOK
    BY EmptyQueue DEF HandOverOK, ReaderOK
<1> QED
    BY <1>1, <1>2, <1>3, <1>4, <1>5 DEF IInv

-----------------------------------------------------------------------------
\* A step of validation leaves the index alone; only the tip and the queue are new.
ChainOnly == UNCHANGED <<phase, m_synced, m_best_block_index, sync, reader, db>>

\* Then only the queue has to be looked at.
LEMMA ChainOnlyKeeps ==
    ASSUME IInv, ChainOnly, phase # "down"
    PROVE  BestIsCovered' /\ LocatorIsCovered' /\ SyncOK' /\ DownOK' /\ Written' = Written
BY DEF IInv, ChainOnly, sync, reader, db, BestIsCovered, LocatorIsCovered, Covered, Branch, NotWritten,
       SyncOK, DownOK, Written

\* What a queue p keeps of a queue q that it continues.
Continues(p, q) ==
    /\ p \in Seq(Callbacks)
    /\ OneDrained(q) => OneDrained(p)
    /\ NoneDrained(q) => NoneDrained(p)
    /\ \A b : Reaches(q, b) => Reaches(p, b)
    /\ \A b, a : Serves(q, b, a) => Serves(p, b, a)

\* Validation only ever continues the queue.
LEMMA PushContinues ==
    ASSUME NEW q \in Seq(Callbacks), NEW c \in Callbacks, c.kind # "drained"
    PROVE  Continues(Append(q, c), q)
<1> DEFINE p == Append(q, c)
<1>1. /\ p \in Seq(Callbacks) /\ Len(p) = Len(q) + 1 /\ p[Len(q) + 1] = c /\ Len(q) \in Nat
      /\ \A i \in 1..Len(q) : p[i] = q[i]
      /\ Conn(q) \subseteq Conn(p)
    BY PushFacts
<1>2. \A b, a : Serves(q, b, a) => Serves(p, b, a)
    BY PushServes
<1> HIDE DEF p
<1>3. \A i \in Conn(q) : i \in 1..Len(q)
    BY DEF Conn
<1>4. \A b : Reaches(q, b) => Reaches(p, b)
    BY <1>1, <1>3 DEF Reaches
<1>5. (OneDrained(q) => OneDrained(p)) /\ (NoneDrained(q) => NoneDrained(p))
    BY <1>1 DEF OneDrained, NoneDrained
<1>6. Continues(p, q)
    BY <1>1, <1>2, <1>4, <1>5 DEF Continues
<1> QED
    BY <1>6 DEF p

\* A reader is none the worse for it.
LEMMA ReaderKeeps ==
    ASSUME IInv, ChainOnly, Continues(queue', queue)
    PROVE  ReaderOK'
<1>1. Written' = Written
    BY DEF Written, ChainOnly, db
<1> QED
    BY <1>1 DEF IInv, ReaderOK, Continues, ChainOnly, reader, sync, db

\* The chain is flushed: the queue gets a callback that is not a connected block.
LEMMA FlushContinues ==
    ASSUME IInv, tip \in Blocks, NEW flush \in BOOLEAN,
           NEW q, q = IF flush THEN Append(queue, Flushed(tip)) ELSE queue
    PROVE  /\ Continues(q, queue) /\ Conn(q) = Conn(queue) /\ Linked(q)
           /\ Conn(q) # {} => Ends(q, tip)
<1>1. queue \in Seq(Callbacks) /\ QueueOK
    BY DEF IInv, TypeOK
<1>2. CASE flush
  <2>1. Flushed(tip) \in Callbacks /\ Flushed(tip).kind \notin {"connected", "drained"}
      BY Kinds
  <2>2. q = Append(queue, Flushed(tip))
      BY <1>2
  <2>3. Continues(q, queue)
      BY <1>1, <2>1, <2>2, PushContinues
  <2>4. Conn(q) = Conn(queue)
      BY <1>1, <2>1, <2>2, PushOther
  <2>5. Linked(q) /\ (Ends(queue, tip) => Ends(q, tip))
      BY <1>1, <2>1, <2>2, PushOtherKeeps DEF QueueOK
  <2> QED
      BY <1>1, <2>3, <2>4, <2>5 DEF QueueOK
<1>3. CASE ~flush
    BY <1>1, <1>3 DEF QueueOK, Continues
<1> QED
    BY <1>2, <1>3

\* A block is connected: when the index had got to the tip, the new block connects to it.
LEMMA ConnectTipKeeps ==
    ASSUME IInv, NEW b \in Blocks, NEW flush \in BOOLEAN, ConnectTip(b, flush)
    PROVE  IInv'
<1> DEFINE q == IF flush THEN Append(queue, Flushed(tip)) ELSE queue
<1>1. /\ ChainOnly /\ phase # "down" /\ tip' = b /\ queue' = Append(q, Connected(b))
      /\ IF tip = None THEN b = Genesis ELSE b # Genesis /\ pprev[b] = tip
      /\ flush => tip # None
    BY DEF ConnectTip, ChainOnly
<1>2. TypeOK /\ queue \in Seq(Callbacks) /\ tip \in MaybeBlock
    BY DEF IInv, TypeOK
<1>3. /\ Continues(q, queue) /\ Linked(q)
      /\ Conn(q) # {} => Ends(q, tip) /\ tip # None
  <2>1. CASE tip = None
    <3>1. q = queue
        BY <1>1, <2>1
    <3>2. Conn(queue) = {} /\ Linked(queue)
        BY <2>1 DEF IInv, QueueOK
    <3>3. Continues(queue, queue)
        BY <1>2 DEF Continues
    <3> QED
        BY <3>1, <3>2, <3>3
  <2>2. CASE tip # None
    <3>1. tip \in Blocks
        BY <1>2, <2>2 DEF MaybeBlock
    <3> QED
        BY Zenon, <3>1, <2>2, FlushContinues
  <2> QED
      BY <2>1, <2>2
<1> HIDE DEF q
<1>4. q \in Seq(Callbacks)
    BY <1>3 DEF Continues
<1>5. Linked(queue') /\ Ends(queue', b)
    BY <1>1, <1>3, <1>4, PushConnected
<1>6. Connected(b) \in Callbacks /\ Connected(b).kind = "connected" /\ Connected(b).block = b
    BY Kinds
<1>7. Continues(queue', q)
    BY <1>1, <1>4, <1>6, PushContinues
<1>8. Continues(queue', queue)
    BY <1>3, <1>7 DEF Continues
<1>9. QueueOK'
    BY <1>1, <1>5, Tree DEF QueueOK
<1>10. HandOverOK'
  <2> SUFFICES ASSUME phase = "up", m_synced
               PROVE  Reaches(queue', m_best_block_index)
      BY <1>1 DEF HandOverOK, ChainOnly
  <2>1. CASE Connects(m_best_block_index, b)
    <3>1. Len(q) + 1 \in Conn(queue') /\ queue'[Len(q) + 1] = Connected(b)
        BY <1>1, <1>4, <1>6, PushFacts
    <3> QED
        BY <3>1, <2>1, <1>6 DEF Reaches
  <2>2. CASE ~Connects(m_best_block_index, b)
    <3>1. tip # None /\ tip \notin Branch(m_best_block_index)
        BY <1>1, <2>2 DEF Connects, Branch
    <3> QED
        BY <3>1, <1>8 DEF IInv, HandOverOK, Continues
  <2> QED
      BY <2>1, <2>2
<1>11. TypeOK'
  <2>1. queue' \in Seq(Callbacks)
      BY <1>8 DEF Continues
  <2>2. flushedTip' \in MaybeBlock
      BY <1>2 DEF TypeOK, ConnectTip, MaybeBlock
  <2> QED
      BY <1>1, <1>2, <2>1, <2>2 DEF TypeOK, MaybeBlock, ChainOnly, sync, reader, db
<1> QED
    BY <1>1, <1>8, <1>9, <1>10, <1>11, ChainOnlyKeeps, ReaderKeeps DEF IInv

\* A block is disconnected, or the chain is flushed where it is.
LEMMA TipBackKeeps ==
    ASSUME IInv, ChainOnly, phase # "down", tip \in Blocks, NEW flush \in BOOLEAN,
           queue' = IF flush THEN Append(queue, Flushed(tip)) ELSE queue,
           tip' \in Anc[tip], flushedTip' \in MaybeBlock
    PROVE  IInv'
<1>1. /\ Continues(queue', queue) /\ Conn(queue') = Conn(queue) /\ Linked(queue')
      /\ Conn(queue') # {} => Ends(queue', tip)
    BY Zenon, FlushContinues
<1>2. tip' \in Blocks /\ tip' # None
    BY Tree
<1>3. queue' \in Seq(Callbacks)
    BY <1>1 DEF Continues
<1>4. Ends(queue', tip) => Ends(queue', tip')
  <2>1. \A i \in Conn(queue') : queue'[i].block \in Blocks
      BY Zenon, <1>3, ConnBlocks
  <2>2. \A i \in Conn(queue') : tip \in Anc[queue'[i].block] => tip' \in Anc[queue'[i].block]
      BY Zenon, <2>1, Tree
  <2> QED
      BY Zenon, <2>2 DEF Ends
<1>5. QueueOK'
    BY <1>1, <1>2, <1>4 DEF QueueOK
<1>6. tip \in Branch(m_best_block_index) => tip' \in Branch(m_best_block_index)
    BY Tree DEF IInv, TypeOK, MaybeBlock, Branch
<1>7. HandOverOK'
  <2>1. phase = "up" /\ m_synced => tip \in Branch(m_best_block_index) \/ Reaches(queue, m_best_block_index)
      BY Tree DEF IInv, HandOverOK
  <2> QED
      BY <1>1, <1>6, <2>1 DEF HandOverOK, Continues, ChainOnly, Branch
<1>8. TypeOK'
    BY <1>2, <1>3 DEF IInv, TypeOK, MaybeBlock, ChainOnly, sync, reader, db
<1> QED
    BY <1>1, <1>5, <1>7, <1>8, ChainOnlyKeeps, ReaderKeeps DEF IInv

\* DisconnectTip.
LEMMA DisconnectTipKeeps ==
    ASSUME IInv, NEW flush \in BOOLEAN, DisconnectTip(flush)
    PROVE  IInv'
<1>1. tip \in Blocks \ {Genesis} /\ flushedTip \in MaybeBlock
    BY DEF IInv, TypeOK, MaybeBlock, DisconnectTip
<1>2. pprev[tip] \in Blocks /\ pprev[tip] \in Anc[tip]
    BY <1>1, Tree
<1> QED
    BY <1>1, <1>2, TipBackKeeps DEF DisconnectTip, ChainOnly, MaybeBlock

\* FlushStateToDisk.
LEMMA FlushKeeps ==
    ASSUME IInv, FlushStateToDisk
    PROVE  IInv'
<1>1. tip \in Blocks
    BY DEF IInv, TypeOK, MaybeBlock, FlushStateToDisk
<1>2. tip' \in Anc[tip] /\ flushedTip' \in MaybeBlock
    BY <1>1, Tree DEF FlushStateToDisk, MaybeBlock
<1>3. ChainOnly /\ phase # "down" /\ queue' = IF TRUE THEN Append(queue, Flushed(tip)) ELSE queue
    BY DEF FlushStateToDisk, ChainOnly
<1> QED
    BY Zenon, <1>1, <1>2, <1>3, TipBackKeeps

-----------------------------------------------------------------------------
\* A start goes on at a block of the locator's chain, which is covered.
LEMMA StartKeeps ==
    ASSUME IInv, NEW fork \in MaybeBlock, Start(fork)
    PROVE  IInv'
<1> USE DEF Start, reader, db
<1>1. phase = "down" /\ rpc = "idle" /\ pc = "off" /\ NotWritten = {}
    BY DEF IInv, DownOK, SyncOK, NotWritten, TypeOK
<1>2. Branch(fork) \subseteq Written
  <2>1. CASE fork = None
      BY <2>1 DEF Branch
  <2>2. CASE fork # None /\ locator = None
      BY <2>2, Tree DEF FindForkInGlobalIndex, Branch, Written
  <2>3. CASE fork # None /\ locator # None
    <3>1. locator \in Blocks /\ fork \in Anc[locator]
        BY <2>3 DEF FindForkInGlobalIndex, IInv, TypeOK, MaybeBlock
    <3>2. Anc[locator] \subseteq Written
        BY <3>1, <1>1, Tree DEF IInv, LocatorIsCovered, Branch, Written
    <3> QED
        BY <2>3, <3>1, <3>2, Tree DEF Branch
  <2> QED
      BY <2>1, <2>2, <2>3
<1>3. Written' = Written
    BY DEF Written
<1>4. fork # flushedTip => fork \in Blocks
    BY Tree DEF FindForkInGlobalIndex, MaybeBlock, IInv, TypeOK
<1>5. BestIsCovered'
    BY <1>2 DEF BestIsCovered, Covered, Written, Branch
<1>6. LocatorIsCovered'
  <2>1. NotWritten' = {}
      BY DEF NotWritten, Leave
  <2> QED
      BY <2>1, <1>1 DEF IInv, LocatorIsCovered, Branch
<1>7. SyncOK'
  <2>1. CASE fork = flushedTip
      BY <2>1 DEF SyncOK, Leave
  <2>2. CASE fork # flushedTip
    <3>1. pc' = "next" /\ pindex' = fork /\ phase' = "up" /\ ~m_synced' /\ fork \in Blocks
        BY Zenon, <2>2, <1>4
    <3>2. Anc[fork] \subseteq Written'
        BY <3>1, <1>2, <1>3, Tree DEF Branch
    <3> QED
        BY <3>1, <3>2 DEF SyncOK
  <2> QED
      BY <2>1, <2>2
<1>8. DownOK'
    BY DEF DownOK
<1>9. QueueOK'
    BY EmptyQueue DEF QueueOK
<1>10. HandOverOK'
  <2>1. fork = flushedTip /\ flushedTip # None => flushedTip \in Branch(fork)
      BY Tree DEF Branch, MaybeBlock
  <2> QED
      BY Zenon, <2>1 DEF HandOverOK, Branch
<1>11. ReaderOK'
    BY <1>1, EmptyQueue DEF ReaderOK
<1>12. TypeOK'
  <2>1. queue' \in Seq(Callbacks)
      OBVIOUS
  <2>2. m_synced' \in BOOLEAN
      OBVIOUS
  <2> QED
      BY <2>1, <2>2, <1>4 DEF IInv, TypeOK, Leave, MaybeBlock
<1> QED
    BY <1>5, <1>6, <1>7, <1>8, <1>9, <1>10, <1>11, <1>12 DEF IInv

\* The end of a process leaves the database: what the locator names and is not written is missed.
LEMMA ForgetKeeps ==
    ASSUME IInv, Forget, missed' = missed \cup NotWritten, flushedTip' \in MaybeBlock
    PROVE  IInv'
<1> USE DEF Forget, Leave
<1>1. NotWritten \subseteq Blocks /\ NotWritten' = {}
  <2>1. pc = "write" => pindex \in Blocks
      BY DEF IInv, SyncOK
  <2> QED
      BY <2>1 DEF NotWritten
<1>2. BestIsCovered' /\ LocatorIsCovered'
    BY <1>1 DEF IInv, BestIsCovered, LocatorIsCovered, Covered, Branch
<1>3. SyncOK' /\ DownOK'
    BY DEF SyncOK, DownOK
<1>4. QueueOK'
    BY EmptyQueue DEF QueueOK
<1>5. HandOverOK' /\ ReaderOK'
    BY EmptyQueue DEF HandOverOK, ReaderOK
<1>6. TypeOK'
  <2>1. queue' \in Seq(Callbacks) /\ missed' \subseteq Blocks
      BY <1>1 DEF IInv, TypeOK
  <2>2. m_synced' \in BOOLEAN
      BY Zenon
  <2> QED
      BY <2>1, <2>2 DEF IInv, TypeOK, MaybeBlock
<1> QED
    BY <1>2, <1>3, <1>4, <1>5, <1>6 DEF IInv

\* Shutdown, which waits for the sync thread, and Crash, which does not.
LEMMA EndKeeps ==
    ASSUME IInv, Shutdown \/ Crash
    PROVE  IInv'
<1>1. flushedTip' \in MaybeBlock /\ Forget
    BY DEF IInv, TypeOK, Shutdown, Crash
<1>2. missed' = missed \cup NotWritten
    BY DEF Shutdown, Crash, NotWritten
<1> QED
    BY <1>1, <1>2, ForgetKeeps

-----------------------------------------------------------------------------
\* Steps of the sync thread leave the chain, the queue and the readers alone.
SyncOnly == UNCHANGED <<chain, queue, reader>>

\* As long as it has not handed over, they need no more than the coverage to grow.
LEMMA SyncOnlyKeeps ==
    ASSUME IInv, SyncOnly, UNCHANGED <<m_synced, m_best_block_index>>, pc # "off",
           Written \subseteq Written', phase' \in {phase, "stopping"}
    PROVE  BestIsCovered' /\ DownOK' /\ QueueOK' /\ HandOverOK' /\ ReaderOK'
<1>1. phase # "down" /\ ~m_synced /\ rpc = "idle"
    BY DEF IInv, SyncOK, ReaderOK, TypeOK
<1>2. BestIsCovered'
    BY DEF IInv, BestIsCovered, Covered, Branch, Written
<1>3. DownOK' /\ HandOverOK'
    BY <1>1 DEF DownOK, HandOverOK
<1>4. QueueOK'
    BY DEF IInv, QueueOK, SyncOnly, chain
<1>5. ReaderOK'
    BY <1>1 DEF IInv, ReaderOK, SyncOnly, reader
<1> QED
    BY <1>2, <1>3, <1>4, <1>5

\* SyncNext: the next block has its parent on the chain that is covered.
LEMMA SyncNextKeeps ==
    ASSUME IInv, SyncNext
    PROVE  IInv'
<1> USE DEF SyncNext, db
<1>1. PICK n \in NextSyncBlock(pindex) : pindex' = n
    OBVIOUS
<1>2. pindex \in Blocks /\ pindex # None /\ Anc[pindex] \subseteq Written /\ phase # "down" /\ ~m_synced
    BY Tree DEF IInv, SyncOK
<1>3. n \in Blocks \ {Genesis} /\ pprev[n] \in Anc[pindex]
    BY <1>2, Tree DEF NextSyncBlock, Branch, IInv, TypeOK, MaybeBlock
<1>4. Anc[pprev[n]] \subseteq Written
    BY <1>2, <1>3, Tree
<1>5. Written' = Written
    BY DEF Written
<1>6. SyncOK'
    BY <1>1, <1>2, <1>3, <1>4, <1>5 DEF SyncOK
<1>7. LocatorIsCovered'
    BY DEF IInv, LocatorIsCovered, NotWritten
<1>8. TypeOK'
    BY <1>1, <1>3 DEF IInv, TypeOK, MaybeBlock, chain, reader
<1>9. SyncOnly
    BY DEF SyncOnly
<1> QED
    BY <1>5, <1>6, <1>7, <1>8, <1>9, SyncOnlyKeeps DEF IInv

\* HandOver: there is no next block only when the tip is not beyond the block the thread is at.
LEMMA HandOverKeeps ==
    ASSUME IInv, HandOver
    PROVE  IInv'
<1> USE DEF HandOver, Leave
<1>1. pindex \in Blocks /\ pindex # None /\ Anc[pindex] \subseteq Written /\ phase # "down"
    BY Tree DEF IInv, SyncOK
<1>2. rpc = "idle"
    BY DEF IInv, SyncOK, ReaderOK
<1>3. Written' = Written /\ NotWritten = {} /\ NotWritten' = {}
    BY DEF Written, NotWritten
<1>4. tip # None => tip \in Anc[pindex]
  <2> SUFFICES ASSUME tip \in Blocks, tip \notin Anc[pindex] PROVE FALSE
      BY DEF IInv, TypeOK, MaybeBlock
  <2>1. PICK n \in Anc[tip] \ (Anc[pindex] \cup {Genesis}) : pprev[n] \in Anc[pindex]
      BY <1>1, ForkAssumption
  <2>2. n \in NextSyncBlock(pindex)
      BY <1>1, <2>1, Tree DEF NextSyncBlock, Branch
  <2> QED
      BY <2>2
<1>5. BestIsCovered'
    BY <1>1, <1>3 DEF BestIsCovered, Covered, Branch, Written
<1>6. LocatorIsCovered'
    BY <1>1, <1>3, Tree DEF IInv, LocatorIsCovered, Branch, WriteBestBlock, Written
<1>7. SyncOK' /\ DownOK'
    BY <1>1 DEF SyncOK, DownOK
<1>8. QueueOK'
    BY DEF IInv, QueueOK, chain
<1>9. HandOverOK'
    BY <1>1, <1>4 DEF HandOverOK, Branch, chain
<1>10. ReaderOK'
    BY <1>2 DEF IInv, ReaderOK, reader
<1>11. TypeOK'
  <2>1. m_synced' \in BOOLEAN
      OBVIOUS
  <2> QED
      BY <1>1, <2>1 DEF IInv, TypeOK, MaybeBlock, WriteBestBlock, chain, reader
<1> QED
    BY <1>5, <1>6, <1>7, <1>8, <1>9, <1>10, <1>11 DEF IInv

\* SyncLocator: the locator may now name the one block that is still to be written.
LEMMA SyncLocatorKeeps ==
    ASSUME IInv, SyncLocator
    PROVE  IInv'
<1> USE DEF SyncLocator
<1>1. /\ pindex \in Blocks \ {Genesis} /\ pindex # None /\ phase # "down" /\ ~m_synced
      /\ Anc[pprev[pindex]] \subseteq Written
    BY Tree DEF IInv, SyncOK
<1>2. Written' = Written /\ NotWritten = {}
    BY DEF Written, NotWritten
<1>3. SyncOK'
    BY <1>1, <1>2 DEF SyncOK
<1>4. LocatorIsCovered'
  <2>1. CASE locator' = pindex
    <3>1. NotWritten' = {pindex} \ indexed
        BY <2>1 DEF NotWritten
    <3>2. Anc[pindex] \subseteq Written \cup NotWritten'
        BY <3>1, <1>1, Tree DEF Written
    <3> QED
        BY <1>1, <2>1, <3>2 DEF LocatorIsCovered, Branch, Written
  <2>2. CASE locator' = locator
      BY <2>2, <1>2 DEF IInv, LocatorIsCovered, Branch
  <2> QED
      BY <2>1, <2>2 DEF WriteBestBlock
<1>5. TypeOK'
    BY <1>1 DEF IInv, TypeOK, MaybeBlock, WriteBestBlock, chain, reader
<1>6. SyncOnly
    BY DEF SyncOnly
<1> QED
    BY <1>2, <1>3, <1>4, <1>5, <1>6, SyncOnlyKeeps DEF IInv

\* SyncWrite: the block is written, and the thread is covered again.
LEMMA SyncWriteKeeps ==
    ASSUME IInv, SyncWrite
    PROVE  IInv'
<1> USE DEF SyncWrite, WriteBlock
<1>1. /\ pindex \in Blocks \ {Genesis} /\ phase # "down" /\ ~m_synced
      /\ Anc[pprev[pindex]] \subseteq Written
    BY DEF IInv, SyncOK
<1>2. Written' = Written \cup {pindex} /\ NotWritten \subseteq {pindex}
    BY DEF Written, NotWritten
<1>3. Anc[pindex] \subseteq Written'
    BY <1>1, <1>2, Tree
<1>4. SyncOK'
    BY <1>1, <1>3 DEF SyncOK
<1>5. LocatorIsCovered'
    BY <1>2 DEF IInv, LocatorIsCovered, Branch, Written
<1>6. TypeOK'
    BY <1>1 DEF IInv, TypeOK, chain, reader
<1>7. SyncOnly
    BY DEF SyncOnly
<1> QED
    BY <1>2, <1>4, <1>5, <1>6, <1>7, SyncOnlyKeeps DEF IInv

\* SyncFails and SyncInterrupted: the thread leaves before its block is written, or after.
LEMMA SyncEndsKeeps ==
    ASSUME IInv, SyncFails \/ SyncInterrupted
    PROVE  IInv'
<1>1. pindex \in Blocks /\ pindex # None
    BY Tree DEF IInv, SyncOK, SyncFails, SyncInterrupted
<1>2. Written \subseteq Written' /\ NotWritten' = {} /\ SyncOnly
    BY DEF SyncFails, SyncInterrupted, Written, Leave, NotWritten, SyncOnly
<1>3. SyncOK'
    BY DEF SyncOK, SyncFails, SyncInterrupted, Leave
<1>4. LocatorIsCovered'
  <2>1. CASE SyncFails
      BY <2>1 DEF IInv, LocatorIsCovered, Branch, SyncFails
  <2>2. CASE SyncInterrupted
    <3>1. Anc[pindex] \subseteq Written /\ NotWritten = {}
        BY <2>2 DEF IInv, SyncOK, SyncInterrupted, NotWritten
    <3> QED
        BY <1>1, <2>2, <3>1 DEF IInv, LocatorIsCovered, Branch, WriteBestBlock, SyncInterrupted, Written
  <2> QED
      BY <2>1, <2>2
<1>5. TypeOK'
  <2>1. missed' \subseteq Blocks /\ locator' \in MaybeBlock /\ indexed' \subseteq Blocks
      BY <1>1 DEF IInv, TypeOK, MaybeBlock, SyncFails, SyncInterrupted, NotWritten, WriteBestBlock
  <2>2. UNCHANGED <<m_synced, m_best_block_index>> /\ phase' \in {phase, "stopping"} /\ pc' = "off" /\ pindex' = None
      BY DEF SyncFails, SyncInterrupted, Leave
  <2> QED
      BY <1>2, <2>1, <2>2 DEF IInv, TypeOK, MaybeBlock, SyncOnly, chain, reader
<1>6. UNCHANGED <<m_synced, m_best_block_index>> /\ pc # "off" /\ phase' \in {phase, "stopping"}
    BY DEF SyncFails, SyncInterrupted
<1> QED
    BY <1>2, <1>3, <1>4, <1>5, <1>6, SyncOnlyKeeps DEF IInv

-----------------------------------------------------------------------------
\* The first callback is taken from the queue.
LEMMA TakeKeeps ==
    ASSUME IInv, NEW kind, Take(kind), tip' = tip
    PROVE  /\ queue \in Seq(Callbacks) /\ queue # <<>> /\ queue' = Tail(queue)
           /\ queue' \in Seq(Callbacks) /\ phase # "down"
           /\ Head(queue) = queue[1] /\ queue[1].kind = kind
           /\ 1 \in Conn(queue) <=> kind = "connected"
           /\ QueueOK' /\ OneDrained(queue') /\ (NoneDrained(queue) => NoneDrained(queue'))
           /\ kind = "drained" => ~NoneDrained(queue) /\ NoneDrained(queue')
<1>1. queue \in Seq(Callbacks) /\ queue # <<>> /\ queue' = Tail(queue) /\ phase # "down"
    BY DEF IInv, TypeOK, Take
<1>2. /\ queue' \in Seq(Callbacks) /\ Head(queue) = queue[1]
      /\ Len(queue) \in Nat \ {0} /\ Len(queue') = Len(queue) - 1
      /\ \A i \in 1..Len(queue) - 1 : queue'[i] = queue[i + 1]
    BY <1>1, PopFacts
<1>3. queue[1].kind = kind /\ 1 \in 1..Len(queue)
    BY <1>2 DEF Take
<1>4. 1 \in Conn(queue) <=> kind = "connected"
    BY <1>3 DEF Conn
<1>5. Linked(queue') /\ (Ends(queue, tip) => Ends(queue', tip))
    BY <1>1, PopKeeps DEF IInv, QueueOK
<1>6. Conn(queue') # {} => Conn(queue) # {}
    BY <1>1, PopFacts
<1>7. QueueOK'
    BY <1>5, <1>6 DEF IInv, QueueOK
<1>8. \A k \in 1..Len(queue') : k + 1 \in 1..Len(queue) /\ k + 1 # 1 /\ queue'[k] = queue[k + 1]
    BY <1>2
<1>9. OneDrained(queue)
    BY DEF IInv, ReaderOK
<1>10. OneDrained(queue')
  <2> SUFFICES ASSUME NEW k \in 1..Len(queue'), NEW l \in 1..Len(queue'),
                      queue'[k].kind = "drained", queue'[l].kind = "drained"
               PROVE  k = l
      BY DEF OneDrained
  <2>1. k + 1 = l + 1
      BY <1>8, <1>9 DEF OneDrained
  <2> QED
      BY <2>1
<1>11. NoneDrained(queue) => NoneDrained(queue')
    BY <1>8 DEF NoneDrained
<1>12. kind = "drained" => ~NoneDrained(queue) /\ NoneDrained(queue')
    BY <1>3, <1>8, <1>9 DEF NoneDrained, OneDrained
<1> QED
    BY <1>1, <1>2, <1>3, <1>4, <1>7, <1>10, <1>11, <1>12

\* A block is indexed by the callback: those queued after it connect to it in turn.
LEMMA BlockConnectedKeeps ==
    ASSUME IInv, NEW b \in Blocks, BlockConnected(b)
    PROVE  IInv'
<1> USE DEF BlockConnected, WriteBlock
<1>1. /\ queue \in Seq(Callbacks) /\ queue # <<>> /\ queue' = Tail(queue)
      /\ queue' \in Seq(Callbacks) /\ phase # "down"
      /\ b = queue[1].block /\ 1 \in Conn(queue)
      /\ QueueOK' /\ OneDrained(queue') /\ (NoneDrained(queue) => NoneDrained(queue'))
    BY TakeKeeps DEF chain
<1>2. pc = "off" /\ NotWritten = {} /\ NotWritten' = {}
    BY DEF IInv, SyncOK, NotWritten, sync
<1>3. Written' = Written \cup {b}
    BY DEF Written
<1>4. Anc[b] \subseteq Written'
  <2>1. CASE b = Genesis
      BY <1>3, <2>1, Tree
  <2>2. CASE b # Genesis
    <3>1. m_best_block_index \in Blocks /\ pprev[b] \in Anc[m_best_block_index]
        BY <2>2 DEF Connects, IInv, TypeOK, MaybeBlock
    <3>2. Anc[m_best_block_index] \subseteq Written
        BY <3>1, Tree DEF IInv, BestIsCovered, Covered, Branch, Written
    <3> QED
        BY <1>3, <2>2, <3>1, <3>2, Tree
  <2> QED
      BY <2>1, <2>2
<1>5. BestIsCovered'
    BY <1>4 DEF BestIsCovered, Covered, Branch, Written
<1>6. LocatorIsCovered'
    BY <1>2, <1>3 DEF IInv, LocatorIsCovered, Branch, Written
<1>7. SyncOK' /\ DownOK'
    BY <1>1, <1>2 DEF SyncOK, DownOK, sync
<1>8. HandOverOK'
  <2>1. Linked(queue) /\ Ends(queue, tip)
      BY <1>1 DEF IInv, QueueOK
  <2>2. tip \in Anc[b] \/ Reaches(queue', b)
      BY <1>1, <2>1, PopConnected
  <2> QED
      BY <2>2, Tree DEF HandOverOK, Branch, chain
<1>9. ReaderOK'
  <2>1. ASSUME rpc # "idle", phase = "up"
        PROVE  Anc[asked] \subseteq Written' \/ Serves(queue', b, asked)
    <3>1. CASE Anc[asked] \subseteq Written
        BY <3>1, <1>3
    <3>2. CASE Serves(queue, m_best_block_index, asked)
      <4>1. asked \in Anc[b] \/ Serves(queue', b, asked)
          BY <1>1, <3>2, PopServesConnected DEF IInv, QueueOK
      <4> QED
          BY <4>1, <1>4, Tree
    <3> QED
        BY <2>1, <3>1, <3>2 DEF IInv, ReaderOK
  <2> QED
      BY <1>1, <2>1 DEF IInv, ReaderOK, reader
<1>10. TypeOK'
    BY <1>1 DEF IInv, TypeOK, MaybeBlock, chain, sync, reader
<1> QED
    BY <1>1, <1>5, <1>6, <1>7, <1>8, <1>9, <1>10 DEF IInv

\* A callback that leaves the index where it is: a stale block, a failed write, a flush.
LEMMA PassOverKeeps ==
    ASSUME IInv, NEW kind, kind # "drained", Take(kind), UNCHANGED <<chain, m_synced, m_best_block_index, sync, reader, indexed, missed>>,
           phase' \in {phase, "stopping"},
           phase' = "up" /\ m_synced /\ kind = "connected" => ~Connects(m_best_block_index, queue[1].block),
           locator' = locator \/ (m_synced /\ locator' \in Branch(m_best_block_index))
    PROVE  IInv'
<1> USE DEF chain, sync, reader
<1>1. /\ queue \in Seq(Callbacks) /\ queue # <<>> /\ queue' = Tail(queue)
      /\ queue' \in Seq(Callbacks) /\ phase # "down"
      /\ 1 \in Conn(queue) <=> kind = "connected"
      /\ QueueOK' /\ OneDrained(queue') /\ (NoneDrained(queue) => NoneDrained(queue'))
    BY TakeKeeps
<1>2. Written' = Written
    BY DEF Written
<1>3. BestIsCovered'
    BY DEF IInv, BestIsCovered, Covered, Branch
<1>4. LocatorIsCovered' /\ locator' \in MaybeBlock
  <2>1. CASE locator' = locator
      BY <2>1 DEF IInv, TypeOK, LocatorIsCovered, Branch, NotWritten
  <2>2. CASE m_synced /\ locator' \in Branch(m_best_block_index)
    <3>1. m_best_block_index \in Blocks /\ locator' \in Anc[m_best_block_index]
        BY <2>2 DEF Branch, IInv, TypeOK, MaybeBlock
    <3>2. locator' \in Blocks /\ locator' # None /\ Anc[locator'] \subseteq Anc[m_best_block_index]
        BY <3>1, Tree
    <3>3. Anc[m_best_block_index] \subseteq indexed \cup missed \cup {Genesis}
        BY <3>1, Tree DEF IInv, BestIsCovered, Covered, Branch
    <3> QED
        BY <3>2, <3>3 DEF LocatorIsCovered, Branch, MaybeBlock
  <2> QED
      BY <2>1, <2>2
<1>5. SyncOK' /\ DownOK'
    BY <1>1, <1>2 DEF IInv, SyncOK, DownOK
<1>6. ASSUME phase' = "up", m_synced
      PROVE  /\ Reaches(queue, m_best_block_index) => Reaches(queue', m_best_block_index)
             /\ Serves(queue, m_best_block_index, asked) => Serves(queue', m_best_block_index, asked)
  <2>1. 1 \in Conn(queue) => ~Connects(m_best_block_index, queue[1].block)
      BY <1>1, <1>6
  <2> QED
      BY <1>1, <2>1, PopReaches, PopServes
<1>7. phase' = "up" => phase = "up"
    OBVIOUS
<1>8. HandOverOK'
    BY <1>6, <1>7 DEF IInv, HandOverOK, Branch
<1>9. ReaderOK'
    BY <1>1, <1>2, <1>6, <1>7 DEF IInv, ReaderOK
<1>10. TypeOK'
    BY <1>1, <1>4 DEF IInv, TypeOK
<1> QED
    BY <1>1, <1>3, <1>4, <1>5, <1>8, <1>9, <1>10 DEF IInv

\* The callbacks of this kind.
LEMMA PassedOverKeeps ==
    ASSUME IInv, NEW b \in Blocks, BlockNotWritten(b) \/ BlockPassedOver(b) \/ ChainStateFlushed(b)
    PROVE  IInv'
<1>1. CASE BlockNotWritten(b)
    BY <1>1, PassOverKeeps DEF BlockNotWritten, db
<1>2. CASE BlockPassedOver(b)
  <2>1. Take("connected") /\ tip' = tip /\ b = Head(queue).block
      BY <1>2 DEF BlockPassedOver, chain
  <2>2. b = queue[1].block
      BY <2>1, TakeKeeps
  <2> QED
      BY <1>2, <2>2, PassOverKeeps DEF BlockPassedOver, db
<1>3. CASE ChainStateFlushed(b)
    BY <1>3, PassOverKeeps DEF ChainStateFlushed, WriteBestBlock
<1> QED
    BY <1>1, <1>2, <1>3

\* A request to shut down changes only the phase.
LEMMA RequestShutdownKeeps ==
    ASSUME IInv, RequestShutdown
    PROVE  IInv'
<1> USE DEF RequestShutdown, chain, sync, reader, db
<1>1. BestIsCovered' /\ LocatorIsCovered'
    BY DEF IInv, BestIsCovered, LocatorIsCovered, Covered, Branch, NotWritten
<1>2. SyncOK' /\ DownOK' /\ QueueOK' /\ HandOverOK'
    BY DEF IInv, SyncOK, DownOK, QueueOK, HandOverOK, Written
<1>3. ReaderOK'
    BY DEF IInv, ReaderOK
<1>4. TypeOK'
    BY DEF IInv, TypeOK
<1> QED
    BY <1>1, <1>2, <1>3, <1>4 DEF IInv

\* A reader's steps leave the chain and the index alone.
ReaderOnly == UNCHANGED <<phase, chain, m_synced, m_best_block_index, sync, db>>

\* So they concern the queue and the reader.
LEMMA ReaderOnlyKeeps ==
    ASSUME IInv, ReaderOnly
    PROVE  /\ BestIsCovered' /\ LocatorIsCovered' /\ SyncOK' /\ Written' = Written
           /\ phase # "down" => DownOK'
BY DEF IInv, ReaderOnly, chain, sync, db, BestIsCovered, LocatorIsCovered, Covered, Branch, NotWritten,
       SyncOK, DownOK, Written

\* Ask: the tip is still ahead of the index, so a pending block connects and a later one has the tip.
LEMMA AskKeeps ==
    ASSUME IInv, Ask
    PROVE  IInv'
<1>1. /\ ReaderOnly /\ queue' = queue /\ phase = "up" /\ rpc = "idle" /\ m_synced
      /\ rpc' = "asked" /\ asked' = tip /\ tip # None /\ tip \notin Branch(m_best_block_index)
    BY DEF Ask, ReaderOnly, Branch
<1>2. NoneDrained(queue) /\ OneDrained(queue)
    BY <1>1 DEF IInv, ReaderOK
<1>3. PICK i \in Conn(queue) : Connects(m_best_block_index, queue[i].block)
    BY <1>1 DEF IInv, HandOverOK, Reaches
<1>4. PICK j \in Conn(queue) : i <= j /\ tip \in Anc[queue[j].block]
    BY DEF IInv, QueueOK, Ends
<1>5. Serves(queue, m_best_block_index, tip)
    BY <1>2, <1>3, <1>4 DEF Serves, NoneDrained
<1>6. tip \in Blocks
    BY <1>1 DEF IInv, TypeOK, MaybeBlock
<1>7. ReaderOK'
    BY <1>1, <1>2, <1>5, <1>6 DEF ReaderOK, ReaderOnly
<1>8. QueueOK' /\ HandOverOK'
    BY <1>1 DEF IInv, QueueOK, HandOverOK, ReaderOnly, chain
<1>9. TypeOK'
    BY <1>1, <1>6 DEF IInv, TypeOK, MaybeBlock, ReaderOnly, chain, sync, db
<1> QED
    BY <1>1, <1>7, <1>8, <1>9, ReaderOnlyKeeps DEF IInv

\* AskQueue: whatever was queued meanwhile, the reader's callback comes after its tip.
LEMMA AskQueueKeeps ==
    ASSUME IInv, AskQueue
    PROVE  IInv'
<1>1. /\ ReaderOnly /\ queue' = Append(queue, Drained) /\ phase # "down" /\ rpc = "asked"
      /\ rpc' = "waiting" /\ asked' = asked
    BY DEF AskQueue, ReaderOnly
<1>2. queue \in Seq(Callbacks) /\ Drained \in Callbacks /\ Drained.kind = "drained"
    BY Kinds DEF IInv, TypeOK
<1>3. NoneDrained(queue) /\ m_synced /\ asked \in Blocks
    BY <1>1 DEF IInv, ReaderOK
<1>4. /\ queue' \in Seq(Callbacks) /\ Len(queue') = Len(queue) + 1 /\ Len(queue) \in Nat
      /\ \A i \in 1..Len(queue) : queue'[i] = queue[i]
    BY <1>1, <1>2, PushFacts
<1>5. OneDrained(queue')
  <2>1. \A k \in 1..Len(queue') : queue'[k].kind = "drained" => k = Len(queue) + 1
      BY <1>3, <1>4 DEF NoneDrained
  <2> QED
      BY <2>1 DEF OneDrained
<1>6. Serves(queue, m_best_block_index, asked) => Serves(queue', m_best_block_index, asked)
    BY <1>1, <1>2, PushServes
<1>7. /\ Conn(queue') = Conn(queue) /\ Linked(queue') /\ (Ends(queue, tip) => Ends(queue', tip))
      /\ Reaches(queue, m_best_block_index) => Reaches(queue', m_best_block_index)
    BY <1>1, <1>2, PushOther, PushOtherKeeps DEF IInv, QueueOK
<1>8. QueueOK' /\ HandOverOK'
    BY <1>1, <1>7 DEF IInv, QueueOK, HandOverOK, ReaderOnly, chain, Branch
<1>9. ReaderOK'
    BY <1>1, <1>3, <1>5, <1>6, ReaderOnlyKeeps DEF IInv, ReaderOK, ReaderOnly
<1>10. TypeOK'
    BY <1>1, <1>4 DEF IInv, TypeOK, ReaderOnly, chain, sync, db
<1> QED
    BY <1>1, <1>8, <1>9, <1>10, ReaderOnlyKeeps DEF IInv

\* When the reader's callback is the first in the queue, its tip is covered.
LEMMA AnswerIsCovered ==
    ASSUME IInv, phase = "up", Answer
    PROVE  Covered(asked)
<1>1. queue \in Seq(Callbacks) /\ queue[1].kind = "drained" /\ ~NoneDrained(queue) /\ queue # <<>>
    BY TakeKeeps DEF Answer, chain
<1>2. rpc = "waiting" /\ asked \in Blocks
    BY <1>1 DEF IInv, ReaderOK
<1>3. ~Serves(queue, m_best_block_index, asked)
  <2>1. 1 \in 1..Len(queue)
      BY <1>1
  <2>2. \A j \in Conn(queue) : ~(j < 1)
      BY <1>1, ConnBlocks
  <2> QED
      BY <1>1, <2>1, <2>2 DEF Serves
<1>4. Anc[asked] \subseteq Written
    BY <1>2, <1>3 DEF IInv, ReaderOK
<1> QED
    BY <1>2, <1>4, Tree DEF Covered, Branch, Written

\* Answer: the reader is gone, and with it its only callback.
LEMMA AnswerKeeps ==
    ASSUME IInv, Answer
    PROVE  IInv'
<1>1. ReaderOnly /\ Take("drained") /\ tip' = tip /\ rpc' = "idle" /\ asked' = None
    BY DEF Answer, ReaderOnly, chain
<1>2. /\ queue \in Seq(Callbacks) /\ queue # <<>> /\ queue' = Tail(queue)
      /\ queue' \in Seq(Callbacks) /\ phase # "down" /\ 1 \notin Conn(queue)
      /\ QueueOK' /\ OneDrained(queue') /\ NoneDrained(queue')
    BY <1>1, TakeKeeps
<1>3. Reaches(queue, m_best_block_index) => Reaches(queue', m_best_block_index)
    BY <1>2, PopReaches
<1>4. HandOverOK'
    BY <1>1, <1>3 DEF IInv, HandOverOK, ReaderOnly, Branch
<1>5. ReaderOK'
    BY <1>1, <1>2 DEF ReaderOK
<1>6. TypeOK'
    BY <1>1, <1>2 DEF IInv, TypeOK, MaybeBlock, ReaderOnly, chain, sync, db
<1> QED
    BY <1>1, <1>2, <1>4, <1>5, <1>6, ReaderOnlyKeeps DEF IInv

-----------------------------------------------------------------------------
\* Every step preserves the inductive invariant.
LEMMA NextKeeps == IInv /\ [Next]_vars => IInv'
<1> SUFFICES ASSUME IInv, [Next]_vars PROVE IInv'
    OBVIOUS
<1>1. CASE ChainMoves
    BY <1>1, ConnectTipKeeps, DisconnectTipKeeps DEF ChainMoves
<1>2. CASE FlushStateToDisk
    BY <1>2, FlushKeeps
<1>3. CASE \E fork \in MaybeBlock : Start(fork)
    BY <1>3, StartKeeps
<1>4. CASE RequestShutdown
    BY <1>4, RequestShutdownKeeps
<1>5. CASE Shutdown \/ Crash
    BY <1>5, EndKeeps
<1>6. CASE ThreadSync
    BY <1>6, SyncNextKeeps, HandOverKeeps, SyncLocatorKeeps, SyncWriteKeeps, SyncEndsKeeps DEF ThreadSync
<1>7. CASE Process
    BY <1>7, BlockConnectedKeeps, PassedOverKeeps, AnswerKeeps DEF Process
<1>8. CASE Ask \/ AskQueue
    BY <1>8, AskKeeps, AskQueueKeeps
<1>9. CASE UNCHANGED vars
  <2> USE <1>9 DEF vars, chain, sync, reader, db
  <2>1. TypeOK' /\ BestIsCovered' /\ LocatorIsCovered'
      BY DEF IInv, TypeOK, BestIsCovered, LocatorIsCovered, Covered, Branch, NotWritten
  <2>2. SyncOK' /\ DownOK' /\ QueueOK' /\ HandOverOK' /\ ReaderOK'
      BY DEF IInv, SyncOK, DownOK, QueueOK, HandOverOK, ReaderOK, Written
  <2> QED
      BY <2>1, <2>2 DEF IInv
<1> QED
    BY <1>1, <1>2, <1>3, <1>4, <1>5, <1>6, <1>7, <1>8, <1>9 DEF Next

\* The inductive invariant holds throughout.
LEMMA Invariance == Spec => []IInv
BY InitHolds, NextKeeps, PTL DEF Spec

\* m_best_block_index: of the chain that ends there every block is indexed, or was missed because
\* the sync thread ended between writing the locator and the block it names.
THEOREM BestBlockIsCovered == Spec => []BestIsCovered
<1>1. IInv => BestIsCovered
    BY DEF IInv
<1> QED
    BY <1>1, Invariance, PTL

\* The locator on disk never names a chain with other blocks that are still to be indexed.
THEOREM LocatorStaysCovered == Spec => []LocatorIsCovered
<1>1. IInv => LocatorIsCovered
    BY DEF IInv
<1> QED
    BY <1>1, Invariance, PTL

\* Neither in memory nor on disk does the index claim a block that it can still lose.
THEOREM ClaimsAreCovered == Spec => []ClaimsCovered
<1>1. BestIsCovered /\ LocatorIsCovered => ClaimsCovered
    BY DEF ClaimsCovered
<1> QED
    BY BestBlockIsCovered, LocatorStaysCovered, <1>1, PTL

\* The hand-over from the sync thread to BlockConnected loses no block.
THEOREM HandOverLosesNothing == Spec => []CaughtUp
<1>1. IInv => CaughtUp
    BY DEF IInv, HandOverOK, CaughtUp, Reaches, Conn
<1> QED
    BY <1>1, Invariance, PTL

\* BlockUntilSyncedToCurrentChain keeps its promise to readers that wait for the queue to drain.
THEOREM ReadersFindTheirTip == Spec => PromiseKept
<1>1. IInv /\ [Next]_vars => [phase = "up" /\ Answer => Covered(asked)]_vars
    BY AnswerIsCovered
<1> QED
    BY <1>1, Invariance, PTL DEF Spec, PromiseKept

=============================================================================
