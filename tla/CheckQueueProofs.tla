-------------------------- MODULE CheckQueueProofs --------------------------
(***************************************************************************)
(* CCheckQueue never loses a check and Wait returns the conjunction of all *)
(* of them, for every number of checks, workers and batch size.            *)
(***************************************************************************)
EXTENDS CheckQueue, FiniteSetTheorems, TLAPS

IInv == TypeOK /\ TodoCounts /\ AllOkExact /\ IdleCounts

\* The checks that are queued or in the batch of another thread than t.
Others(t) == queue \cup UNION {vChecks[s] : s \in Threads \ {t}}

\* Sets of checks and of threads have a size.
LEMMA Sizes ==
    /\ \A S \in SUBSET Checks : IsFiniteSet(S) /\ Cardinality(S) \in Nat
    /\ \A S \in SUBSET Threads : IsFiniteSet(S) /\ Cardinality(S) \in Nat
  <1>1. IsFiniteSet(Threads)
    BY QueueAssumption, FS_AddElement DEF Threads
  <1> QED
    BY <1>1, QueueAssumption, FS_Subset, FS_CardinalityType

\* A batch is never empty.
LEMMA BatchPositive ==
    ASSUME NEW size \in Nat, NEW total \in Nat, NEW idle \in Nat
    PROVE  Batch(size, total, idle) \in Nat /\ Batch(size, total, idle) >= 1
  <1>1. size \div (total + idle + 1) \in Nat
    OBVIOUS
  <1> QED
    BY <1>1, QueueAssumption DEF Batch

\* The size of a disjoint union.
LEMMA DisjointSize ==
    ASSUME NEW A, NEW B, IsFiniteSet(A), IsFiniteSet(B), A \cap B = {}
    PROVE  /\ Cardinality(A) \in Nat /\ Cardinality(B) \in Nat
           /\ Cardinality(A \cup B) = Cardinality(A) + Cardinality(B)
  <1>1. Cardinality(A \cup B) = Cardinality(A) + Cardinality(B) - Cardinality(A \cap B)
    BY FS_Union
  <1>2. Cardinality(A \cap B) = 0
    BY FS_EmptySet
  <1>3. Cardinality(A) \in Nat /\ Cardinality(B) \in Nat
    BY FS_CardinalityType
  <1> QED
    BY <1>1, <1>2, <1>3

\* A finite set grows by one with a new element, and shrinks by one without an old one.
LEMMA OneMore ==
    ASSUME NEW S, IsFiniteSet(S), NEW x
    PROVE  /\ Cardinality(S) \in Nat
           /\ x \notin S => Cardinality(S \cup {x}) = Cardinality(S) + 1
           /\ x \in S => Cardinality(S \ {x}) = Cardinality(S) - 1
  BY Zenon, FS_CardinalityType, FS_AddElement, FS_RemoveElement

\* What is left of the pending checks when t gives back its batch.
LEMMA PendingWithout ==
    ASSUME TypeOK, TodoCounts, NEW t \in Threads
    PROVE  /\ queue \cup InFlight = Others(t) \cup vChecks[t]
           /\ Others(t) \cap vChecks[t] = {}
           /\ Others(t) \subseteq added
           /\ Others(t) \subseteq Checks
           /\ Cardinality(Others(t)) = nTodo - Cardinality(vChecks[t])
           /\ Cardinality(Others(t)) \in Nat
  <1>1. queue \cup InFlight = Others(t) \cup vChecks[t]
    BY DEF InFlight, Others
  <1>2. Others(t) \cap vChecks[t] = {}
    BY DEF TodoCounts, InFlight, Others
  <1>3. Others(t) \subseteq added /\ Others(t) \subseteq Checks /\ vChecks[t] \subseteq Checks
    BY <1>1 DEF TodoCounts, TypeOK
  <1>4. IsFiniteSet(Others(t)) /\ IsFiniteSet(vChecks[t])
    BY <1>3, Sizes
  <1> DEFINE A == Others(t)
             B == vChecks[t]
  <1>5. /\ Cardinality(A) \in Nat /\ Cardinality(B) \in Nat
        /\ Cardinality(A \cup B) = Cardinality(A) + Cardinality(B)
    <2> HIDE DEF A, B
    <2>1. IsFiniteSet(A) /\ IsFiniteSet(B) /\ A \cap B = {}
      BY <1>2, <1>4 DEF A, B
    <2> QED
      BY <2>1, DisjointSize
  <1>6. nTodo = Cardinality(A \cup B)
    BY Zenon, <1>1 DEF TodoCounts
  <1> QED
    BY <1>1, <1>2, <1>3, <1>5, <1>6

\* What a thread brings to the head of the loop: the number of threads in the loop and at rest
\* with it counted as busy, and what is true of the checks outside of its own batch.
AtLoop(t, total, idle, ok, todo, places) ==
    /\ total = Cardinality({s \in Threads : places[s] \notin Outside} \cup {t}) + left
    /\ idle = Cardinality({s \in Threads : places[s] \in Resting} \ {t}) + left
    /\ \A s \in Threads \ {t} :
          \/ places[s] = pc[s]
          \/ pc[s] \in Resting /\ places[s] \in Resting
    /\ todo = Cardinality(Others(t))
    /\ ok => (added \ Others(t)) \cap Bad = {}
    /\ ~ok => added \cap Bad # {}

\* The threads in the loop and those at rest, as IdleCounts counts them.
InLoop(q) == Cardinality({s \in Threads : q[s] \notin Outside})
AtRest(q) == Cardinality({s \in Threads : q[s] \in Resting})

\* The counters of the threads after the loop has been entered, from what was counted before.
LEMMA LoopCounts ==
    ASSUME NEW t \in Threads, NEW total, NEW idle, NEW places \in [Threads -> Places],
           left \in Nat,
           total = Cardinality({s \in Threads : places[s] \notin Outside} \cup {t}) + left,
           idle = Cardinality({s \in Threads : places[s] \in Resting} \ {t}) + left
    PROVE  /\ total \in Nat /\ idle \in Nat /\ total - 1 \in Nat
           /\ \A q : q = [places EXCEPT ![t] = "start"]
                       => InLoop(q) + left = total - 1 /\ AtRest(q) + left = idle
           /\ \A q : q = [places EXCEPT ![t] = "asleep"]
                       => InLoop(q) + left = total /\ AtRest(q) + left = idle + 1
           /\ \A q : q = [places EXCEPT ![t] = "working"]
                       => InLoop(q) + left = total /\ AtRest(q) + left = idle
  <1> DEFINE I == {s \in Threads : places[s] \notin Outside} \cup {t}
             R == {s \in Threads : places[s] \in Resting} \ {t}
             start == [places EXCEPT ![t] = "start"]
             asleep == [places EXCEPT ![t] = "asleep"]
             working == [places EXCEPT ![t] = "working"]
  <1>1. IsFiniteSet(I) /\ IsFiniteSet(R)
    BY Sizes
  <1>2. t \in I /\ t \notin R
    OBVIOUS
  <1>3. /\ {s \in Threads : start[s] \notin Outside} = I \ {t}
        /\ {s \in Threads : start[s] \in Resting} = R
        /\ {s \in Threads : asleep[s] \notin Outside} = I
        /\ {s \in Threads : asleep[s] \in Resting} = R \cup {t}
        /\ {s \in Threads : working[s] \notin Outside} = I
        /\ {s \in Threads : working[s] \in Resting} = R
    BY DEF Outside, Resting
  <1>4. /\ Cardinality(I \ {t}) + left = total - 1
        /\ total \in Nat
    <2> HIDE DEF I
    <2>1. total = Cardinality(I) + left
      BY DEF I
    <2>2. Cardinality(I) \in Nat /\ Cardinality(I \ {t}) = Cardinality(I) - 1
      BY <1>1, <1>2, OneMore
    <2> QED
      BY <2>1, <2>2
  <1>5. /\ Cardinality(R \cup {t}) + left = idle + 1
        /\ idle \in Nat
    <2> HIDE DEF R
    <2>1. idle = Cardinality(R) + left
      BY DEF R
    <2>2. Cardinality(R) \in Nat /\ Cardinality(R \cup {t}) = Cardinality(R) + 1
      BY <1>1, <1>2, OneMore
    <2> QED
      BY <2>1, <2>2
  <1>6. total - 1 \in Nat
    <2>1. IsFiniteSet(I \ {t})
      BY <1>1, FS_Subset
    <2> QED
      BY <1>4, <2>1, FS_CardinalityType
  <1>7. total = Cardinality(I) + left /\ idle = Cardinality(R) + left
    OBVIOUS
  <1> HIDE DEF I, R, start, asleep, working
  <1>8. /\ InLoop(start) + left = total - 1 /\ AtRest(start) + left = idle
        /\ InLoop(asleep) + left = total /\ AtRest(asleep) + left = idle + 1
        /\ InLoop(working) + left = total /\ AtRest(working) + left = idle
    BY <1>3, <1>4, <1>5, <1>7, Zenon DEF InLoop, AtRest
  <1> QED
    BY Zenon, <1>4, <1>5, <1>6, <1>8 DEF start, asleep, working

\* A pass through the loop, whether it ends with the return of Wait, in a sleep or with a batch,
\* keeps the inductive invariant; Wait returns the conjunction of the checks.
LEMMA LoopKeeps ==
    ASSUME IInv, NEW t \in Threads, NEW total, NEW idle, NEW ok \in BOOLEAN, NEW todo,
           NEW places \in [Threads -> Places],
           AtLoop(t, total, idle, ok, todo, places),
           Loop(t, total, idle, ok, todo, places)
    PROVE  /\ IInv'
           /\ \/ added' = added
              \/ /\ added' = {} /\ result' = (added \cap Bad = {})
                 /\ queue' = {} /\ \A s \in Threads : vChecks'[s] = {}
  <1> USE DEF IInv
  <1>1. /\ Others(t) \subseteq added /\ Others(t) \subseteq Checks
        /\ Cardinality(Others(t)) \in Nat
    BY PendingWithout
  <1>2. /\ total \in Nat /\ idle \in Nat /\ total - 1 \in Nat
        /\ \A s \in Threads \ {t} : vChecks[s] \subseteq Others(t)
        /\ todo \in Nat
    <2>1. left \in Nat
      BY DEF TypeOK
    <2>2. total \in Nat /\ idle \in Nat /\ total - 1 \in Nat
      BY <2>1, LoopCounts DEF AtLoop
    <2> QED
      BY <1>1, <2>2 DEF AtLoop, Others
  <1>3. ASSUME NEW B \in SUBSET queue, queue' = queue \ B, vChecks' = [vChecks EXCEPT ![t] = B]
        PROVE  /\ (queue \cup InFlight)' = Others(t)
               /\ (queue \cap InFlight)' = {}
               /\ \A r, s \in Threads : r # s => vChecks'[r] \cap vChecks'[s] = {}
               /\ vChecks' \in [Threads -> SUBSET Checks] /\ queue' \subseteq Checks
    <2>1. \A s \in Threads : vChecks'[s] = IF s = t THEN B ELSE vChecks[s]
      BY <1>3 DEF TypeOK
    <2>2. \A s \in Threads : vChecks[s] \subseteq InFlight
      BY DEF InFlight
    <2>3. \A r, s \in Threads : r # s => vChecks'[r] \cap vChecks'[s] = {}
      BY <2>1, <2>2 DEF TodoCounts
    <2>4. InFlight' = B \cup UNION {vChecks[s] : s \in Threads \ {t}}
      BY <2>1 DEF InFlight
    <2>5. (queue \cup InFlight)' = Others(t)
      BY <1>3, <2>4 DEF Others
    <2>6. UNION {vChecks[s] : s \in Threads \ {t}} \subseteq InFlight
      BY DEF InFlight
    <2>7. (queue \cap InFlight)' = {}
      BY <1>3, <2>4, <2>6 DEF TodoCounts
    <2> QED
      BY <1>3, <2>3, <2>5, <2>7 DEF TypeOK
  <1>4. /\ \A q : q = [places EXCEPT ![t] = "start"]
                    => InLoop(q) + left = total - 1 /\ AtRest(q) + left = idle
        /\ \A q : q = [places EXCEPT ![t] = "asleep"]
                    => InLoop(q) + left = total /\ AtRest(q) + left = idle + 1
        /\ \A q : q = [places EXCEPT ![t] = "working"]
                    => InLoop(q) + left = total /\ AtRest(q) + left = idle
    <2>1. left \in Nat
      BY DEF TypeOK
    <2>2. /\ total = Cardinality({s \in Threads : places[s] \notin Outside} \cup {t}) + left
          /\ idle = Cardinality({s \in Threads : places[s] \in Resting} \ {t}) + left
      BY DEF AtLoop
    <2> QED
      BY <2>1, <2>2, LoopCounts
  <1>5. CASE Return(t, total, idle, ok, todo, places) /\ vChecks' = [vChecks EXCEPT ![t] = {}]
    <2>1. Others(t) = {}
      <3>1. IsFiniteSet(Others(t)) /\ Cardinality(Others(t)) = 0
        BY <1>1, <1>5, Sizes DEF Return, AtLoop
      <3> QED
        BY <3>1, FS_EmptySet
    <2>2. /\ (queue \cup InFlight)' = {} /\ (queue \cap InFlight)' = {}
          /\ \A r, s \in Threads : r # s => vChecks'[r] \cap vChecks'[s] = {}
          /\ vChecks' \in [Threads -> SUBSET Checks] /\ queue' \subseteq Checks
      BY Zenon, <1>3, <1>5, <2>1 DEF Return
    <2>3. queue' = {} /\ \A s \in Threads : vChecks'[s] = {}
      BY <2>2 DEF InFlight
    <2>4. /\ pc' = [places EXCEPT ![t] = "start"] /\ left' = left /\ added' = {} /\ fOk' = fOk
          /\ fAllOk' = TRUE /\ result' = ok /\ nTodo' = 0 /\ todo = 0
          /\ nTotal' = total - 1 /\ nIdle' = idle
      BY <1>5 DEF Return, Loop
    <2>5. \A s \in Threads : pc'[s] \notin {"working", "finished"}
      <3>1. \A s \in Threads \ {t} : vChecks[s] = {}
        BY <1>2, <2>1
      <3>2. \A s \in Threads \ {t} : pc[s] \notin {"working", "finished"}
        BY <3>1 DEF AllOkExact
      <3> QED
        BY <2>4, <3>2 DEF AtLoop, Resting
    <2>6. AllOkExact'
      BY <2>3, <2>4, <2>5 DEF AllOkExact
    <2>7. TodoCounts'
      BY <2>2, <2>4, FS_EmptySet DEF TodoCounts
    <2>8. IdleCounts'
      <3>1. InLoop(pc') + left' = nTotal' /\ AtRest(pc') + left' = nIdle'
        BY Zenon, <1>4, <2>4
      <3> QED
        BY <3>1 DEF IdleCounts, InLoop, AtRest
    <2>9. TypeOK'
      BY <1>2, <2>2, <2>4 DEF TypeOK, Places
    <2>10. ok = (added \cap Bad = {})
      BY <2>1 DEF AtLoop
    <2> QED
      BY <2>3, <2>4, <2>6, <2>7, <2>8, <2>9, <2>10
  <1>6. CASE Sleep(t, total, idle, ok, todo, places) /\ vChecks' = [vChecks EXCEPT ![t] = {}]
    <2>2. /\ (queue \cup InFlight)' = Others(t) /\ (queue \cap InFlight)' = {}
          /\ \A r, s \in Threads : r # s => vChecks'[r] \cap vChecks'[s] = {}
          /\ vChecks' \in [Threads -> SUBSET Checks] /\ queue' \subseteq Checks
      BY Zenon, <1>3, <1>6 DEF Sleep
    <2>4. /\ pc' = [places EXCEPT ![t] = "asleep"] /\ left' = left /\ added' = added /\ fOk' = fOk
          /\ fAllOk' = ok /\ result' = result /\ nTodo' = todo
          /\ nTotal' = total /\ nIdle' = idle + 1
      BY <1>6 DEF Sleep, Loop
    <2>6. AllOkExact'
      <3>1. \A s \in Threads \ {t} : vChecks'[s] = vChecks[s] /\ pc'[s] = places[s]
        BY <1>6, <2>4 DEF TypeOK
      <3>2. vChecks'[t] = {} /\ pc'[t] = "asleep"
        BY <1>6, <2>4 DEF TypeOK
      <3> QED
        BY <2>2, <2>4, <3>1, <3>2 DEF AllOkExact, AtLoop, Resting
    <2>7. TodoCounts'
      BY Zenon, <1>1, <2>2, <2>4 DEF TodoCounts, AtLoop
    <2>8. IdleCounts'
      <3>1. InLoop(pc') + left' = nTotal' /\ AtRest(pc') + left' = nIdle'
        BY Zenon, <1>4, <2>4
      <3> QED
        BY <3>1 DEF IdleCounts, InLoop, AtRest
    <2>9. TypeOK'
      BY <1>2, <2>2, <2>4 DEF TypeOK, Places
    <2> QED
      BY <2>4, <2>6, <2>7, <2>8, <2>9
  <1>7. CASE \E B \in SUBSET queue :
                /\ Take(t, B, total, idle, ok, places)
                /\ vChecks' = [vChecks EXCEPT ![t] = B]
    <2>1. PICK B \in SUBSET queue :
                /\ Take(t, B, total, idle, ok, places)
                /\ vChecks' = [vChecks EXCEPT ![t] = B]
      BY Zenon, <1>7
    <2>2. /\ (queue \cup InFlight)' = Others(t) /\ (queue \cap InFlight)' = {}
          /\ \A r, s \in Threads : r # s => vChecks'[r] \cap vChecks'[s] = {}
          /\ vChecks' \in [Threads -> SUBSET Checks] /\ queue' \subseteq Checks
      BY Zenon, <1>3, <2>1 DEF Take
    <2>3. B # {}
      <3>1. Cardinality(queue) \in Nat
        BY Sizes DEF TypeOK
      <3>2. Cardinality(B) >= 1
        BY <1>2, <2>1, <3>1, BatchPositive DEF Take
      <3> QED
        BY <3>2, FS_EmptySet
    <2>4. /\ pc' = [places EXCEPT ![t] = "working"] /\ left' = left /\ added' = added
          /\ fOk' = [fOk EXCEPT ![t] = ok]
          /\ fAllOk' = ok /\ result' = result /\ nTodo' = todo
          /\ nTotal' = total /\ nIdle' = idle
      BY <2>1 DEF Take, Loop
    <2>6. AllOkExact'
      <3>1. \A s \in Threads \ {t} :
               vChecks'[s] = vChecks[s] /\ pc'[s] = places[s] /\ fOk'[s] = fOk[s]
        BY <2>1, <2>4 DEF TypeOK
      <3>2. vChecks'[t] = B /\ pc'[t] = "working" /\ fOk'[t] = ok
        BY <2>1, <2>4 DEF TypeOK
      <3> QED
        BY <2>2, <2>3, <2>4, <3>1, <3>2 DEF AllOkExact, AtLoop, Resting
    <2>7. TodoCounts'
      BY Zenon, <1>1, <2>2, <2>4 DEF TodoCounts, AtLoop
    <2>8. IdleCounts'
      <3>1. InLoop(pc') + left' = nTotal' /\ AtRest(pc') + left' = nIdle'
        BY Zenon, <1>4, <2>4
      <3> QED
        BY <3>1 DEF IdleCounts, InLoop, AtRest
    <2>9. TypeOK'
      BY <1>2, <2>2, <2>4 DEF TypeOK, Places
    <2> QED
      BY <2>4, <2>6, <2>7, <2>8, <2>9
  <1> QED
    BY <1>5, <1>6, <1>7 DEF Loop

\* A thread whose batch is empty comes to the loop with every pending check in another place.
LEMMA EnterKeeps ==
    ASSUME IInv, NEW t \in Threads, Enter(t) \/ Wake(t)
    PROVE  /\ IInv'
           /\ \/ added' = added
              \/ /\ added' = {} /\ result' = (added \cap Bad = {})
                 /\ queue' = {} /\ \A s \in Threads : vChecks'[s] = {}
  <1> USE DEF IInv
  <1>1. vChecks[t] = {}
    BY DEF AllOkExact, Enter, Wake, Outside
  <1>2. /\ Others(t) = queue \cup InFlight
        /\ nTodo = Cardinality(Others(t))
    BY Zenon, <1>1, PendingWithout DEF TodoCounts
  <1> DEFINE I == {s \in Threads : pc[s] \notin Outside}
             R == {s \in Threads : pc[s] \in Resting}
  <1>3. /\ IsFiniteSet(I) /\ IsFiniteSet(R)
        /\ nTotal = Cardinality(I) + left /\ nIdle = Cardinality(R) + left
    BY Sizes DEF IdleCounts
  <1>4. CASE Enter(t)
    <2>1. t \notin I /\ t \notin R
      BY <1>4 DEF Enter, Outside, Resting
    <2>2. nTotal + 1 = Cardinality(I \cup {t}) + left /\ nIdle = Cardinality(R \ {t}) + left
      <3> HIDE DEF I, R
      <3>1. Cardinality(R \ {t}) = Cardinality(R) /\ left \in Nat
        <4>1. R \ {t} = R
          BY <2>1
        <4> QED
          BY <4>1 DEF TypeOK
      <3>2. /\ Cardinality(I) \in Nat /\ Cardinality(R) \in Nat
            /\ Cardinality(I \cup {t}) = Cardinality(I) + 1
        BY Zenon, <1>3, <2>1, OneMore
      <3> QED
        BY <1>3, <3>1, <3>2
    <2>3. AtLoop(t, nTotal + 1, nIdle, fAllOk, nTodo, pc)
      BY <1>2, <2>2 DEF AtLoop, AllOkExact
    <2> QED
      BY <1>4, <2>3, LoopKeeps DEF Enter, TypeOK
  <1>5. CASE Wake(t)
    <2>1. t \in I /\ t \in R
      BY <1>5 DEF Wake, Outside, Resting
    <2>2. nTotal = Cardinality(I \cup {t}) + left /\ nIdle - 1 = Cardinality(R \ {t}) + left
      <3> HIDE DEF I, R
      <3>1. Cardinality(I \cup {t}) = Cardinality(I) /\ left \in Nat
        <4>1. I \cup {t} = I
          BY <2>1
        <4> QED
          BY <4>1 DEF TypeOK
      <3>2. /\ Cardinality(I) \in Nat /\ Cardinality(R) \in Nat
            /\ Cardinality(R \ {t}) = Cardinality(R) - 1
        BY Zenon, <1>3, <2>1, OneMore
      <3> QED
        BY <1>3, <3>1, <3>2
    <2>3. AtLoop(t, nTotal, nIdle - 1, fAllOk, nTodo, pc)
      BY <1>2, <2>2 DEF AtLoop, AllOkExact
    <2> QED
      BY Zenon, <1>5, <2>3, LoopKeeps DEF Wake, TypeOK
  <1> QED
    BY <1>4, <1>5

\* A thread that has run its batch takes it off nTodo and joins its result to fAllOk.
LEMMA CleanUpKeeps ==
    ASSUME IInv, NEW t \in Threads, CleanUp(t)
    PROVE  /\ IInv'
           /\ \/ added' = added
              \/ /\ added' = {} /\ result' = (added \cap Bad = {})
                 /\ queue' = {} /\ \A s \in Threads : vChecks'[s] = {}
  <1> USE DEF IInv
  <1> DEFINE places == MasterTold(t, TodoLess(t))
  <1>1. /\ queue \cup InFlight = Others(t) \cup vChecks[t]
        /\ TodoLess(t) = Cardinality(Others(t))
    BY PendingWithout DEF TodoLess
  <1>2. /\ AllOk(t) => (added \ Others(t)) \cap Bad = {}
        /\ ~AllOk(t) => added \cap Bad # {}
        /\ AllOk(t) \in BOOLEAN
    BY <1>1 DEF AllOk, AllOkExact, CleanUp, TypeOK
  <1>3. /\ places \in [Threads -> Places]
        /\ \A s \in Threads : \/ places[s] = pc[s]
                              \/ pc[s] = "asleep" /\ places[s] = "woken"
    BY Zenon DEF MasterTold, TypeOK, Places
  <1> HIDE DEF places
  <1> DEFINE I == {s \in Threads : pc[s] \notin Outside}
             R == {s \in Threads : pc[s] \in Resting}
  <1>4. /\ {s \in Threads : places[s] \notin Outside} \cup {t} = I
        /\ {s \in Threads : places[s] \in Resting} \ {t} = R
    BY <1>3 DEF CleanUp, Outside, Resting
  <1>5. nTotal = Cardinality(I) + left /\ nIdle = Cardinality(R) + left
    BY DEF IdleCounts
  <1>6. AtLoop(t, nTotal, nIdle, AllOk(t), TodoLess(t), places)
    BY Zenon, <1>1, <1>2, <1>3, <1>4, <1>5 DEF AtLoop, Resting
  <1> QED
    BY <1>2, <1>3, <1>6, LoopKeeps DEF CleanUp, places

\* New checks are in no batch and in nobody's count yet.
LEMMA AddKeeps ==
    ASSUME IInv, NEW S \in SUBSET Checks, Add(S)
    PROVE  IInv' /\ added \subseteq added'
  <1> USE DEF IInv
  <1> DEFINE P == queue \cup InFlight
  <1>1. InFlight' = InFlight /\ (queue \cup InFlight)' = P \cup S
    BY DEF Add, InFlight
  <1>2. P \cap S = {} /\ P \subseteq Checks /\ P \subseteq added
    BY DEF Add, TodoCounts, TypeOK
  <1>3. IsFiniteSet(P) /\ IsFiniteSet(S)
    BY <1>2, Sizes
  <1>4. /\ Cardinality(P \cup S) = nTodo + Cardinality(S)
        /\ nTodo + Cardinality(S) \in Nat
    <2>1. nTodo = Cardinality(P)
      BY DEF TodoCounts
    <2> HIDE DEF P
    <2> QED
      BY <1>2, <1>3, <2>1, DisjointSize
  <1>5. /\ pc' \in [Threads -> Places]
        /\ \A t \in Threads : \/ pc'[t] = pc[t]
                              \/ pc[t] = "asleep" /\ pc'[t] = "woken"
    <2> DEFINE n == Cardinality(S)
               asleep == {w \in Workers : pc[w] = "asleep"}
    <2>1. \/ \E w \in asleep : pc' = [pc EXCEPT ![w] = "woken"]
          \/ pc' = [t \in Threads |-> IF n > 1 /\ t \in asleep THEN "woken" ELSE pc[t]]
      BY DEF Add, Notified
    <2> QED
      BY <2>1 DEF TypeOK, Places, Threads
  <1>6. TypeOK'
    BY <1>4, <1>5 DEF Add, TypeOK
  <1>7. TodoCounts'
    <2>1. (queue \cap InFlight)' = {}
      BY <1>1, <1>2 DEF Add, TodoCounts
    <2>2. (queue \cup InFlight \subseteq added)'
      BY <1>1, <1>2 DEF Add
    <2> QED
      BY Zenon, <1>1, <1>4, <2>1, <2>2 DEF Add, TodoCounts
  <1>8. AllOkExact'
    BY <1>1, <1>5 DEF Add, AllOkExact
  <1>9. IdleCounts'
    <2>1. /\ {t \in Threads : pc'[t] \notin Outside} = {t \in Threads : pc[t] \notin Outside}
          /\ {t \in Threads : pc'[t] \in Resting} = {t \in Threads : pc[t] \in Resting}
      BY <1>5 DEF Outside, Resting
    <2> QED
      BY Zenon, <2>1 DEF Add, IdleCounts
  <1> QED
    BY <1>6, <1>7, <1>8, <1>9 DEF Add

\* A batch that is run, and a thread interrupted in its sleep, move no check.
LEMMA MoveKeeps ==
    ASSUME IInv, NEW t \in Threads, RunBatch(t) \/ Interrupt(t)
    PROVE  IInv' /\ added' = added
  <1> USE DEF IInv
  <1>1. /\ UNCHANGED <<queue, nIdle, nTotal, fAllOk, nTodo, vChecks, left, added, result>>
        /\ InFlight' = InFlight
    BY DEF RunBatch, Interrupt, InFlight
  <1>2. \/ /\ pc[t] = "working" /\ pc' = [pc EXCEPT ![t] = "finished"]
           /\ fOk' = [fOk EXCEPT ![t] = fOk[t] /\ vChecks[t] \cap Bad = {}]
        \/ /\ pc[t] \in {"asleep", "woken"} /\ pc' = [pc EXCEPT ![t] = "interrupted"]
           /\ fOk' = fOk
    BY DEF RunBatch, Interrupt
  <1>3. TypeOK'
    BY Zenon, <1>1, <1>2 DEF TypeOK, Places
  <1>4. TodoCounts'
    BY <1>1 DEF TodoCounts
  <1>5. AllOkExact'
    <2>1. vChecks[t] \subseteq added
      BY DEF TodoCounts, InFlight
    <2> QED
      BY Zenon, <1>1, <1>2, <2>1 DEF AllOkExact, TypeOK
  <1>6. IdleCounts'
    <2>1. /\ {s \in Threads : pc'[s] \notin Outside} = {s \in Threads : pc[s] \notin Outside}
          /\ {s \in Threads : pc'[s] \in Resting} = {s \in Threads : pc[s] \in Resting}
      BY <1>2 DEF Outside, Resting, TypeOK
    <2> QED
      BY <1>1, <2>1 DEF IdleCounts
  <1> QED
    BY <1>1, <1>3, <1>4, <1>5, <1>6

\* A master thrown out of its sleep stays in the counts, and comes back with nothing in its batch.
LEMMA UnwindKeeps ==
    ASSUME IInv, InterruptMaster
    PROVE  IInv' /\ added' = added
  <1> USE DEF IInv
  <1>1. /\ UNCHANGED <<queue, nIdle, nTotal, fAllOk, nTodo, vChecks, fOk, added, result>>
        /\ pc' = [pc EXCEPT ![master] = "unwinding"] /\ left = 0 /\ left' = 1
        /\ pc[master] \in {"asleep", "woken"} /\ master \in Threads
        /\ InFlight' = InFlight
    BY DEF InterruptMaster, InFlight, Threads
  <1>2. TypeOK'
    BY <1>1 DEF TypeOK, Places
  <1>3. TodoCounts'
    BY <1>1 DEF TodoCounts
  <1>4. AllOkExact'
    BY <1>1 DEF AllOkExact, TypeOK
  <1> DEFINE I == {s \in Threads : pc[s] \notin Outside}
             R == {s \in Threads : pc[s] \in Resting}
  <1>5. IdleCounts'
    <2>1. /\ {s \in Threads : pc'[s] \notin Outside} = I \ {master}
          /\ {s \in Threads : pc'[s] \in Resting} = R \ {master}
          /\ master \in I /\ master \in R
      BY <1>1 DEF Outside, Resting, TypeOK
    <2>2. IsFiniteSet(I) /\ IsFiniteSet(R)
      BY Sizes
    <2>3. nTotal = Cardinality(I) /\ nIdle = Cardinality(R)
      <3>1. nTotal = Cardinality(I) + left /\ nIdle = Cardinality(R) + left
        BY DEF IdleCounts
      <3>2. Cardinality(I) \in Nat /\ Cardinality(R) \in Nat
        BY <2>2, FS_CardinalityType
      <3> QED
        BY <1>1, <3>1, <3>2
    <2>4. nTotal' = Cardinality(I \ {master}) + 1 /\ nIdle' = Cardinality(R \ {master}) + 1
      <3> HIDE DEF I, R
      <3> QED
        BY <1>1, <2>1, <2>2, <2>3, OneMore
    <2> QED
      BY Zenon, <1>1, <2>1, <2>4 DEF IdleCounts
  <1> QED
    BY <1>1, <1>2, <1>3, <1>4, <1>5

\* Every step keeps the inductive invariant, and if it ends a Wait the result is exact.
LEMMA StepKeeps ==
    ASSUME IInv, [Next]_vars
    PROVE  /\ IInv'
           /\ added # {} /\ added' = {}
                => /\ result' = (added \cap Bad = {})
                   /\ queue' = {} /\ \A t \in Threads : vChecks'[t] = {}
  <1>1. CASE \E S \in SUBSET Checks : Add(S)
    BY <1>1, AddKeeps
  <1>2. CASE \E t \in Threads : Enter(t) \/ Wake(t)
    BY <1>2, EnterKeeps
  <1>3. CASE \E t \in Threads : CleanUp(t)
    BY <1>3, CleanUpKeeps
  <1>4. CASE \E t \in Threads : RunBatch(t) \/ Interrupt(t)
    BY <1>4, MoveKeeps
  <1>5. CASE InterruptMaster
    BY <1>5, UnwindKeeps
  <1>6. CASE UNCHANGED vars
    BY <1>6 DEF vars, IInv, TypeOK, TodoCounts, AllOkExact, IdleCounts, InFlight
  <1> QED
    BY <1>1, <1>2, <1>3, <1>4, <1>5, <1>6 DEF Next, Threads

\* The queue starts with nothing to do and nobody in its loop.
LEMMA InitHolds == Init => IInv
  <1> SUFFICES ASSUME Init PROVE IInv
    OBVIOUS
  <1>1. InFlight = {}
    BY DEF Init, InFlight
  <1>2. /\ {t \in Threads : pc[t] \notin Outside} = {}
        /\ {t \in Threads : pc[t] \in Resting} = {}
    BY DEF Init, Outside, Resting
  <1> QED
    BY <1>1, <1>2, FS_EmptySet
       DEF Init, IInv, TypeOK, TodoCounts, AllOkExact, IdleCounts, Places

\* nTodo counts the checks that are queued or in the batch of a worker, each of them once, for any
\* block, number of threads and batch size: no check is lost or taken twice.  nIdle and nTotal count
\* the threads, so a batch is never empty.
THEOREM NoCheckLost == Spec => []CountersExact
  <1>1. IInv /\ [Next]_vars => IInv'
    BY StepKeeps
  <1>2. IInv => CountersExact
    BY DEF IInv, CountersExact
  <1> QED
    BY InitHolds, <1>1, <1>2, PTL DEF Spec

\* fAllOk and the batches account for every check that was run or passed over.
THEOREM AllOkAccounts == Spec => []AllOkExact
  <1>1. IInv /\ [Next]_vars => IInv'
    BY StepKeeps
  <1>2. IInv => AllOkExact
    BY DEF IInv
  <1> QED
    BY InitHolds, <1>1, <1>2, PTL DEF Spec

\* The result ConnectBlock gets from control.Wait() is true exactly when every script check it
\* added holds, and no check of the block is queued or running when it gets it.
THEOREM WaitIsExact == Spec => WaitExact
  <1> DEFINE Exact ==
        added # {} /\ added' = {}
          => /\ result' = (added \cap Bad = {})
             /\ queue' = {} /\ \A t \in Threads : vChecks'[t] = {}
  <1>1. IInv /\ [Next]_vars => IInv'
    BY StepKeeps
  <1>2. IInv /\ [Next]_vars => [Exact]_vars
    BY StepKeeps
  <1> HIDE DEF Exact
  <1>3. Spec => [][Exact]_vars
    BY InitHolds, <1>1, <1>2, PTL DEF Spec
  <1> QED
    BY <1>3 DEF WaitExact, Exact

==============================================================================
