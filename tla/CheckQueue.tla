----------------------------- MODULE CheckQueue -----------------------------
(***************************************************************************)
(* The queue on which ConnectBlock has its scripts verified: CCheckQueue   *)
(* and CCheckQueueControl of checkqueue.h.  A step is what a thread does   *)
(* from taking the mutex to giving it up, or the checks it runs without    *)
(* it.  The condition variables are modelled by the threads asleep on      *)
(* them; they may also wake up by themselves.                              *)
(*                                                                         *)
(* A check is a model value, its outcome is whether it is in Bad.  "As the *)
(* order of booleans doesn't matter" the queue is a set.                   *)
(***************************************************************************)
EXTENDS Integers, FiniteSets

CONSTANTS
    Checks,         \* the script checks of a block
    Bad,            \* those that fail
    Workers,        \* the threads of ThreadScriptCheck
    master,         \* the thread in ConnectBlock
    nBatchSize

ASSUME QueueAssumption ==
    /\ IsFiniteSet(Checks) /\ Bad \subseteq Checks
    /\ IsFiniteSet(Workers) /\ master \notin Workers
    /\ nBatchSize \in Nat \ {0}

Threads == Workers \cup {master}

VARIABLES
    queue,          \* checks nobody has taken yet
    nIdle, nTotal, fAllOk, nTodo,
    vChecks, fOk,   \* per thread: its batch, and the result it works with
    pc,             \* per thread, see below
    left,           \* how often the master was thrown out of its sleep
    added,          \* the checks added since the last Wait returned
    result          \* what the last Wait returned

vars == <<queue, nIdle, nTotal, fAllOk, nTodo, vChecks, fOk, pc, left, added, result>>

\* start: outside of Loop; unwinding: thrown out of it, before ~CCheckQueueControl; asleep, woken: in
\* cond.wait, before and after a notification; working: a batch taken; finished: its checks run;
\* interrupted: the thread has left for good.
Places == {"start", "unwinding", "asleep", "woken", "working", "finished", "interrupted"}
Outside == {"start", "unwinding"}
Resting == {"asleep", "woken", "interrupted"}

Init ==
    /\ queue = {} /\ added = {}
    /\ nIdle = 0 /\ nTotal = 0 /\ nTodo = 0 /\ left = 0
    /\ fAllOk = TRUE /\ result = TRUE
    /\ vChecks = [t \in Threads |-> {}]
    /\ fOk = [t \in Threads |-> TRUE]
    /\ pc = [t \in Threads |-> "start"]

-----------------------------------------------------------------------------
\* std::max(1U, std::min(nBatchSize, queue.size() / (nTotal + nIdle + 1)))
Batch(size, total, idle) ==
    LET share == size \div (total + idle + 1)
    IN  IF share = 0 THEN 1 ELSE IF share < nBatchSize THEN share ELSE nBatchSize

\* notify_one and notify_all on condWorker by Add.
Notified(places, n) ==
    LET asleep == {w \in Workers : pc[w] = "asleep"}
    IN  IF n = 1 /\ asleep # {}
          THEN \E w \in asleep : places = [pc EXCEPT ![w] = "woken"]
          ELSE places = [t \in Threads |-> IF n > 1 /\ t \in asleep THEN "woken" ELSE pc[t]]

\* CCheckQueueControl::Add by the master.
Add(S) ==
    /\ pc[master] = "start"
    /\ S # {} /\ S \subseteq Checks \ added
    /\ queue' = queue \cup S
    /\ added' = added \cup S
    /\ nTodo' = nTodo + Cardinality(S)
    /\ Notified(pc', Cardinality(S))
    /\ UNCHANGED <<nIdle, nTotal, fAllOk, vChecks, fOk, left, result>>

\* From "logically, the do loop starts here", with the mutex held and the other members at the
\* given values; places is pc after a notification.  The first is a variant that does not wait
\* for the batches other threads are working on.
ReturnAtOnce(t, total, idle, ok, todo, places) ==
    /\ queue = {} /\ t = master
    /\ result' = ok /\ fAllOk' = TRUE
    /\ nTotal' = total - 1 /\ nIdle' = idle
    /\ pc' = [places EXCEPT ![t] = "start"]
    /\ added' = {}
    /\ UNCHANGED <<queue, fOk, left>>

Return(t, total, idle, ok, todo, places) ==
    /\ queue = {} /\ t = master /\ todo = 0
    /\ result' = ok /\ fAllOk' = TRUE
    /\ nTotal' = total - 1 /\ nIdle' = idle
    /\ pc' = [places EXCEPT ![t] = "start"]
    /\ added' = {}
    /\ UNCHANGED <<queue, fOk, left>>

Sleep(t, total, idle, ok, todo, places) ==
    /\ queue = {} /\ ~(t = master /\ todo = 0)
    /\ nIdle' = idle + 1 /\ nTotal' = total
    /\ fAllOk' = ok
    /\ pc' = [places EXCEPT ![t] = "asleep"]
    /\ UNCHANGED <<queue, fOk, left, added, result>>

Take(t, B, total, idle, ok, places) ==
    /\ queue # {} /\ Cardinality(B) = Batch(Cardinality(queue), total, idle)
    /\ queue' = queue \ B
    /\ nIdle' = idle /\ nTotal' = total
    /\ fAllOk' = ok /\ fOk' = [fOk EXCEPT ![t] = ok]
    /\ pc' = [places EXCEPT ![t] = "working"]
    /\ UNCHANGED <<left, added, result>>

Loop(t, total, idle, ok, todo, places) ==
    /\ nTodo' = todo
    /\ \/ /\ Return(t, total, idle, ok, todo, places) \/ Sleep(t, total, idle, ok, todo, places)
          /\ vChecks' = [vChecks EXCEPT ![t] = {}]
       \/ \E B \in SUBSET queue :
             /\ Take(t, B, total, idle, ok, places)
             /\ vChecks' = [vChecks EXCEPT ![t] = B]

\* Thread() and Wait(): the first iteration.
Enter(t) ==
    /\ pc[t] \in Outside
    /\ Loop(t, nTotal + 1, nIdle, fAllOk, nTodo, pc)

\* The wait is over, by a notification or without one.
Wake(t) ==
    /\ pc[t] \in {"asleep", "woken"}
    /\ Loop(t, nTotal, nIdle - 1, fAllOk, nTodo, pc)

\* The checks of the batch run until one fails.
RunBatch(t) ==
    /\ pc[t] = "working"
    /\ fOk' = [fOk EXCEPT ![t] = @ /\ vChecks[t] \cap Bad = {}]
    /\ pc' = [pc EXCEPT ![t] = "finished"]
    /\ UNCHANGED <<queue, nIdle, nTotal, fAllOk, nTodo, vChecks, left, added, result>>

\* Variants: nobody tells the master; the last batch decides; a batch counts as one check.
MasterNotTold(t, todo) == pc
LastBatchOk(t) == fOk[t]
TodoLessOne(t) == nTodo - 1

\* The clean-up of the previous iteration: what it tells the master, fAllOk and nTodo after it.
MasterTold(t, todo) ==
    IF todo = 0 /\ t # master /\ pc[master] = "asleep" THEN [pc EXCEPT ![master] = "woken"] ELSE pc
AllOk(t) == fAllOk /\ fOk[t]
TodoLess(t) == nTodo - Cardinality(vChecks[t])

CleanUp(t) ==
    /\ pc[t] = "finished"
    /\ Loop(t, nTotal, nIdle, AllOk(t), TodoLess(t), MasterTold(t, TodoLess(t)))

\* threadGroup.interrupt_all() at shutdown: cond.wait throws, nIdle and nTotal stay as they are.
Interrupt(w) ==
    /\ pc[w] \in {"asleep", "woken"}
    /\ pc' = [pc EXCEPT ![w] = "interrupted"]
    /\ UNCHANGED <<queue, nIdle, nTotal, fAllOk, nTodo, vChecks, fOk, left, added, result>>

\* The same when ThreadImport is the master: the destructor of the control calls Wait again.
InterruptMaster ==
    /\ pc[master] \in {"asleep", "woken"} /\ left = 0
    /\ left' = 1
    /\ pc' = [pc EXCEPT ![master] = "unwinding"]
    /\ UNCHANGED <<queue, nIdle, nTotal, fAllOk, nTodo, vChecks, fOk, added, result>>

-----------------------------------------------------------------------------
Next ==
    \/ \E S \in SUBSET Checks : Add(S)
    \/ \E t \in Threads : Enter(t) \/ Wake(t) \/ RunBatch(t) \/ CleanUp(t)
    \/ \E w \in Workers : Interrupt(w)
    \/ InterruptMaster

Spec == Init /\ [][Next]_vars

\* The checks terminate and the mutex is granted to who waits for it; a sleeping thread is only
\* sure to go on once it was notified, and the master to call Wait once it has added checks.
Runs(t) == RunBatch(t) \/ CleanUp(t) \/ (pc[t] = "woken" /\ Wake(t))
LiveSpec == Spec /\ WF_vars(Enter(master)) /\ \A t \in Threads : WF_vars(Runs(t))

-----------------------------------------------------------------------------
TypeOK ==
    /\ queue \subseteq Checks /\ added \subseteq Checks
    /\ nIdle \in Nat /\ nTotal \in Nat /\ nTodo \in Nat /\ left \in {0, 1}
    /\ fAllOk \in BOOLEAN /\ result \in BOOLEAN
    /\ vChecks \in [Threads -> SUBSET Checks] /\ fOk \in [Threads -> BOOLEAN]
    /\ pc \in [Threads -> Places]

InFlight == UNION {vChecks[t] : t \in Threads}

\* "This includes elements that are no longer queued, but still in the worker's own batches":
\* nTodo counts exactly the checks that are queued or in a batch, each of them once.
TodoCounts ==
    /\ nTodo = Cardinality(queue \cup InFlight)
    /\ queue \cap InFlight = {}
    /\ \A s, t \in Threads : s # t => vChecks[s] \cap vChecks[t] = {}
    /\ queue \cup InFlight \subseteq added

\* fAllOk and the batches account for every check of the block that was run or passed over, and
\* no thread leaves with a batch when it sleeps or is interrupted.
AllOkExact ==
    /\ fAllOk => (added \ (queue \cup InFlight)) \cap Bad = {}
    /\ ~fAllOk => added \cap Bad # {}
    /\ \A t \in Threads :
          IF pc[t] \in {"working", "finished"}
            THEN /\ vChecks[t] # {}
                 /\ ~fOk[t] => added \cap Bad # {}
                 /\ pc[t] = "finished" /\ fOk[t] => vChecks[t] \cap Bad = {}
            ELSE vChecks[t] = {}

\* "The number of workers (including the master) that are idle", and the number of threads in Loop:
\* both keep the threads that were interrupted in their sleep, but no thread is counted busy or
\* idle twice, so that the divisor of the batch size is never zero and a batch never empty.
IdleCounts ==
    /\ nIdle = Cardinality({t \in Threads : pc[t] \in Resting}) + left
    /\ nTotal = Cardinality({t \in Threads : pc[t] \notin Outside}) + left

\* The counters by which the workers divide the checks and the master waits are all exact.
CountersExact == TodoCounts /\ IdleCounts

\* Wait returns true exactly when every check added for the block holds, and only when none of
\* them is queued or being run: no block passes on the strength of a check that was dropped.
WaitExact ==
    [][added # {} /\ added' = {}
         => /\ result' = (added \cap Bad = {})
            /\ queue' = {} /\ \A t \in Threads : vChecks'[t] = {}]_vars

\* Every Wait returns: the last worker does not leave the master asleep, whatever threads are
\* interrupted and whatever notifications go to threads that are interrupted, and a master thrown
\* out of its sleep still "guarantees the passed queue is finished before continuing".
WaitReturns == added # {} ~> added = {}

==============================================================================
