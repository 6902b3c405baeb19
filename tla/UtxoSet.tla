------------------------------ MODULE UtxoSet ------------------------------
(***************************************************************************)
(* What the layers of coins views promise: three maps from outpoints to    *)
(* coins, each with the block it stands for.  disk is the chainstate       *)
(* database, tip is what pcoinsTip shows, view is what a temporary view on *)
(* top of it shows, which is committed as a whole or forgotten.  There are *)
(* no caches and no flags.                                                 *)
(***************************************************************************)
CONSTANTS Outpoints, Coins, Spent, Blocks, Null

VARIABLES disk, tip, view, diskBest, tipBest, viewBest, open

vars == <<disk, tip, view, diskBest, tipBest, viewBest, open>>

Init ==
    /\ disk \in [Outpoints -> Coins \cup {Spent}] /\ tip = disk /\ view = disk
    /\ diskBest \in Blocks \cup {Null} /\ tipBest = diskBest /\ viewBest = diskBest
    /\ open = FALSE

Open ==
    /\ ~open /\ open' = TRUE
    /\ UNCHANGED <<disk, tip, view, diskBest, tipBest, viewBest>>

Put(o, c) ==
    /\ open
    /\ view' = [view EXCEPT ![o] = c]
    /\ UNCHANGED <<disk, tip, diskBest, tipBest, viewBest, open>>

MoveTo(b) ==
    /\ open /\ viewBest' = b
    /\ UNCHANGED <<disk, tip, view, diskBest, tipBest, open>>

Commit ==
    /\ open /\ open' = FALSE
    /\ tip' = view /\ tipBest' = viewBest
    /\ UNCHANGED <<disk, view, diskBest, viewBest>>

Forget ==
    /\ open /\ open' = FALSE
    /\ view' = tip /\ viewBest' = tipBest
    /\ UNCHANGED <<disk, tip, diskBest, tipBest>>

Sync ==
    /\ ~open
    /\ disk' = tip /\ diskBest' = tipBest
    /\ UNCHANGED <<tip, view, tipBest, viewBest, open>>

Next ==
    \/ Open \/ Commit \/ Forget \/ Sync
    \/ \E o \in Outpoints, c \in Coins \cup {Spent} : Put(o, c)
    \/ \E b \in Blocks : MoveTo(b)

Spec == Init /\ [][Next]_vars

==============================================================================
