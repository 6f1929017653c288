------------------------------ MODULE BlockPool ------------------------------
(***************************************************************************)
(* The pool running real tasks: ExecuteBlock for the blocks of a range in  *)
(* Execute, ExecuteBlockTx for a list of "block_tx" entries in             *)
(* ExecuteWithTx.                                                          *)
(***************************************************************************)
EXTENDS TaskPool, BlockTasks

CONSTANT TxList   \* the entries given to ExecuteWithTx, as pairs

ASSUME ListAssumption == TxList \in Seq(Nat \X Nat)

BlockOutcomes == [i \in Tasks |-> ExecuteBlock(FirstBlock + i)]

ListOutcomes == [i \in Tasks |-> ExecuteBlockTx(TxList[i + 1][1], TxList[i + 1][2])]
-----------------------------------------------------------------------------
\* The transactions of a block that a replay without errors counts.
Countable(b) ==
    {tx \in DOMAIN Substates[b] :
        ~Skipped(Substates[b][tx]) /\ "ok" \in Substates[b][tx].verdicts}

(***************************************************************************)
(* The total that a successful Execute prints is the number of recorded    *)
(* transactions of the range that are not skipped and are inner, whatever  *)
(* order goroutines and map iterations took.                               *)
(***************************************************************************)
BlockTotal ==
    mState = "returned" /\ ~retErr =>
        totalNumTx = Cardinality(UNION {{b} \X Countable(b) : b \in FirstBlock..LastBlock})

(***************************************************************************)
(* The set of results in which ExecuteBlock is given is that of its loop:  *)
(* no order of the map, no skipped transaction, no numTx-- for one that is *)
(* not inner and no error in the middle gives another count for any block  *)
(* that was handed out.                                                    *)
(***************************************************************************)
LoopGivesResults ==
    \A i \in Tasks : i < pNext =>
        ExecuteBlockLoop(FirstBlock + i) = ExecuteBlock(FirstBlock + i)

\* The entries that are in the block range and name a recorded transaction.
Recorded(k) ==
    /\ TxList[k][1] \in FirstBlock..LastBlock
    /\ TxList[k][2] \in DOMAIN Substates[TxList[k][1]]

(***************************************************************************)
(* The total that a successful ExecuteWithTx prints is the number of       *)
(* entries of the list that are in the block range and are recorded.       *)
(***************************************************************************)
ListTotal ==
    mState = "returned" /\ ~retErr =>
        totalNumTx = Cardinality({k \in DOMAIN TxList : Recorded(k)})
=============================================================================
