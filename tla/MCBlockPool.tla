----------------------------- MODULE MCBlockPool -----------------------------
(***************************************************************************)
(* The pool running real tasks: the blocks of Execute, and a list of       *)
(* "block_tx" entries for ExecuteWithTx, over five recorded blocks.        *)
(***************************************************************************)
EXTENDS BlockPool

Sub(to, verdicts) == [to |-> to, verdicts |-> verdicts]

\* Block 0 mixes every kind of transaction, blocks 1, 3 and 4 may fail, block 2
\* has no transactions.
RecordedBlocks ==
    [b \in 0..4 |->
        CASE b = 0 -> [tx \in 0..2 |-> CASE tx = 0 -> Sub("account", {"ok"})
                                         [] tx = 1 -> Sub("contract", {"not inner"})
                                         [] tx = 2 -> Sub("none", {"ok"})]
          [] b = 1 -> [tx \in 0..2 |-> Sub("contract", IF tx = 2 THEN {"not inner", "error"}
                                                                ELSE {"ok", "error"})]
          [] b = 2 -> [tx \in {} |-> Sub("none", {"ok"})]
          [] b = 3 -> [tx \in {0} |-> Sub("contract", {"ok", "error"})]
          [] b = 4 -> [tx \in 0..1 |-> Sub(IF tx = 0 THEN "contract" ELSE "account",
                                           {"ok", "error"})]]

\* Three entries in range, one just past the end of its block, one out of the
\* range.
Entries == <<<<0, 0>>, <<1, 1>>, <<0, 3>>, <<1, 0>>, <<3, 0>>>>
=============================================================================
