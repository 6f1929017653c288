----------------------------- MODULE BlockTasks -----------------------------
(***************************************************************************)
(* What one task of the pool does: ExecuteBlock replays the substates of a *)
(* block, ExecuteBlockTx those of one "block_tx" entry.  Both are given as *)
(* the set of results they may return: Go iterates over the map of         *)
(* substates in any order, and TaskFunc decides about each substate.       *)
(***************************************************************************)
EXTENDS Integers, FiniteSets

CONSTANTS
    Substates,        \* Substates[block]: transaction index -> substate
    FirstBlock, LastBlock,      \* pool.First, pool.Last
    SkipTransferTxs, SkipCallTxs, SkipCreateTxs

\* msg.To: none, an account without code in the input alloc, or with code.
\* verdicts: what TaskFunc may return for the substate.
Substate == [to : {"none", "account", "contract"},
             verdicts : SUBSET {"ok", "not inner", "error"}]

\* The recorded transactions of a block are numbered from 0, as a recorder that
\* puts every transaction leaves them (in a block with a gap ExecuteBlockTx would
\* pass over its last entries and hand a missing substate to TaskFunc, which is
\* outside of this model), and whether one is inner does not depend on the worker
\* that replays it.
ASSUME BlockAssumption ==
    /\ FirstBlock \in Nat /\ LastBlock \in Nat
    /\ FirstBlock..LastBlock \subseteq DOMAIN Substates
    /\ \A b \in DOMAIN Substates : LET subs == Substates[b] IN
          /\ IsFiniteSet(DOMAIN subs)
          /\ DOMAIN subs = 0..(Cardinality(DOMAIN subs) - 1)
          /\ \A tx \in DOMAIN subs :
                /\ subs[tx] \in Substate /\ subs[tx].verdicts # {}
                /\ ~({"ok", "not inner"} \subseteq subs[tx].verdicts)

Skipped(s) ==
    \/ SkipTransferTxs /\ s.to = "account"
    \/ SkipCallTxs /\ s.to = "contract"
    \/ SkipCreateTxs /\ s.to = "none"

\* The ways TaskFunc may decide about the substates of a block.
Decisions(subs) ==
    {d \in [DOMAIN subs -> {"ok", "not inner", "error"}] :
        \A tx \in DOMAIN subs : d[tx] \in subs[tx].verdicts}

\* Mutant: "not inner" does not take the transaction back out of the count.
ExecuteBlockCountAll(block) ==
    LET subs == Substates[block]
        Met(d, v) == {tx \in DOMAIN subs : ~Skipped(subs[tx]) /\ d[tx] = v}
        Inner(d) == Cardinality(Met(d, "ok") \cup Met(d, "not inner"))
    IN  UNION {IF Met(d, "error") = {}
                 THEN {[numTx |-> Inner(d), ok |-> TRUE]}
                 ELSE {[numTx |-> n, ok |-> FALSE] : n \in 0..Inner(d)} :
               d \in Decisions(subs)}

\* "not inner" takes the transaction out of the count; any other error ends the
\* block with the transactions counted so far, which may be any of the others,
\* since the map is visited in no particular order.
ExecuteBlock(block) ==
    LET subs == Substates[block]
        Met(d, v) == {tx \in DOMAIN subs : ~Skipped(subs[tx]) /\ d[tx] = v}
        Inner(d) == Cardinality(Met(d, "ok"))
    IN  UNION {IF Met(d, "error") = {}
                 THEN {[numTx |-> Inner(d), ok |-> TRUE]}
                 ELSE {[numTx |-> n, ok |-> FALSE] : n \in 0..Inner(d)} :
               d \in Decisions(subs)}

\* Mutant: the count is not taken back before it is increased.
ExecuteBlockLoopUp(block) ==
    LET subs == Substates[block]
        after[left \in SUBSET DOMAIN subs, numTx \in 0..Cardinality(DOMAIN subs)] ==
            IF left = {} THEN {[numTx |-> numTx, ok |-> TRUE]}
            ELSE UNION {IF Skipped(subs[tx]) THEN after[left \ {tx}, numTx]
                        ELSE UNION {IF v = "error" THEN {[numTx |-> numTx, ok |-> FALSE]}
                                    ELSE after[left \ {tx}, numTx + 1] :
                                    v \in subs[tx].verdicts} :
                        tx \in left}
    IN  after[DOMAIN subs, 0]

\* The loop as it is written, over the rest of the map in any order: "not inner" takes one
\* from numTx before one is added.
ExecuteBlockLoop(block) ==
    LET subs == Substates[block]
        after[left \in SUBSET DOMAIN subs, numTx \in 0..Cardinality(DOMAIN subs)] ==
            IF left = {} THEN {[numTx |-> numTx, ok |-> TRUE]}
            ELSE UNION {IF Skipped(subs[tx]) THEN after[left \ {tx}, numTx]
                        ELSE UNION {CASE v = "ok" -> after[left \ {tx}, numTx + 1]
                                      [] v = "not inner" -> after[left \ {tx}, numTx - 1 + 1]
                                      [] v = "error" -> {[numTx |-> numTx, ok |-> FALSE]} :
                                    v \in subs[tx].verdicts} :
                        tx \in left}
    IN  after[DOMAIN subs, 0]

\* Mutant: only the lower end of the block range is tested.
ExecuteBlockTxNoLast(block, tx) ==
    LET subs == Substates[block]
    IN  IF block >= FirstBlock /\ tx < Cardinality(DOMAIN subs)
        THEN {[numTx |-> 1, ok |-> v = "ok"] : v \in subs[tx].verdicts}
        ELSE {[numTx |-> 0, ok |-> TRUE]}

\* One transaction counts 1 whatever TaskFunc returns and every error is
\* returned, "not inner" too; an entry outside the block range, or not below
\* the number of substates of its block, is passed over.
ExecuteBlockTx(block, tx) ==
    LET subs == Substates[block]
    IN  IF block <= LastBlock /\ block >= FirstBlock /\ tx < Cardinality(DOMAIN subs)
        THEN {[numTx |-> 1, ok |-> v = "ok"] : v \in subs[tx].verdicts}
        ELSE {[numTx |-> 0, ok |-> TRUE]}
=============================================================================
