---------------------------- MODULE MCSubstateDB ----------------------------
(***************************************************************************)
(* A creation whose init code is put for it alone, a call with an access    *)
(* list whose contract shares its code with the created one, and records of *)
(* the two old formats.                                                     *)
(***************************************************************************)
EXTENDS SubstateDB

CONSTANTS c1, c2

MCBlocks == {1}
MCTxs == {0, 1}
MCAddrs == {"a"}

Creation == [inputAlloc |-> [a \in MCAddrs |-> EmptyCode], outputAlloc |-> [a \in MCAddrs |-> c2],
             create |-> TRUE, data |-> c1, access |-> FALSE, feeCap |-> TRUE, baseFee |-> TRUE]

CallWithList == [inputAlloc |-> [a \in MCAddrs |-> c2], outputAlloc |-> [a \in MCAddrs |-> c2],
                 create |-> FALSE, data |-> c1, access |-> TRUE, feeCap |-> FALSE, baseFee |-> TRUE]

MCSubstates == {Creation, CallWithList}

MCOldRecords == {Encode("berlin", [CallWithList EXCEPT !.baseFee = FALSE]),
                 Encode("legacy", [Creation EXCEPT !.feeCap = FALSE, !.baseFee = FALSE])}
=============================================================================
