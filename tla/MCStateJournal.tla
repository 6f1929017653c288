--------------------------- MODULE MCStateJournal ---------------------------
(***************************************************************************)
(* Two addresses: a contract with stored values, and Ripemd, which is absent *)
(* or there and empty.  Operations on accounts and storage are combined, and *)
(* so are those on access list, refund, logs and transient storage.          *)
(***************************************************************************)
EXTENDS StateJournal, TLC

CONSTANTS contract, other

Contract == [balance |-> 1, nonce |-> 0, code |-> 1, storage |-> [k \in Slots |-> 1]]
EmptyAccount == [balance |-> 0, nonce |-> 0, code |-> 0, storage |-> [k \in Slots |-> 0]]

MCAllocs == {[a \in Addrs |-> IF a = contract THEN Contract ELSE x] : x \in {Nil, EmptyAccount}}

SlotSymmetry == Permutations(Slots)

MCMixes == {{"accounts", "storage"}, {"lists", "others"}}
=============================================================================
