----------------------------- MODULE MCTxTracer -----------------------------
EXTENDS TxTracer

CONSTANTS Alice, Bank, Other, Vault, NoEntry, Key

\* Alice signs, Bank is the target, Other a contract, Vault an address for a new one.
GenesisCells ==
    [c \in Cells |->
        CASE c = Balance(Alice) -> 3
          [] c = Balance(Bank) -> 1
          [] c = Nonce(Alice) -> 2
          [] c \in {Nonce(Bank), Nonce(Other), Code(Bank), Code(Other)} -> 1
          [] c[1] = "storage" /\ c[2] = Bank -> 1
          [] OTHER -> 0]
=============================================================================
