--------------------------- MODULE MCAccountState ---------------------------
EXTENDS AccountState

CONSTANTS Alice, Bank, Vault, Miner, NoEntry, Key

\* Alice signs, Bank is a contract with a slot, Vault an address for a new one.
ChainCells ==
    [c \in Cells |->
        CASE c = Balance(Alice) -> 9
          [] c = Balance(Bank) -> 1
          [] c = Balance(Vault) -> 1
          [] c = Balance(Miner) -> 3
          [] c = Nonce(Alice) -> 2
          [] c = Nonce(Bank) -> 1
          [] c = Code(Bank) -> 1
          [] c = Storage(Bank, Key) -> 1
          [] OTHER -> 0]
=============================================================================
