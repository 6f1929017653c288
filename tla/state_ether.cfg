SPECIFICATION Spec
CONSTANTS
  Alice = Alice  Bank = Bank  Vault = Vault  Miner = Miner  NoEntry = NoEntry  Key = Key
  Accounts = {Alice, Bank, Vault}
  Keys = {}
  Senders = {Alice}
  Fresh = {Vault}
  Coinbase = Bank
  Chain <- ChainCells
  Absent = NoEntry
  Values = {0}
  Amounts = {0, 1}
  GasLimit = 1
  MaxTxs = 2
  MaxOps = 2
  MaxDepth = 2
INVARIANTS Faithful
CHECK_DEADLOCK FALSE
