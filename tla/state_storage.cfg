SPECIFICATION Spec
CONSTANTS
  Alice = Alice  Bank = Bank  Vault = Vault  Miner = Miner  NoEntry = NoEntry  Key = Key
  Accounts = {Alice, Bank, Miner}
  Keys = {Key}
  Senders = {Alice}
  Fresh = {}
  Coinbase = Miner
  Chain <- ChainCells
  Absent = NoEntry
  Values = {0, 2}
  Amounts = {0}
  GasLimit = 1
  MaxTxs = 2
  MaxOps = 3
  MaxDepth = 2
INVARIANTS TypeOK Faithful StorageExact
CHECK_DEADLOCK FALSE
