SPECIFICATION Spec
CONSTANTS
  Alice = Alice  Bank = Bank  Other = Other  Vault = Vault  NoEntry = NoEntry  Key = Key
  Accounts = {Alice, Bank, Other, Vault}
  Keys = {Key}
  Senders = {Alice}
  Fresh = {Vault}
  Targets = {Bank, Vault}
  Genesis <- GenesisCells
  Absent = NoEntry
  Values = {2}
  Amounts = {0, 1}
  MaxOps = 4
  MaxDepth = 3
INVARIANTS TypeOK PreIsEntry DiffExact StatedAligned LocationFresh PanicOnlyUnseen
CHECK_DEADLOCK FALSE
