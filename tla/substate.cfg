CONSTANTS
    Blocks <- MCBlocks
    Txs <- MCTxs
    Addrs <- MCAddrs
    Codes = {none, c1, c2}
    EmptyCode = none
    c1 = c1
    c2 = c2
    Substates <- MCSubstates
    OldRecords <- MCOldRecords
    Absent = Absent
    Writers = {w1}
    Readers = {r1}
    MaxUnflushed = 2
SPECIFICATION Spec
INVARIANTS TypeOK RecordsReadBack ReadersNeverPanic
PROPERTY ImplementsStore
