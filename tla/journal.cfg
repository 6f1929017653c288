CONSTANTS
    contract = contract
    other = other
    Addrs = {contract, other}
    Slots = {k1, k2}
    Values = {0, 1}
    Zero = 0
    Ripemd = other
    Nil = Nil
    Allocs <- MCAllocs
    Mixes <- MCMixes
    MaxOps = 3
    MaxSnapshots = 2
    MaxTxs = 2
SPECIFICATION Spec
INVARIANTS TypeOK DirtiesExact AccessTableSound ReadsAsWorld SnapshotsKept
SYMMETRY SlotSymmetry
CHECK_DEADLOCK FALSE
