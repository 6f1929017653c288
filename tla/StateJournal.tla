---------------------------- MODULE StateJournal ----------------------------
(***************************************************************************)
(* The StateDB on which every replay runs: state objects with three layers  *)
(* of storage, a journal of undo entries with a count of changes per        *)
(* account, revisions, the markers of destroyed accounts, refund, logs,     *)
(* transient storage and the access list with its table of slots.           *)
(*                                                                         *)
(* It begins in one of the two ways of this repository: opened over a root  *)
(* (state.New, a node), or filled with an alloc, committed and used on      *)
(* (MakeOffTheChainStateDB).  In the latter the tries refuse to be read     *)
(* after the commit and a miss reads as zero, like an empty disk; the error *)
(* is kept in dbErr, which nobody asks for before the next commit.          *)
(*                                                                         *)
(* Balances are small numbers, a code is a number and 0 is no code, logs    *)
(* are counted.  The caches for the snapshot tree (accounts, storages and   *)
(* their origins) serve the next commit alone and are left out.             *)
(***************************************************************************)
EXTENDS Integers, Sequences, FiniteSets

CONSTANTS Addrs, Slots, Values, Zero,
          Ripemd,        \* the precompile whose touch survives a revert
          Allocs,        \* the states in which a replay may begin
          Nil,
          Mixes,         \* bound: the kinds of operations that a behaviour combines
          MaxOps,        \* bound: operations
          MaxSnapshots,  \* bound: snapshots taken
          MaxTxs         \* bound: transactions

\* What the disk holds of an account, and a state object with its three layers of storage.
Account == [balance : Nat, nonce : Nat, code : {0, 1}, storage : [Slots -> Values]]

Object == [balance : Nat, nonce : Nat, code : {0, 1}, dirty : [Slots -> Values \cup {Nil}],
           pending : [Slots -> Values \cup {Nil}], origin : [Slots -> Values \cup {Nil}],
           selfDestructed : BOOLEAN, deleted : BOOLEAN, created : BOOLEAN]

ASSUME JournalAssumption ==
    /\ Zero \in Values /\ Nil \notin Values \cup Nat \cup Object \cup [account : Addrs, key : Slots]
    /\ \A alloc \in Allocs : alloc \in [Addrs -> Account \cup {Nil}]
    /\ MaxOps \in Nat /\ MaxSnapshots \in Nat /\ MaxTxs \in Nat

VARIABLES sdb,            \* disk, objects, destruct, refund, logs, transient, access, entries, dirties
          validRevisions, \* positions in the journal, with increasing ids
          nextRevisionId,
          txs,            \* transactions finalised
          ops, mix,       \* operations done, and the kinds that occur
          world, saved    \* the same operations on plain values (WorldState)

vars == <<sdb, validRevisions, nextRevisionId, txs, ops, mix, world, saved>>

World == INSTANCE WorldState

(***************************************************************************)
(* State objects.                                                           *)
(***************************************************************************)
NoCache == [k \in Slots |-> Nil]

newObject(acct) ==
    [balance |-> IF acct = Nil THEN 0 ELSE acct.balance,
     nonce   |-> IF acct = Nil THEN 0 ELSE acct.nonce,
     code    |-> IF acct = Nil THEN 0 ELSE acct.code,
     dirty |-> NoCache, pending |-> NoCache, origin |-> NoCache,
     selfDestructed |-> FALSE, deleted |-> FALSE, created |-> acct = Nil]

empty(obj) == obj.nonce = 0 /\ obj.balance = 0 /\ obj.code = 0

\* Commit leaves the slots of the alloc in the cache of original values.
committedObject(acct) == [newObject(acct) EXCEPT !.origin = acct.storage]

\* getDeletedStateObject: the live object, or one made of what is on disk.
load(s, a) == IF s.objects[a] = Nil /\ s.disk[a] # Nil
              THEN [s EXCEPT !.objects[a] = newObject(s.disk[a])]
              ELSE s

exist(s, a) == s.objects[a] # Nil /\ ~s.objects[a].deleted

CommittedState(s, a, k) ==
    LET obj == s.objects[a]
    IN  CASE obj.pending[k] # Nil -> obj.pending[k]
          [] obj.pending[k] = Nil /\ obj.origin[k] # Nil -> obj.origin[k]
          [] OTHER -> IF a \in s.destruct \/ s.disk[a] = Nil THEN Zero ELSE s.disk[a].storage[k]

State(s, a, k) ==
    IF s.objects[a].dirty[k] # Nil THEN s.objects[a].dirty[k] ELSE CommittedState(s, a, k)

\* GetState remembers what it took from the disk.
cache(s, a, k) ==
    LET obj == s.objects[a]
    IN  IF obj.dirty[k] = Nil /\ obj.pending[k] = Nil /\ obj.origin[k] = Nil
              /\ a \notin s.destruct
        THEN [s EXCEPT !.objects[a].origin[k] = CommittedState(s, a, k)]
        ELSE s

(***************************************************************************)
(* The journal.  Each entry has what its revert needs; those of accounts    *)
(* count as changes of the account.                                         *)
(***************************************************************************)
AccountChanges == {"create", "reset", "selfDestruct", "balance", "nonce", "storage", "code", "touch"}

journal(s, e) ==
    LET t == [s EXCEPT !.entries = Append(@, e)]
    IN  IF e.change \in AccountChanges THEN [t EXCEPT !.dirties[e.account] = @ + 1] ELSE t

\* Mutant: the account that is replaced is not marked as destroyed.
createObjectUnmarked(s, a) ==
    LET t == IF s.objects[a] = Nil THEN journal(s, [change |-> "create", account |-> a])
             ELSE journal(s, [change |-> "reset", account |-> a, prev |-> s.objects[a],
                              prevdestruct |-> a \in s.destruct])
    IN  [t EXCEPT !.objects[a] = newObject(Nil)]

\* createObject: the caller has loaded the account.
createObject(s, a) ==
    LET t == IF s.objects[a] = Nil THEN journal(s, [change |-> "create", account |-> a])
             ELSE [journal(s, [change |-> "reset", account |-> a, prev |-> s.objects[a],
                               prevdestruct |-> a \in s.destruct])
                      EXCEPT !.destruct = @ \cup {a}]
    IN  [t EXCEPT !.objects[a] = newObject(Nil)]

GetOrNewStateObject(s, a) ==
    LET t == load(s, a) IN IF exist(t, a) THEN t ELSE createObject(t, a)

setField(s, a, f, v) ==
    [journal(s, [change |-> f, account |-> a, prev |-> s.objects[a][f]])
        EXCEPT !.objects[a][f] = v]

\* touch; the count of Ripemd is raised once more, which no revert takes back.
touch(s, a) ==
    LET t == journal(s, [change |-> "touch", account |-> a])
    IN  IF a = Ripemd THEN [t EXCEPT !.dirties[a] = @ + 1] ELSE t

(***************************************************************************)
(* Access list.  addresses gives the position of the slots of an address in *)
(* the table, or NoSlots (-1 in the code), or Nil when it is not listed.   *)
(***************************************************************************)
NoSlots == 0

newAccessList == [addresses |-> [a \in Addrs |-> Nil], slots |-> <<>>]

listAddress(al, a) == IF al.addresses[a] = Nil THEN [al EXCEPT !.addresses[a] = NoSlots] ELSE al

listSlot(al, a, k) ==
    IF al.addresses[a] \in {Nil, NoSlots}
    THEN [addresses |-> [al.addresses EXCEPT ![a] = Len(al.slots) + 1],
          slots |-> Append(al.slots, {k})]
    ELSE [al EXCEPT !.slots[al.addresses[a]] = @ \cup {k}]

ContainsSlot(al, a, k) ==
    al.addresses[a] \notin {Nil, NoSlots} /\ k \in al.slots[al.addresses[a]]

\* Mutant: the address loses its position, but the table keeps the empty set.
unlistSlotUncut(al, a, k) ==
    LET idx  == al.addresses[a]
        left == al.slots[idx] \ {k}
    IN  IF left = {} THEN [addresses |-> [al.addresses EXCEPT ![a] = NoSlots],
                           slots |-> [al.slots EXCEPT ![idx] = left]]
        ELSE [al EXCEPT !.slots[idx] = left]

\* DeleteSlot cuts the table at the position of the address when it was its last slot.
unlistSlot(al, a, k) ==
    LET idx  == al.addresses[a]
        left == al.slots[idx] \ {k}
    IN  IF left = {} THEN [addresses |-> [al.addresses EXCEPT ![a] = NoSlots],
                           slots |-> SubSeq(al.slots, 1, idx - 1)]
        ELSE [al EXCEPT !.slots[idx] = left]

(***************************************************************************)
(* Reverting.                                                               *)
(***************************************************************************)
\* Mutant: an account that was replaced stays marked after its return.
undoKeepMark(s, e) == [s EXCEPT !.objects[e.account] = e.prev]

undoReset(s, e) ==
    [s EXCEPT !.objects[e.account] = e.prev,
              !.destruct = IF e.prevdestruct THEN @ ELSE @ \ {e.account}]

undo(s, e) ==
    CASE e.change = "create" -> [s EXCEPT !.objects[e.account] = Nil]
      [] e.change = "reset" -> undoReset(s, e)
      [] e.change = "selfDestruct" ->
            [s EXCEPT !.objects[e.account].selfDestructed = e.prev,
                      !.objects[e.account].balance = e.prevbalance]
      [] e.change \in {"balance", "nonce", "code"} ->
            [s EXCEPT !.objects[e.account][e.change] = e.prev]
      [] e.change = "storage" -> [s EXCEPT !.objects[e.account].dirty[e.key] = e.prev]
      [] e.change = "touch" -> s
      [] e.change = "refund" -> [s EXCEPT !.refund = e.prev]
      [] e.change = "log" -> [s EXCEPT !.logs = @ - 1]
      [] e.change = "transient" -> [s EXCEPT !.transient[e.account][e.key] = e.prev]
      [] e.change = "listAddress" -> [s EXCEPT !.access.addresses[e.account] = Nil]
      [] e.change = "listSlot" -> [s EXCEPT !.access = unlistSlot(@, e.account, e.key)]

\* Mutant: the count of changes is left alone.
undoLastCounted(s) ==
    [undo(s, s.entries[Len(s.entries)]) EXCEPT !.entries = SubSeq(@, 1, Len(@) - 1)]

undoLast(s) ==
    LET e == s.entries[Len(s.entries)]
        t == [undo(s, e) EXCEPT !.entries = SubSeq(@, 1, Len(@) - 1)]
    IN  IF e.change \in AccountChanges THEN [t EXCEPT !.dirties[e.account] = @ - 1] ELSE t

\* journal.revert: undo, from the last entry, until n are left.
revert(s, n) ==
    LET undone[i \in n..Len(s.entries)] ==
            IF i = Len(s.entries) THEN s ELSE undoLast(undone[i + 1])
    IN  undone[n]

(***************************************************************************)
(* Beginning.                                                               *)
(***************************************************************************)
StateDB(disk, objects) ==
    [disk |-> disk, objects |-> objects, destruct |-> {}, refund |-> 0, logs |-> 0,
     transient |-> [a \in Addrs |-> [k \in Slots |-> Zero]], access |-> newAccessList,
     entries |-> <<>>, dirties |-> [a \in Addrs |-> 0]]

Open(alloc) == sdb = StateDB(alloc, [a \in Addrs |-> Nil])

\* The objects of the alloc, finalised and committed: no longer created in this transaction.
MakeOffTheChainStateDB(alloc) ==
    sdb = StateDB([a \in Addrs |-> Nil],
                  [a \in Addrs |-> IF alloc[a] = Nil THEN Nil ELSE committedObject(alloc[a])])

Init ==
    /\ \E alloc \in Allocs :
          /\ Open(alloc) \/ MakeOffTheChainStateDB(alloc)
          /\ World!Begin(alloc)
    /\ validRevisions = <<>>
    /\ nextRevisionId = 0
    /\ txs = 0
    /\ ops = 0
    /\ mix \in Mixes

(***************************************************************************)
(* Operations.                                                              *)
(***************************************************************************)
Become(s) ==
    /\ ops < MaxOps /\ txs < MaxTxs
    /\ ops' = IF s = sdb THEN ops ELSE ops + 1
    /\ sdb' = s
    /\ UNCHANGED <<validRevisions, nextRevisionId, txs, mix>>

GetState(a, k) ==
    LET s == load(sdb, a) IN Become(IF exist(s, a) THEN cache(s, a, k) ELSE s)

AddBalance(a, n) ==
    LET s == GetOrNewStateObject(sdb, a)
    IN  Become(IF n > 0 THEN setField(s, a, "balance", s.objects[a].balance + n)
               ELSE IF empty(s.objects[a]) THEN touch(s, a) ELSE s)

\* Callers have looked at the balance (CanTransfer, buyGas).
SubBalance(a, n) ==
    LET s == GetOrNewStateObject(sdb, a)
    IN  /\ n <= s.objects[a].balance
        /\ Become(IF n > 0 THEN setField(s, a, "balance", s.objects[a].balance - n) ELSE s)

SetNonce(a) ==
    LET s == GetOrNewStateObject(sdb, a)
    IN  Become(setField(s, a, "nonce", s.objects[a].nonce + 1))

SetCode(a, c) == Become(setField(GetOrNewStateObject(sdb, a), a, "code", c))

SetState(a, k, v) ==
    LET s    == cache(GetOrNewStateObject(sdb, a), a, k)
        prev == State(s, a, k)
    IN  Become(IF prev = v THEN s
               ELSE [journal(s, [change |-> "storage", account |-> a, key |-> k, prev |-> prev])
                        EXCEPT !.objects[a].dirty[k] = v])

\* The balance is carried over from an account that is there, not from a deleted one.
CreateAccount(a) ==
    LET s == load(sdb, a)
        t == createObject(s, a)
    IN  Become(IF exist(s, a) THEN [t EXCEPT !.objects[a].balance = s.objects[a].balance] ELSE t)

selfDestruct(s, a) ==
    [journal(s, [change |-> "selfDestruct", account |-> a, prev |-> s.objects[a].selfDestructed,
                 prevbalance |-> s.objects[a].balance])
        EXCEPT !.objects[a].selfDestructed = TRUE, !.objects[a].balance = 0]

SelfDestruct(a) ==
    LET s == load(sdb, a) IN Become(IF exist(s, a) THEN selfDestruct(s, a) ELSE s)

Selfdestruct6780(a) ==
    LET s == load(sdb, a)
    IN  Become(IF exist(s, a) /\ s.objects[a].created THEN selfDestruct(s, a) ELSE s)

changeRefund(n) ==
    Become([journal(sdb, [change |-> "refund", prev |-> sdb.refund]) EXCEPT !.refund = n])

AddRefund == changeRefund(sdb.refund + 1)

\* It panics below zero, which the gas rules exclude.
SubRefund == sdb.refund > 0 /\ changeRefund(sdb.refund - 1)

AddLog == Become([journal(sdb, [change |-> "log"]) EXCEPT !.logs = @ + 1])

SetTransientState(a, k, v) ==
    LET prev == sdb.transient[a][k]
    IN  Become(IF prev = v THEN sdb
               ELSE [journal(sdb, [change |-> "transient", account |-> a, key |-> k,
                                   prev |-> prev]) EXCEPT !.transient[a][k] = v])

\* A transaction begins: sender and the slots of its access list, without the journal.
\* The two guards are not in the code; they are the use that is modelled, Prepare after a
\* Finalise or before anything is listed.  getBalance (hunter/cmd/utils.go:186) prepares one
\* StateDB again and again without a Finalise, with revisions and list entries of the messages
\* before still there.  A revert across a Prepare would undo entries of a list that is gone
\* (DeleteSlot may panic).  None occurs: a revision is only reverted to by the call that took it
\* (evm.go:251 and the like), which has returned by then, and statedb.go:893 forbids it.
Prepare(sender, list) ==
    /\ validRevisions = <<>>
    /\ \A i \in DOMAIN sdb.entries : sdb.entries[i].change \notin {"listAddress", "listSlot", "transient"}
    /\ LET al == listAddress(newAccessList, sender)
       IN  Become([sdb EXCEPT
              !.access = IF list = Nil THEN al
                         ELSE listSlot(listAddress(al, list.account), list.account, list.key),
              !.transient = [a \in Addrs |-> [k \in Slots |-> Zero]]])

AddAddressToAccessList(a) ==
    /\ sdb.access.addresses[a] = Nil
    /\ Become([journal(sdb, [change |-> "listAddress", account |-> a])
                  EXCEPT !.access = listAddress(@, a)])

\* Mutant: one entry where the address was new too.
AddSlotOneEntry(a, k) ==
    /\ ~ContainsSlot(sdb.access, a, k)
    /\ Become([journal(sdb, [change |-> "listSlot", account |-> a, key |-> k])
                  EXCEPT !.access = listSlot(@, a, k)])

AddSlotToAccessList(a, k) ==
    /\ ~ContainsSlot(sdb.access, a, k)
    /\ LET s == IF sdb.access.addresses[a] = Nil
                THEN journal(sdb, [change |-> "listAddress", account |-> a]) ELSE sdb
       IN  Become([journal(s, [change |-> "listSlot", account |-> a, key |-> k])
                      EXCEPT !.access = listSlot(@, a, k)])

\* Mutant: the id is not used up.
SnapshotSameId ==
    /\ nextRevisionId < MaxSnapshots
    /\ txs < MaxTxs
    /\ validRevisions' = Append(validRevisions,
                                [id |-> nextRevisionId, journalIndex |-> Len(sdb.entries)])
    /\ UNCHANGED <<sdb, nextRevisionId, txs, ops, mix>>

Snapshot ==
    /\ nextRevisionId < MaxSnapshots
    /\ txs < MaxTxs
    /\ validRevisions' = Append(validRevisions,
                                [id |-> nextRevisionId, journalIndex |-> Len(sdb.entries)])
    /\ nextRevisionId' = nextRevisionId + 1
    /\ UNCHANGED <<sdb, txs, ops, mix>>

\* revid is one that is still valid: the EVM holds it in the frame of a call.
RevertToSnapshot(revid) ==
    \E idx \in DOMAIN validRevisions :
        /\ validRevisions[idx].id = revid
        /\ sdb' = revert(sdb, validRevisions[idx].journalIndex)
        /\ validRevisions' = SubSeq(validRevisions, 1, idx - 1)
        /\ UNCHANGED <<nextRevisionId, txs, ops, mix>>

finaliseObject(obj, deleteEmptyObjects) ==
    IF obj.selfDestructed \/ (deleteEmptyObjects /\ empty(obj))
    THEN [obj EXCEPT !.deleted = TRUE, !.created = FALSE]
    ELSE [obj EXCEPT !.pending = [k \in Slots |-> IF obj.dirty[k] # Nil THEN obj.dirty[k]
                                                  ELSE obj.pending[k]],
                     !.dirty = NoCache, !.created = FALSE]

Finalise(deleteEmptyObjects) ==
    LET changed == {a \in Addrs : sdb.dirties[a] > 0 /\ sdb.objects[a] # Nil}
        objects == [a \in Addrs |-> IF a \in changed
                                    THEN finaliseObject(sdb.objects[a], deleteEmptyObjects)
                                    ELSE sdb.objects[a]]
        s       == [sdb EXCEPT !.objects = objects,
                               !.destruct = @ \cup {a \in changed : objects[a].deleted}]
    IN  /\ txs < MaxTxs
        /\ sdb' = IF sdb.entries = <<>> THEN s
                  ELSE [s EXCEPT !.entries = <<>>, !.dirties = [a \in Addrs |-> 0], !.refund = 0]
        /\ validRevisions' = <<>>
        /\ txs' = txs + 1
        /\ UNCHANGED <<nextRevisionId, ops, mix>>

\* Each operation takes its step on the plain values too.
OnAccounts(a) ==
    /\ "accounts" \in mix
    /\ \/ \E n \in {0, 1} :
             \/ AddBalance(a, n) /\ World!AddBalance(a, n)
             \/ SubBalance(a, n) /\ World!SubBalance(a, n)
       \/ SetNonce(a) /\ World!SetNonce(a)
       \/ SetCode(a, 1) /\ World!SetCode(a, 1)
       \/ CreateAccount(a) /\ World!CreateAccount(a)
       \/ SelfDestruct(a) /\ World!SelfDestruct(a)
       \/ Selfdestruct6780(a) /\ World!Selfdestruct6780(a)

OnStorage(a, k) ==
    /\ "storage" \in mix
    /\ \/ GetState(a, k) /\ World!Set(world)
       \/ \E v \in Values : SetState(a, k, v) /\ World!SetState(a, k, v)

OnLists(a, k) ==
    /\ "lists" \in mix
    /\ \/ AddAddressToAccessList(a) /\ World!Warm({a}, {})
       \/ AddSlotToAccessList(a, k) /\ World!Warm({a}, {<<a, k>>})
       \/ Prepare(a, Nil) /\ World!Prepare({a}, {})
       \/ \E b \in Addrs : /\ Prepare(a, [account |-> b, key |-> k])
                           /\ World!Prepare({a, b}, {<<b, k>>})

OnOthers(a, k) ==
    /\ "others" \in mix
    /\ \/ AddRefund /\ World!AddRefund
       \/ SubRefund /\ World!SubRefund
       \/ AddLog /\ World!AddLog
       \/ \E v \in Values : SetTransientState(a, k, v) /\ World!SetTransientState(a, k, v)

Next ==
    \/ \E a \in Addrs : OnAccounts(a)
    \/ \E a \in Addrs, k \in Slots : OnStorage(a, k) \/ OnLists(a, k) \/ OnOthers(a, k)
    \/ Snapshot /\ World!Snapshot
    \/ \E idx \in DOMAIN validRevisions :
          RevertToSnapshot(validRevisions[idx].id) /\ World!Revert(idx)
    \/ \E d \in BOOLEAN : Finalise(d) /\ World!Finalise(d, {a \in Addrs : sdb'.dirties[a] > 0})

Spec == Init /\ [][Next]_vars

(***************************************************************************)
(* Properties.                                                              *)
(***************************************************************************)
\* Objects, journal and revisions have the shape of the code's, and the positions of the
\* revisions lie in the journal in the order of their ids.
TypeOK ==
    /\ sdb.objects \in [Addrs -> Object \cup {Nil}]
    /\ sdb.destruct \subseteq Addrs
    /\ sdb.refund \in Nat /\ sdb.logs \in Nat
    /\ sdb.transient \in [Addrs -> [Slots -> Values]]
    /\ sdb.access.addresses \in [Addrs -> 0..Len(sdb.access.slots) \cup {Nil}]
    /\ sdb.dirties \in [Addrs -> Nat]
    /\ \A i \in DOMAIN validRevisions :
          /\ validRevisions[i].journalIndex <= Len(sdb.entries)
          /\ i > 1 => /\ validRevisions[i - 1].id < validRevisions[i].id
                      /\ validRevisions[i - 1].journalIndex <= validRevisions[i].journalIndex

\* The count of changes of an account, from which Finalise takes the accounts to finalise, is
\* the number of its entries in the journal; only that of Ripemd may be larger.
DirtiesExact ==
    \A a \in Addrs :
        LET n == Cardinality({i \in DOMAIN sdb.entries :
                     sdb.entries[i].change \in AccountChanges /\ sdb.entries[i].account = a})
        IN  IF a = Ripemd THEN sdb.dirties[a] >= n ELSE sdb.dirties[a] = n

\* The table of slots has no holes: each position belongs to exactly one address and has a
\* slot, although reverts cut the table at the position of the address they take it from.
AccessTableSound ==
    \A i \in DOMAIN sdb.access.slots :
        /\ sdb.access.slots[i] # {}
        /\ Cardinality({a \in Addrs : sdb.access.addresses[a] = i}) = 1

(***************************************************************************)
(* What the getters answer.                                                 *)
(***************************************************************************)
AccountOf(s, a) ==
    LET t   == load(s, a)
        obj == t.objects[a]
        live == exist(t, a)
    IN  [exists |-> live,
         balance |-> IF live THEN obj.balance ELSE 0,
         nonce |-> IF live THEN obj.nonce ELSE 0,
         code |-> IF live THEN obj.code ELSE 0,
         storage |-> [k \in Slots |-> IF live THEN State(t, a, k) ELSE Zero],
         committed |-> [k \in Slots |-> IF live THEN CommittedState(t, a, k) ELSE Zero],
         destroyed |-> live /\ obj.selfDestructed,
         created |-> live /\ obj.created]

WorldOf(s) ==
    [acct |-> [a \in Addrs |-> AccountOf(s, a)],
     touched |-> {a \in Addrs : s.dirties[a] > 0},
     refund |-> s.refund, logs |-> s.logs, transient |-> s.transient,
     warmAddrs |-> {a \in Addrs : s.access.addresses[a] # Nil},
     warmSlots |-> {p \in Addrs \X Slots : ContainsSlot(s.access, p[1], p[2])}]

\* The getters answer what plain values would, after every operation, in both ways of
\* beginning: objects, layers of storage, markers and counts are never seen to disagree.
ReadsAsWorld == WorldOf(sdb) = world

\* A revert to any open snapshot would bring back the state it was taken in: no operation
\* since, no inner revert and no reading changed what it stands for.
SnapshotsKept ==
    \A i \in DOMAIN validRevisions :
        WorldOf(revert(sdb, validRevisions[i].journalIndex)) = saved[i]
=============================================================================
