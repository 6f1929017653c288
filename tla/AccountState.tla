---------------------------- MODULE AccountState ----------------------------
(***************************************************************************)
(* Replay of the transactions of a block in RPC mode (replay-block and     *)
(* replay-txhash).  The StateDB starts empty.  Hooks in the interpreter    *)
(* fetch a storage slot, balance, nonce or code from a node the first time *)
(* it is accessed, write it into the StateDB and record it in the          *)
(* AccountState of hunter/trace as touched, with its value before the      *)
(* transaction as committed.  A failed call makes the journal of the       *)
(* StateDB undo everything it wrote, fetched values included;              *)
(* RevertAccountState then has to bring those back.                        *)
(*                                                                         *)
(* The history variable world is the state of the chain itself under the   *)
(* same instructions, what the replay ought to reproduce.                  *)
(***************************************************************************)
EXTENDS EvmState, Sequences

CONSTANTS
    Coinbase,
    Chain,        \* the cells at the end of the previous block, at the node
    GasLimit,     \* what buyGas takes from the sender
    MaxTxs, MaxOps, MaxDepth   \* bounds of the instance

ASSUME StateAssumption ==
    /\ Coinbase \in Accounts
    /\ Chain \in [Cells -> Nat]
    /\ \A a \in Senders : Chain[Code(a)] = 0
    /\ \A a \in Fresh : Chain[Code(a)] = 0 /\ Chain[Nonce(a)] = 0
    /\ GasLimit \in Nat \ {0}
    /\ MaxTxs \in Nat /\ MaxOps \in Nat /\ MaxDepth \in Nat \ {0}

VARIABLES
    acct,     \* [db, touched, committed]: StateDB, AccountState, CommitedAccountState
    frames,   \* the call stack, with what each call saved when it was entered
    gone,     \* accounts marked as self-destructed in this transaction
    phase,    \* "idle", "tx", "aborted" (the command returned an error), "panicked"
    txs, ops, \* transactions begun, instructions executed in this one
    world,    \* history: the cells as the chain has them
    start,    \* history: world when the running transaction, if any, entered the EVM
    lost,     \* history: cells the replay may have lost
    undone    \* history: an inner call failed or a contract self-destructed

vars == <<acct, frames, gone, phase, txs, ops, world, start, lost, undone>>

Frame == [kind : CallKinds \cup CreateKinds, from : Accounts, to : Accounts,
          self : Accounts, readOnly : BOOLEAN, runs : BOOLEAN, gone : SUBSET Accounts,
          db : [Cells -> Int], touched : Map, world : [Cells -> Int]]

TypeOK ==
    /\ acct \in [db : [Cells -> Int], touched : Map, committed : Map]
    /\ frames \in Seq(Frame) /\ Len(frames) <= MaxDepth
    /\ gone \in SUBSET Accounts
    /\ phase \in {"idle", "tx", "aborted", "panicked"}
    /\ phase = "tx" <=> frames # <<>>
    /\ txs \in 0..MaxTxs /\ ops \in 0..MaxOps
    /\ world \in [Cells -> Int] /\ start \in [Cells -> Int]
    /\ lost \in SUBSET Cells
    /\ undone \in BOOLEAN

Init ==
    /\ acct = [db |-> [c \in Cells |-> 0],
               touched |-> [c \in Cells |-> Absent],
               committed |-> [c \in Cells |-> Absent]]
    /\ frames = <<>> /\ gone = {} /\ phase = "idle"
    /\ txs = 0 /\ ops = 0
    /\ world = Chain /\ start = Chain
    /\ lost = {} /\ undone = FALSE

-----------------------------------------------------------------------------
(* AccountState and the fetching hooks, as functions of s = acct.          *)

\* Ask the node for the cell, write it into the StateDB and into committed.
Fetch(s, c) == [s EXCEPT !.db[c] = Chain[c], !.committed[c] = Chain[c]]

\* UpdateTouchedBalance and UpdateTouchedNonce with the value in the StateDB.
Touch(s, c) == [s EXCEPT !.touched[c] = s.db[c]]

\* UpdateTouchedCode appends the bytes one by one: no bytes, no entry.
AppendCode(m, c, n) ==
    IF n = 0 THEN m ELSE [m EXCEPT ![c] = (IF @ = Absent THEN 0 ELSE @) + n]

SloadHook(s, c) ==
    IF s.touched[c] = Absent THEN Touch(Fetch(s, c), c) ELSE s

\* Mutant: the value before the store is not kept in the committed state.
SstoreHookUncommitted(s, c) ==
    IF s.touched[c] = Absent THEN [s EXCEPT !.db[c] = Chain[c]] ELSE s

SstoreHook(s, c) ==
    IF s.touched[c] = Absent THEN Fetch(s, c) ELSE s

\* CheckAndSetBalance and CheckAndSetNonce refresh the entry in any case.
CheckAndSet(s, c) ==
    Touch(IF s.touched[c] = Absent THEN Fetch(s, c) ELSE s, c)

\* Mutant: a code that the journal removed is not put back.
CheckAndSetCodeOnce(s, c) ==
    IF s.touched[c] = Absent
      THEN [s EXCEPT !.db[c] = Chain[c],
                     !.touched = AppendCode(@, c, Chain[c]),
                     !.committed = AppendCode(@, c, Chain[c])]
      ELSE s

\* A code that the journal removed from the StateDB is put back.
CheckAndSetCode(s, c) ==
    IF s.touched[c] = Absent
      THEN [s EXCEPT !.db[c] = Chain[c],
                     !.touched = AppendCode(@, c, Chain[c]),
                     !.committed = AppendCode(@, c, Chain[c])]
      ELSE IF s.db[c] = 0 THEN [s EXCEPT !.db[c] = s.touched[c]] ELSE s

SetCodeBalanceNonce(s, a) ==
    CheckAndSet(CheckAndSet(CheckAndSetCode(s, Code(a)), Balance(a)), Nonce(a))

\* Mutant: only the AccountState is restored, not the StateDB.
RevertAccountStateOnly(s, snap) ==
    LET t == [c \in Cells |->
                CASE s.touched[c] = Absent \/ c \in Codes -> s.touched[c]
                  [] OTHER -> IF snap[c] # Absent THEN snap[c]
                              ELSE IF s.committed[c] # Absent THEN s.committed[c] ELSE 0]
    IN  [s EXCEPT !.touched = t]

\* Every touched cell but code goes back to the snapshot, or to the committed
\* value (zero if there is none), in the AccountState and in the StateDB.
RevertAccountState(s, snap) ==
    LET t == [c \in Cells |->
                CASE s.touched[c] = Absent \/ c \in Codes -> s.touched[c]
                  [] OTHER -> IF snap[c] # Absent THEN snap[c]
                              ELSE IF s.committed[c] # Absent THEN s.committed[c] ELSE 0]
    IN  [s EXCEPT !.touched = t,
                  !.db = [c \in Cells |-> IF t[c] = Absent \/ c \in Codes THEN @[c] ELSE t[c]]]

\* GetCommittedBalance copies a big.Int: without an entry it is a nil pointer.
RevertPanics(s, snap) ==
    \E c \in Balances : s.touched[c] # Absent /\ snap[c] = Absent /\ s.committed[c] = Absent

-----------------------------------------------------------------------------
(* How the replay may lose a cell, from s in the stack fr to t in gr.      *)

Constructing(fr) == {fr[i].to : i \in {j \in DOMAIN fr : fr[j].kind \in CreateKinds}}

\* Written in the StateDB without having been touched: a later access will
\* fetch the old value over it.
Unfetched(t, gr) ==
    {c \in Cells : t.touched[c] = Absent /\ t.db[c] # 0 /\ c[2] \notin Constructing(gr)}

\* Such a fetch, within the constructor of the account.
Overwritten(s, t) ==
    {c \in Cells : /\ s.touched[c] = Absent /\ s.db[c] # 0
                   /\ t.touched[c] # Absent /\ t.committed[c] # Absent}

\* Touched without having been fetched.
Unread(t) ==
    {c \in Cells : t.touched[c] # Absent /\ t.committed[c] = Absent /\ Chain[c] # 0}

\* Touched in a call that failed: the journal undid a fetch as well.
Unfetch(t, f) ==
    {c \in Cells \ Codes : f.touched[c] = Absent /\ t.touched[c] # Absent /\ Chain[c] # 0}

\* The account has no code any more, CheckAndSetCode would give it some.
Revived(t) ==
    {c \in Codes : t.db[c] = 0 /\ t.touched[c] \notin {Absent, t.committed[c]}}

\* Erased before it was touched: a later access will fetch it all the same.
Refetched(t, dead) == {c \in Cells : c[2] \in dead /\ t.touched[c] = Absent}

\* The snapshot of the AccountState was not what the StateDB held.
Stale(f) == {c \in Cells \ Codes : f.touched[c] \notin {Absent, f.db[c]}}

Losses(s, t, gr) == Unfetched(t, gr) \cup Overwritten(s, t) \cup Unread(t)

-----------------------------------------------------------------------------
(* The beginning of a transaction: TransitionDbTrace up to the EVM.        *)

Idle == phase = "idle" /\ txs < MaxTxs

\* The transactions of the block are valid on the chain.
Valid(from, v) == world[Balance(from)] >= GasLimit + v

PreChecked(from) == CheckAndSet(CheckAndSet(acct, Balance(from)), Nonce(from))

\* preCheck and buyGas; the nonce of the message is the one on the chain.
Rejected(s, from, v) ==
    \/ s.db[Nonce(from)] # world[Nonce(from)]
    \/ s.db[Code(from)] # 0
    \/ s.db[Balance(from)] < GasLimit + v

BuyGas(m, from) == Add(m, Balance(from), -GasLimit)

\* The command returns "transaction %#x failed": nothing of the block is dumped.
BeginRejected(from, v) ==
    /\ Idle /\ Valid(from, v)
    /\ Rejected(PreChecked(from), from, v)
    /\ acct' = PreChecked(from)
    /\ phase' = "aborted"
    /\ UNCHANGED <<frames, gone, txs, ops, world, start, lost, undone>>

Enter(s, f, w) ==
    /\ phase' = "tx" /\ txs' = txs + 1 /\ ops' = 0
    /\ acct' = s
    /\ frames' = <<f>> /\ gone' = {}
    /\ start' = f.world /\ world' = w
    /\ lost' = lost \cup Losses(acct, s, <<f>>)
    /\ UNCHANGED undone

BeginCall(from, to, v) ==
    LET s1 == PreChecked(from)
        s2 == SetCodeBalanceNonce([s1 EXCEPT !.db = BuyGas(@, from)], to)
        s3 == Touch([s2 EXCEPT !.db = Add(@, Nonce(from), 1)], Nonce(from))
        w  == Add(BuyGas(world, from), Nonce(from), 1)
        f  == [kind |-> "CALL", from |-> from, to |-> to, self |-> to,
               readOnly |-> FALSE, runs |-> s3.db[Code(to)] # 0, gone |-> {},
               db |-> s3.db, touched |-> s3.touched, world |-> w]
    IN  /\ Idle /\ Valid(from, v) /\ ~Rejected(s1, from, v)
        /\ Enter([s3 EXCEPT !.db = Transfer(@, from, to, v)], f, Transfer(w, from, to, v))

\* The AccountState is saved before Create increments the nonce of the sender,
\* the StateDB after.
BeginCreate(from, to, v) ==
    LET s1 == PreChecked(from)
        s2 == [s1 EXCEPT !.db = Add(BuyGas(@, from), Nonce(from), 1)]
        w  == Add(BuyGas(world, from), Nonce(from), 1)
        f  == [kind |-> "CREATE", from |-> from, to |-> to, self |-> to,
               readOnly |-> FALSE, runs |-> TRUE, gone |-> {},
               db |-> s2.db, touched |-> s2.touched, world |-> w]
    IN  /\ Idle /\ Valid(from, v) /\ ~Rejected(s1, from, v)
        /\ ~Taken(s1.db, to)
        /\ Enter([s2 EXCEPT !.db = Transfer(Create(@, to), from, to, v)], f,
                 Transfer(Create(w, to), from, to, v))

-----------------------------------------------------------------------------
(* Instructions, with beforeOpcodeExecutionHook and opcodeExecutionHook.   *)

Top  == frames[Len(frames)]
Rest == SubSeq(frames, 1, Len(frames) - 1)
Running == phase = "tx" /\ Top.runs /\ ops < MaxOps

\* An instruction that stays in the frame.
Step(s, w) ==
    /\ acct' = s /\ world' = w /\ ops' = ops + 1
    /\ lost' = lost \cup Losses(acct, s, frames)
    /\ UNCHANGED <<frames, gone, phase, txs, start, undone>>

Sload(k) ==
    /\ Running
    /\ Step(SloadHook(acct, Storage(Top.self, k)), world)

Sstore(k, v) ==
    LET c == Storage(Top.self, k)
        s == SstoreHook(acct, c)
    IN  /\ Running /\ ~Top.readOnly
        /\ Step([s EXCEPT !.db[c] = v, !.touched[c] = v], Put(world, c, v))

\* BALANCE and EXTCODEHASH, EXTCODESIZE, EXTCODECOPY.
ReadBalance(a) ==
    /\ Running
    /\ Step(CheckAndSet(acct, Balance(a)), world)

ReadCode(a) ==
    /\ Running
    /\ Step(CheckAndSetCode(acct, Code(a)), world)

\* What opcodeExecutionHook records after the instruction of the frame f; an
\* inner failure is not an error of the instruction.
AfterCall(s, f) ==
    LET both(t, C(_)) == Touch(Touch(t, C(f.from)), C(f.to))
        code(t) == [t EXCEPT !.touched = AppendCode(@, Code(f.to), t.db[Code(f.to)])]
    IN  CASE f.kind \in {"CALL", "CALLCODE"} -> both(both(s, Balance), Nonce)
          [] f.kind = "CREATE"  -> code(both(both(s, Balance), Nonce))
          [] f.kind = "CREATE2" -> both(code(s), Nonce)
          [] OTHER -> s

Push(s, f, w) ==
    /\ acct' = s /\ world' = w /\ ops' = ops + 1
    /\ frames' = Append(frames, f)
    /\ lost' = lost \cup Losses(acct, s, Append(frames, f))
    /\ UNCHANGED <<gone, phase, txs, start, undone>>

\* Mutant: the depth of the call stack is not checked.
CallTooDeep(kind, to, v) ==
    LET s == SetCodeBalanceNonce(acct, to)
        f == [kind |-> kind, from |-> Top.self, to |-> to,
              self |-> Self(kind, Top.self, to),
              readOnly |-> Top.readOnly \/ kind = "STATICCALL",
              runs |-> s.db[Code(to)] # 0, gone |-> gone,
              db |-> s.db, touched |-> s.touched, world |-> world]
        send(m) == IF kind = "CALL" THEN Transfer(m, Top.self, to, v) ELSE m
    IN  /\ Running
        /\ kind \in {"DELEGATECALL", "STATICCALL"} => v = 0
        /\ kind = "CALL" /\ Top.readOnly => v = 0
        /\ IF v <= s.db[Balance(Top.self)]
             THEN Push([s EXCEPT !.db = send(@)], f, send(world))
             ELSE Step(AfterCall(s, f), world)

\* A call that is too deep or sends more than there is enters no frame.
Call(kind, to, v) ==
    LET s == SetCodeBalanceNonce(acct, to)
        f == [kind |-> kind, from |-> Top.self, to |-> to,
              self |-> Self(kind, Top.self, to),
              readOnly |-> Top.readOnly \/ kind = "STATICCALL",
              runs |-> s.db[Code(to)] # 0, gone |-> gone,
              db |-> s.db, touched |-> s.touched, world |-> world]
        send(m) == IF kind = "CALL" THEN Transfer(m, Top.self, to, v) ELSE m
    IN  /\ Running
        /\ kind \in {"DELEGATECALL", "STATICCALL"} => v = 0
        /\ kind = "CALL" /\ Top.readOnly => v = 0
        /\ IF Len(frames) < MaxDepth /\ v <= s.db[Balance(Top.self)]
             THEN Push([s EXCEPT !.db = send(@)], f, send(world))
             ELSE Step(AfterCall(s, f), world)

\* CREATE and CREATE2: no fetch of the new account, and the nonce of the
\* creator is incremented even if the address is taken.
CreateContract(kind, to, v) ==
    LET me == Top.self
        inc(m) == Add(m, Nonce(me), 1)
        f == [kind |-> kind, from |-> me, to |-> to, self |-> to,
              readOnly |-> FALSE, runs |-> TRUE, gone |-> gone,
              db |-> inc(acct.db), touched |-> acct.touched, world |-> inc(world)]
        s == [acct EXCEPT !.db = f.db]
        made(m) == Transfer(Create(m, to), me, to, v)
    IN  /\ Running /\ ~Top.readOnly
        /\ IF Len(frames) = MaxDepth \/ v > acct.db[Balance(me)]
             THEN Step(AfterCall(acct, f), world)
             ELSE IF Taken(s.db, to)
             THEN Step(AfterCall(s, f), f.world)
             ELSE Push([s EXCEPT !.db = made(@)], f, made(f.world))

\* Before Cancun: the account is erased at the end of the transaction.  The
\* beneficiary is touched without being fetched.
Selfdestruct(to) ==
    LET me == Top.self
        s == [acct EXCEPT !.db = Destruct(@, me, to),
                          !.touched = AppendCode(@, Code(me), acct.db[Code(me)])]
        t == Touch(Touch(s, Balance(me)), Balance(to))
    IN  /\ Running /\ ~Top.readOnly
        /\ acct' = t /\ world' = Destruct(world, me, to) /\ ops' = ops + 1
        /\ frames' = [frames EXCEPT ![Len(frames)].runs = FALSE]
        /\ gone' = gone \cup {me} /\ undone' = TRUE
        /\ LET now == lost \cup Losses(acct, t, frames)
           IN  lost' = now \cup (IF Balance(me) \in now THEN {Balance(to)} ELSE {})
        /\ UNCHANGED <<phase, txs, start>>

-----------------------------------------------------------------------------
(* The end of a frame and of a transaction.                                *)

\* An inner frame ends, without code at once, after a self-destruction without
\* error, otherwise at any time; s is acct after the hook of the last instruction.
Leave(s, ok) ==
    LET f == Top
        t == AfterCall([s EXCEPT !.db = Left(ok, f, @, f.db)], f)
    IN  /\ phase = "tx" /\ Len(frames) > 1
        /\ acct' = t
        /\ world' = Left(ok, f, world, f.world)
        /\ frames' = Rest
        /\ gone' = IF ok THEN gone ELSE f.gone
        /\ lost' = lost \cup Losses(acct, t, Rest) \cup Revived(t)
                        \cup (IF ok THEN {} ELSE Unfetch(t, f))
        /\ undone' = (undone \/ ~ok)
        /\ UNCHANGED <<phase, txs, ops, start>>

EndCall(ok) ==
    /\ phase = "tx"
    /\ ok \/ Top.runs
    /\ Leave(acct, ok)

\* ErrWriteProtection: SSTORE in a read-only frame fails after its hook; the
\* hook's fetch is undone with the frame.
SstoreProtected(k) ==
    /\ Running /\ Top.readOnly
    /\ Leave(SstoreHook(acct, Storage(Top.self, k)), FALSE)

\* CALL with a value in a read-only frame.  The RevertAccountState of
\* opcodeExecutionHook restores the snapshot taken just before, so only the
\* StateDB could change, and the failing frame undoes that.
CallProtected(to) ==
    /\ Running /\ Top.readOnly
    /\ Leave(SetCodeBalanceNonce(acct, to), FALSE)

\* The call returned to TransitionDbTrace.
Returned(ok) ==
    LET f == Top
        t == [acct EXCEPT !.db = Left(ok, f, @, f.db)]
    IN  IF f.kind = "CREATE"
          THEN [t EXCEPT !.touched = AppendCode(@, Code(f.to), t.db[Code(f.to)])]
          ELSE t

\* The rest of TransitionDbTrace, then Finalise and CommitAccountState: refund
\* and fee go to the StateDB only.
EndTx(ok, used) ==
    LET f  == Top
        s1 == Returned(ok)
        s2 == IF ok THEN s1 ELSE RevertAccountState(s1, f.touched)
        s3 == Touch(Touch(Touch(Touch(s2, Balance(f.from)), Nonce(f.from)),
                          Balance(f.to)), Nonce(f.to))
        dead == IF ok THEN gone ELSE {}
        settled(m) == Erase(Add(Add(m, Balance(f.from), GasLimit - used),
                                Balance(Coinbase), used), dead)
        s4 == [s3 EXCEPT !.db = settled(@)]
    IN  /\ phase = "tx" /\ Len(frames) = 1
        /\ ok \/ (f.runs /\ ~RevertPanics(s1, f.touched))
        /\ acct' = [s4 EXCEPT !.committed = s4.touched]
        /\ world' = settled(Left(ok, f, world, f.world))
        /\ frames' = <<>> /\ gone' = {} /\ phase' = "idle"
        /\ lost' = lost \cup Losses(acct, s4, <<>>) \cup Revived(s4)
                        \cup Refetched(s4, dead) \cup (IF ok THEN {} ELSE Stale(f))
        /\ ops' = 0 /\ start' = world'
        /\ UNCHANGED <<txs, undone>>

\* GetCommittedBalance dereferences a nil pointer: the process dies.
TxPanics ==
    /\ phase = "tx" /\ Len(frames) = 1 /\ Top.runs
    /\ RevertPanics(Returned(FALSE), Top.touched)
    /\ phase' = "panicked" /\ frames' = <<>>
    /\ UNCHANGED <<acct, gone, txs, ops, world, start, lost, undone>>

-----------------------------------------------------------------------------
Begin ==
    \E from \in Senders, v \in Amounts :
        \/ BeginRejected(from, v)
        \/ \E to \in Accounts : BeginCall(from, to, v)
        \/ \E to \in Fresh : BeginCreate(from, to, v)

Instruction ==
    \/ \E k \in Keys : Sload(k) \/ SstoreProtected(k) \/ \E v \in Values : Sstore(k, v)
    \/ \E a \in Accounts : ReadBalance(a) \/ ReadCode(a) \/ Selfdestruct(a) \/ CallProtected(a)
    \/ \E kind \in CallKinds, to \in Accounts, v \in Amounts : Call(kind, to, v)
    \/ \E kind \in CreateKinds, to \in Fresh, v \in Amounts :
          CreateContract(kind, to, v)

End ==
    \/ \E ok \in BOOLEAN : EndCall(ok) \/ \E used \in 1..GasLimit : EndTx(ok, used)
    \/ TxPanics

Next == Begin \/ Instruction \/ End

Spec == Init /\ [][Next]_vars
-----------------------------------------------------------------------------
(* Properties.                                                             *)

\* What the next instruction that reads the cell will find, after its hook.
Seen(c) ==
    CASE c \in Slots -> SloadHook(acct, c).db[c]
      [] c \in Codes -> CheckAndSetCode(acct, c).db[c]
      [] OTHER -> CheckAndSet(acct, c).db[c]

Building == UNION {{c \in Cells : c[2] = a} : a \in Constructing(frames)}

(***************************************************************************)
(* The replay shows the contracts the state of the chain, cell by cell,    *)
(* through nested, failed and self-destructing calls and from one          *)
(* transaction to the next, except for cells that met one of the           *)
(* events of Losses, Unfetch, Revived, Refetched and Stale, took ether     *)
(* from such a balance by a self-destruction, and for accounts whose       *)
(* constructor is running.                                                 *)
(***************************************************************************)
Faithful ==
    phase \in {"idle", "tx"} =>
        \A c \in Cells \ (lost \cup Building) : Seen(c) = world[c]

(***************************************************************************)
(* As long as no inner call fails and no contract self-destructs, storage  *)
(* is exact, also after transactions that fail, and the committed value    *)
(* that the SSTORE gas rules read is the one before the transaction.       *)
(***************************************************************************)
StorageExact ==
    phase \in {"idle", "tx"} /\ ~undone =>
        \A c \in Slots :
            /\ Seen(c) = world[c]
            /\ phase = "tx" /\ acct.touched[c] # Absent => acct.committed[c] = start[c]

(***************************************************************************)
(* Every failed call gives back the storage it found, in the words of      *)
(* evm.Call: it "reverses the state in case of an execution error".  So    *)
(* the slots of the contracts that exist are as on the chain.              *)
(***************************************************************************)
StorageReversed ==
    phase \in {"idle", "tx"} =>
        \A c \in Slots : world[Code(c[2])] # 0 => Seen(c) = world[c]
=============================================================================
