------------------------------ MODULE TxTracer ------------------------------
(***************************************************************************)
(* The tracer of replay-inv: while the EVM executes one transaction, the   *)
(* tracer keeps the stack of calls and, for every call into or out of a    *)
(* target contract, the state before and after the call ("stated" calls).  *)
(* The state before is collected lazily: an account or slot is read from   *)
(* the StateDB when the first instruction that may use it is about to run, *)
(* in every stated call that is open.                                      *)
(*                                                                         *)
(* A state is a map of cells: account a is recorded when Balance(a) is.    *)
(* Logs, branches, gas and the tree of finished calls are left out.        *)
(***************************************************************************)
EXTENDS EvmState, Sequences, FiniteSets

CONSTANTS
    Targets,          \* contracts that replay-inv may be asked about
    Genesis,          \* the StateDB after the sender has paid for gas
    MaxOps, MaxDepth  \* bounds of the instance

ASSUME TracerAssumption ==
    /\ Targets \subseteq Accounts
    /\ Genesis \in [Cells -> Nat]
    /\ \A a \in Fresh : Genesis[Code(a)] = 0 /\ Genesis[Nonce(a)] = 0
    /\ MaxOps \in Nat /\ MaxDepth \in Nat \ {0}

VARIABLES
    targetAddress,    \* the contract that it is asked about
    db,               \* the StateDB
    gone,             \* accounts that self-destructed
    phase,            \* "ready", "tx", "ended" or "panicked"
    callstack,        \* open calls; the call of the transaction stays at the end
    statedCall,       \* pointers to the stated ones: positions in callstack
    tmpCallLocation,  \* program counter of the last call instruction seen
    pc,               \* instructions executed, which stands for the program counter
    done              \* history: the stated call that the last step finished, if any

vars == <<targetAddress, db, gone, phase, callstack, statedCall, tmpCallLocation, pc, done>>

Frame ==
    [kind : CallKinds \cup CreateKinds, from : Accounts, to : Accounts, self : Accounts,
     readOnly : BOOLEAN, runs : BOOLEAN, isState : BOOLEAN, pre : Map,
     created : SUBSET Accounts, deleted : SUBSET Accounts, location : 0..MaxOps,
     at : 0..MaxOps,                               \* history: the call instruction
     unseen : SUBSET Accounts,                     \* history: see MissCreate
     save : [Cells -> Int], gone : SUBSET Accounts] \* what an error goes back to

Done == [call : Frame, entry : [Cells -> Int], post : Map]

TypeOK ==
    /\ targetAddress \in SUBSET Targets
    /\ db \in [Cells -> Int] /\ gone \in SUBSET Accounts
    /\ phase \in {"ready", "tx", "ended", "panicked"}
    /\ callstack \in Seq(Frame) /\ Len(callstack) <= MaxDepth
    /\ phase = "ready" <=> callstack = <<>>
    /\ statedCall \in Seq(1..MaxDepth)
    /\ tmpCallLocation \in 0..MaxOps /\ pc \in 0..MaxOps
    /\ done \in {<<>>} \cup [{1} -> Done]

Init ==
    /\ \E a \in Targets : targetAddress = {a}
    /\ db = Genesis /\ gone = {} /\ phase = "ready"
    /\ callstack = <<>> /\ statedCall = <<>>
    /\ tmpCallLocation = 0 /\ pc = 0 /\ done = <<>>

Top == callstack[Len(callstack)]

-----------------------------------------------------------------------------
(* Looking up accounts and slots.                                          *)

Recorded(pre) == {a \in Accounts : pre[Balance(a)] # Absent}

lookupAccount(pre, m, a) ==
    IF a \in Recorded(pre) THEN pre
    ELSE [c \in Cells |-> IF c \in {Balance(a), Nonce(a), Code(a)} THEN m[c] ELSE pre[c]]

lookupStorage(pre, m, c) == IF pre[c] # Absent THEN pre ELSE Put(pre, c, m[c])

Pointed == {statedCall[j] : j \in DOMAIN statedCall}

SeeAccount(call, a) == [call EXCEPT !.pre = lookupAccount(@, db, a)]
SeeSlot(call, c) == [call EXCEPT !.pre = lookupStorage(@, db, c)]

\* Mutant: the address of the new contract is not looked up.
SeeCreateOnly(call, a) == [call EXCEPT !.created = @ \cup {a}]

SeeCreate(call, a) == [SeeAccount(call, a) EXCEPT !.created = @ \cup {a}]
SeeSelfdestruct(call, a) == [SeeAccount(call, a) EXCEPT !.deleted = @ \cup {Top.self}]

\* Before the instruction runs, every stated call takes note of it.
CaptureState(op, arg) ==
    LET Seen(call) ==
            CASE op = "slot" -> SeeSlot(call, arg)
              [] op = "account" -> SeeAccount(call, arg)
              [] op = "SELFDESTRUCT" -> SeeSelfdestruct(call, arg)
              [] op = "CREATE" -> SeeCreate(call, arg)
    IN  [i \in DOMAIN callstack |-> IF i \in Pointed THEN Seen(callstack[i]) ELSE callstack[i]]

\* GetMemoryCopyPadded does not copy what ends more than 1 MiB beyond the
\* memory, which has not grown yet.  If this is the init code of a CREATE2,
\* CaptureState returns at the first stated call, and none looks up the new
\* contract or puts it into Created.  The history notes where it was missed.
MissCreate(a) ==
    [i \in DOMAIN callstack |->
        IF i \in Pointed /\ a \notin Recorded(callstack[i].pre)
          THEN [callstack[i] EXCEPT !.unseen = @ \cup {a}] ELSE callstack[i]]

\* lookupStorage assumes the account is recorded, else it follows a nil pointer.
NilAccount(a) == \E i \in Pointed : a \notin Recorded(callstack[i].pre)

-----------------------------------------------------------------------------
(* Entering and leaving calls.                                             *)

\* Mutant: the balances are left as they are after the transfer.
PreStateAfterTransfer(m, from, to, v, others) ==
    [c \in Cells |-> IF c[2] \in others \cup {from, to} /\ c \notin Slots THEN m[c] ELSE Absent]

\* The state before a call from -> to with value v, read after the transfer.
PreState(m, from, to, v, others) ==
    LET seen == lookupAccount(lookupAccount([c \in Cells |-> Absent], m, from), m, to)
        all  == [c \in Cells |-> IF c[2] \in others /\ c \notin Slots THEN m[c] ELSE seen[c]]
    IN  Add(Add(all, Balance(to), -v), Balance(from), v)

\* CaptureStart, with m the StateDB after the transfer and save the one before.
CaptureStart(kind, from, to, v, save, m) ==
    LET stated == to \in targetAddress
        pre    == Add(PreState(m, from, to, v, {}), Nonce(from), -1)
    IN  [kind |-> kind, from |-> from, to |-> to, self |-> to, readOnly |-> FALSE,
         runs |-> kind = "CREATE" \/ m[Code(to)] # 0, isState |-> stated,
         pre |-> IF stated THEN pre ELSE [c \in Cells |-> Absent],
         created |-> IF stated /\ kind = "CREATE" THEN {to} ELSE {},
         deleted |-> {}, location |-> 0, at |-> 0, unseen |-> {}, save |-> save, gone |-> {}]

\* CaptureEnter; stack and location are as CaptureState left them.
CaptureEnter(kind, to, v, save, m, stack, location) ==
    LET from   == Top.self
        flag1  == to \in targetAddress
        flag2  == statedCall # <<>> /\ from \in targetAddress
        stated == kind = "CALL" /\ (flag1 \/ flag2)
        others == IF flag2 THEN Recorded(stack[statedCall[Len(statedCall)]].pre) ELSE {}
    IN  [kind |-> kind, from |-> from, to |-> to,
         self |-> IF kind \in CreateKinds THEN to ELSE Self(kind, from, to),
         readOnly |-> Top.readOnly \/ kind = "STATICCALL",
         runs |-> kind \in CreateKinds \/ m[Code(to)] # 0, isState |-> stated,
         pre |-> IF stated THEN PreState(m, from, to, v, others)
                           ELSE [c \in Cells |-> Absent],
         created |-> {}, deleted |-> {}, location |-> location, at |-> pc,
         unseen |-> {}, save |-> save, gone |-> gone]

\* Account.Exists of hunter/trace.
Exists(pre, a) ==
    \/ pre[Nonce(a)] > 0 \/ pre[Code(a)] > 0 \/ pre[Balance(a)] # 0
    \/ \E k \in Keys : pre[Storage(a, k)] # Absent

\* Mutant: the state after the call is read before the journal undoes it.
PostStateEarly(call, m) ==
    [c \in Cells |-> IF call.pre[c] = Absent \/ c[2] \in call.deleted THEN Absent ELSE db[c]]

\* handleCallEnd: the state after the call, of what was recorded before it and
\* not deleted, and the state before it without the accounts it created.
PostState(call, m) ==
    [c \in Cells |-> IF call.pre[c] = Absent \/ c[2] \in call.deleted THEN Absent ELSE m[c]]

Pruned(call) ==
    LET new == {a \in call.created \cap Recorded(call.pre) : ~Exists(call.pre, a)}
    IN  [call EXCEPT !.pre = [c \in Cells |-> IF c[2] \in new THEN Absent ELSE @[c]]]

\* CaptureStart comes after the nonce of the sender has been incremented.
Entry(i) ==
    LET f == callstack[i]
    IN  IF i = 1 THEN Add(f.save, Nonce(f.from), -1) ELSE f.save

\* Mutant: the call of the transaction is popped like any other.
PoppedRoot(stack) == SubSeq(stack, 1, Len(stack) - 1)

\* CaptureExit pops the call, CaptureEnd leaves the call of the transaction.
Popped(stack) ==
    IF Len(stack) > 1 THEN SubSeq(stack, 1, Len(stack) - 1)
    ELSE <<IF stack[1].isState THEN Pruned(stack[1]) ELSE stack[1]>>

\* Mutant: a call that is not stated takes the last stated one with it.
StatedRestAlways(call) ==
    IF statedCall # <<>> THEN SubSeq(statedCall, 1, Len(statedCall) - 1) ELSE <<>>

StatedRest(call) ==
    IF call.isState THEN SubSeq(statedCall, 1, Len(statedCall) - 1) ELSE statedCall

\* CaptureExit and CaptureEnd, called when the StateDB is m already.
CaptureExit(stack, m) ==
    LET call == stack[Len(stack)]
    IN  /\ callstack' = Popped(stack)
        /\ statedCall' = StatedRest(call)
        /\ done' = IF call.isState
                     THEN <<[call |-> Pruned(call), entry |-> Entry(Len(stack)),
                             post |-> PostState(call, m)]>>
                     ELSE <<>>

\* The innermost call ends: evm.Call and evm.create undo a failed one first.
Leave(stack, ok) ==
    LET f == stack[Len(stack)]
        m == Left(ok, f, db, f.save)
    IN  /\ db' = m
        /\ gone' = IF ok THEN gone ELSE f.gone
        /\ CaptureExit(stack, m)
        /\ phase' = IF Len(stack) = 1 THEN "ended" ELSE phase
        /\ UNCHANGED targetAddress

-----------------------------------------------------------------------------
(* The transaction and its instructions.                                   *)

Start(kind, from, to, v) ==
    LET save == Add(db, Nonce(from), 1)
        m    == Transfer(IF kind = "CREATE" THEN Create(save, to) ELSE save, from, to, v)
        f    == CaptureStart(kind, from, to, v, save, m)
    IN  /\ phase = "ready" /\ v <= db[Balance(from)]
        /\ db' = m /\ phase' = "tx"
        /\ callstack' = <<f>>
        /\ statedCall' = IF f.isState THEN <<1>> ELSE <<>>
        /\ UNCHANGED <<targetAddress, gone, tmpCallLocation, pc, done>>

StartCall(from, to, v) == Start("CALL", from, to, v)

StartCreate(from, to, v) ==
    /\ ~Taken(db, to)
    /\ Start("CREATE", from, to, v)

Running == phase = "tx" /\ Top.runs /\ pc < MaxOps

\* An instruction that enters no call.
Step(stack, m) ==
    /\ db' = m /\ callstack' = stack /\ pc' = pc + 1 /\ done' = <<>>
    /\ UNCHANGED <<targetAddress, phase, statedCall>>

Push(stack, f, m) ==
    /\ db' = m /\ pc' = pc + 1 /\ done' = <<>>
    /\ callstack' = Append(stack, f)
    /\ statedCall' = IF f.isState THEN Append(statedCall, Len(stack) + 1) ELSE statedCall
    /\ UNCHANGED <<targetAddress, phase>>

\* SLOAD leaves the StateDB as it is, SSTORE writes.
AccessSlot(k, m) ==
    LET c == Storage(Top.self, k)
    IN  IF NilAccount(Top.self)
          THEN /\ phase' = "panicked"
               /\ UNCHANGED <<targetAddress, db, callstack, statedCall, pc, done>>
          ELSE Step(CaptureState("slot", c), m)

Sload(k) ==
    /\ Running
    /\ AccessSlot(k, db)
    /\ UNCHANGED <<gone, tmpCallLocation>>

Sstore(k, v) ==
    /\ Running /\ ~Top.readOnly
    /\ AccessSlot(k, Put(db, Storage(Top.self, k), v))
    /\ UNCHANGED <<gone, tmpCallLocation>>

\* BALANCE and EXTCODECOPY, EXTCODEHASH, EXTCODESIZE.
Inspect(a) ==
    /\ Running
    /\ Step(CaptureState("account", a), db)
    /\ UNCHANGED <<gone, tmpCallLocation>>

\* The CaptureEnter and CaptureExit of opSelfdestruct cancel out.
Selfdestruct(a) ==
    LET me    == Top.self
        stack == CaptureState("SELFDESTRUCT", a)
    IN  /\ Running /\ ~Top.readOnly
        /\ Step([stack EXCEPT ![Len(stack)].runs = FALSE], Destruct(db, me, a))
        /\ gone' = gone \cup {me}
        /\ UNCHANGED tmpCallLocation

\* Mutant: a call instruction does not note its place.
CallLocationStale == tmpCallLocation

\* A call instruction notes its place if some stated call is open.
CallLocation == IF statedCall # <<>> THEN pc ELSE tmpCallLocation

Call(kind, to, v) ==
    LET me    == Top.self
        stack == CaptureState("account", to)
        m     == IF kind = "CALL" THEN Transfer(db, me, to, v) ELSE db
    IN  /\ Running
        /\ kind \in {"DELEGATECALL", "STATICCALL"} => v = 0
        /\ kind = "CALL" /\ Top.readOnly => v = 0
        /\ tmpCallLocation' = CallLocation
        /\ IF Len(callstack) < MaxDepth /\ v <= db[Balance(me)]
             THEN Push(stack, CaptureEnter(kind, to, v, db, m, stack, CallLocation), m)
             ELSE Step(stack, db)
        /\ UNCHANGED gone

\* The tracer leaves its calls as `seen`, or as `entered` if the constructor runs.
NewContract(seen, entered, to, v) ==
    LET me   == Top.self
        save == Add(db, Nonce(me), 1)
        m    == Transfer(Create(save, to), me, to, v)
    IN  /\ Running /\ ~Top.readOnly
        /\ IF Len(callstack) = MaxDepth \/ v > db[Balance(me)]
             THEN Step(seen, db)
             ELSE IF Taken(save, to) THEN Step(seen, save)
             ELSE Push(entered, CaptureEnter("CREATE", to, v, save, m, seen, tmpCallLocation), m)
        /\ UNCHANGED <<gone, tmpCallLocation>>

\* CREATE and CREATE2.
CreateContract(to, v) ==
    LET seen == CaptureState("CREATE", to)
    IN  NewContract(seen, seen, to, v)

\* A CREATE2 whose init code is not copied; in a read-only call, where it fails,
\* this is EndCall(FALSE).
CreateUnseen(to, v) == NewContract(callstack, MissCreate(to), to, v)

EndCall(ok) ==
    /\ phase = "tx"
    /\ ok \/ Top.runs
    /\ Leave(callstack, ok)
    /\ UNCHANGED <<tmpCallLocation, pc>>

\* ErrWriteProtection: the instruction has been seen but fails.
SelfdestructProtected(a) ==
    /\ Running /\ Top.readOnly
    /\ Leave(CaptureState("SELFDESTRUCT", a), FALSE)
    /\ UNCHANGED <<tmpCallLocation, pc>>

CreateProtected(a) ==
    /\ Running /\ Top.readOnly
    /\ Leave(CaptureState("CREATE", a), FALSE)
    /\ UNCHANGED <<tmpCallLocation, pc>>

CallProtected(a) ==
    /\ Running /\ Top.readOnly
    /\ Leave(CaptureState("account", a), FALSE)
    /\ tmpCallLocation' = CallLocation
    /\ UNCHANGED pc

\* With a nil account it panics, as Sload does.
SstoreProtected(k) ==
    /\ Running /\ Top.readOnly /\ ~NilAccount(Top.self)
    /\ Leave(CaptureState("slot", Storage(Top.self, k)), FALSE)
    /\ UNCHANGED <<tmpCallLocation, pc>>

-----------------------------------------------------------------------------
Begin ==
    \E from \in Senders, v \in Amounts :
        \/ \E to \in Accounts : StartCall(from, to, v)
        \/ \E to \in Fresh : StartCreate(from, to, v)

Instruction ==
    \/ \E k \in Keys : Sload(k) \/ SstoreProtected(k) \/ \E v \in Values : Sstore(k, v)
    \/ \E a \in Accounts : Inspect(a) \/ Selfdestruct(a)
                           \/ SelfdestructProtected(a) \/ CallProtected(a)
    \/ \E a \in Fresh : CreateProtected(a)
    \/ \E kind \in CallKinds, to \in Accounts, v \in Amounts : Call(kind, to, v)
    \/ \E to \in Fresh, v \in Amounts : CreateContract(to, v) \/ CreateUnseen(to, v)

Next == Begin \/ Instruction \/ \E ok \in BOOLEAN : EndCall(ok)

Spec == Init /\ [][Next]_vars
-----------------------------------------------------------------------------
(* Properties.                                                             *)

Stated == {i \in DOMAIN callstack : callstack[i].isState}

\* CaptureStart reads the nonce of a contract that the transaction creates
\* after create has set it to 1.
ReadLate(i) == IF i = 1 /\ callstack[1].kind = "CREATE" THEN {Nonce(callstack[1].to)} ELSE {}

(***************************************************************************)
(* Whatever a stated call has recorded as its state before is the state at *)
(* its entry, though it is read at any later time, between the effects of  *)
(* nested, failed and self-destructing calls, and after the transfer of    *)
(* its own value.  The exceptions are the nonce of ReadLate and contracts  *)
(* that a CREATE2 made unseen by the call: they are read, if at all, after *)
(* their creation.                                                         *)
(***************************************************************************)
PreIsEntry ==
    phase = "tx" => \A i \in Stated : \A c \in Cells \ ReadLate(i) :
        callstack[i].pre[c] # Absent /\ c[2] \notin callstack[i].unseen
            => callstack[i].pre[c] = Entry(i)[c]

\* Account a did not exist when the finished call d was entered; the nonce of a
\* contract that the transaction creates is read late.
NewIn(d, a) ==
    /\ d.entry[Balance(a)] = 0 /\ d.entry[Code(a)] <= 0
    /\ d.entry[Nonce(a)] <= 0 \/ (d.call.kind = "CREATE" /\ a = d.call.to)

(***************************************************************************)
(* When a stated call ends, its states before and after are a complete     *)
(* account of its effect: what changed has been recorded, or belongs to a  *)
(* created account that was not there before; the state after is what the  *)
(* call left once a failure was undone, and the rest is untouched.         *)
(* Accounts on the deleted list have no state after; those whose           *)
(* self-destruction inside the call stands are all on it.  Contracts made  *)
(* unseen by the call are the exception.                                   *)
(***************************************************************************)
DiffExact ==
    \A d \in {done[1] : i \in DOMAIN done} :
        /\ \A c \in {x \in Cells : x[2] \notin d.call.unseen} :
              /\ c[2] \notin d.call.deleted =>
                     db[c] = (IF d.post[c] # Absent THEN d.post[c] ELSE d.entry[c])
              /\ db[c] # d.entry[c] =>
                     d.call.pre[c] # Absent \/ (c[2] \in d.call.created /\ NewIn(d, c[2]))
        /\ gone \ d.call.gone \subseteq d.call.deleted

(***************************************************************************)
(* The tracer's list of stated calls is the stated calls of the call       *)
(* stack, innermost last, so that CaptureExit removes the right one, and   *)
(* it is empty at the end.                                                 *)
(***************************************************************************)
StatedAligned ==
    /\ phase = "tx" => /\ Pointed = Stated
                       /\ Len(statedCall) = Cardinality(Stated)
                       /\ \A j \in 2..Len(statedCall) : statedCall[j - 1] < statedCall[j]
    /\ phase = "ended" => statedCall = <<>>

(***************************************************************************)
(* A stated call that a target makes while another stated call is open has *)
(* the place of its own call instruction; by this place the miner tells    *)
(* the program points of a method apart.                                   *)
(***************************************************************************)
LocationFresh ==
    \A i \in Stated : i > 1 /\ (\E j \in Stated : j < i) =>
        callstack[i].location = callstack[i].at

(***************************************************************************)
(* lookupStorage "assumes `lookupAccount` has been performed on the        *)
(* contract before".  It meets an account that is not recorded in one case *)
(* only: the running contract was created, while some stated call was      *)
(* open, by a CREATE2 on which CaptureState gave up.                       *)
(***************************************************************************)
PanicOnlyUnseen ==
    phase = "panicked" => \E i \in Stated : Top.self \in callstack[i].unseen
=============================================================================
