------------------------------ MODULE EvmState ------------------------------
(***************************************************************************)
(* The state of the EVM as the replay tools see it: a map from cells to    *)
(* numbers, a cell being one storage slot, balance, nonce or code of one   *)
(* account, and what the instructions of geth that change state do to such *)
(* a map.  Code is the number of copies of the account's bytecode, since   *)
(* AccountState appends to code; 0 is no code.                             *)
(***************************************************************************)
EXTENDS Integers

CONSTANTS
    Accounts, Keys,
    Senders,      \* accounts that sign transactions
    Fresh,        \* addresses at which contracts may be created
    Values,       \* what SSTORE may write
    Amounts,      \* ether sent with a call
    Absent        \* no entry in a Go map

Slots    == {"storage"} \X Accounts \X Keys
Balances == {"balance"} \X Accounts
Nonces   == {"nonce"} \X Accounts
Codes    == {"code"} \X Accounts
Cells    == Slots \cup Balances \cup Nonces \cup Codes

Storage(a, k) == <<"storage", a, k>>
Balance(a)    == <<"balance", a>>
Nonce(a)      == <<"nonce", a>>
Code(a)       == <<"code", a>>

Map == [Cells -> Int \cup {Absent}]

CallKinds   == {"CALL", "CALLCODE", "DELEGATECALL", "STATICCALL"}
CreateKinds == {"CREATE", "CREATE2"}

ASSUME EvmAssumption ==
    /\ Senders \subseteq Accounts /\ Fresh \subseteq Accounts
    /\ Values \subseteq Nat /\ Amounts \subseteq Nat
    /\ Absent \notin Int

Put(m, c, v) == [m EXCEPT ![c] = v]
Add(m, c, v) == [m EXCEPT ![c] = @ + v]
Transfer(m, a, b, v) == Add(Add(m, Balance(a), -v), Balance(b), v)

\* evm.create, past its checks: a new account with nonce 1.
Create(m, a) == Put(m, Nonce(a), 1)
Taken(m, a) == m[Nonce(a)] # 0 \/ m[Code(a)] # 0

\* SELFDESTRUCT of a in favour of b, and the end of the accounts it marked.
Destruct(m, a, b) == Put(Add(m, Balance(b), m[Balance(a)]), Balance(a), 0)
Erase(m, accounts) == [c \in Cells |-> IF c[2] \in accounts THEN 0 ELSE m[c]]

\* Whose storage a call of this kind works on.
Self(kind, caller, to) == IF kind \in {"CALL", "STATICCALL"} THEN to ELSE caller

\* What the frame f leaves in m when it ends: everything is undone by an error,
\* and a creation deploys code unless its constructor self-destructed.
Left(ok, f, m, saved) ==
    CASE ~ok -> saved
      [] ok /\ f.kind \in CreateKinds -> Put(m, Code(f.to), IF f.runs THEN 1 ELSE 0)
      [] OTHER -> m
=============================================================================
