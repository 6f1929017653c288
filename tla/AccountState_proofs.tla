------------------------- MODULE AccountState_proofs -------------------------
(***************************************************************************)
(* Proofs about the RPC replay, for all accounts, keys and values, every    *)
(* state of the chain and any number of transactions, instructions and      *)
(* nested calls.  Storage is exact until an inner call fails or a contract   *)
(* destroys itself.                                                          *)
(***************************************************************************)
EXTENDS AccountState, TLAPS

(***************************************************************************)
(* Cells, and maps of cells that agree on the slots.                        *)
(***************************************************************************)
State == [db : [Cells -> Int], touched : Map, committed : Map]

Others == Cells \ Slots

SameSlots(m, n) == \A c \in Slots : n[c] = m[c]

\* t is a state that has the slots of s.
SameStorage(s, t) ==
    /\ t \in State
    /\ SameSlots(s.db, t.db) /\ SameSlots(s.touched, t.touched)
    /\ SameSlots(s.committed, t.committed)

LEMMA CellFacts ==
  ASSUME NEW a \in Accounts
  PROVE  /\ Balance(a) \in Others /\ Nonce(a) \in Others /\ Code(a) \in Others
         /\ Code(a) \in Codes
         /\ \A k \in Keys : Storage(a, k) \in Slots
  BY DEF Balance, Nonce, Code, Storage, Others, Cells, Slots, Balances, Nonces, Codes

LEMMA SlotFacts == Slots \subseteq Cells /\ Others \subseteq Cells /\ Codes \cap Slots = {}
  BY DEF Others, Cells, Slots, Codes

LEMMA AddFacts ==
  ASSUME NEW m \in [Cells -> Int], NEW c \in Others, NEW v \in Int
  PROVE  /\ Add(m, c, v) \in [Cells -> Int] /\ Put(m, c, v) \in [Cells -> Int]
         /\ SameSlots(m, Add(m, c, v)) /\ SameSlots(m, Put(m, c, v))
  BY DEF Add, Put, SameSlots, Others, Cells

LEMMA TransferFacts ==
  ASSUME NEW m \in [Cells -> Int], NEW a \in Accounts, NEW b \in Accounts, NEW v \in Int
  PROVE  Transfer(m, a, b, v) \in [Cells -> Int] /\ SameSlots(m, Transfer(m, a, b, v))
  <1> DEFINE n == Add(m, Balance(a), -v)
  <1>1. Balance(a) \in Others /\ Balance(b) \in Others /\ -v \in Int
    BY CellFacts
  <1>2. n \in [Cells -> Int] /\ SameSlots(m, n)
    BY <1>1, AddFacts
  <1> HIDE DEF n
  <1>3. Add(n, Balance(b), v) \in [Cells -> Int] /\ SameSlots(n, Add(n, Balance(b), v))
    BY <1>1, <1>2, AddFacts
  <1>4. Transfer(m, a, b, v) = Add(n, Balance(b), v)
    BY DEF Transfer, n
  <1> QED BY <1>2, <1>3, <1>4 DEF SameSlots

LEMMA CreateFacts ==
  ASSUME NEW m \in [Cells -> Int], NEW a \in Accounts
  PROVE  Create(m, a) \in [Cells -> Int] /\ SameSlots(m, Create(m, a))
  BY CellFacts, AddFacts DEF Create

LEMMA DestructType ==
  ASSUME NEW m \in [Cells -> Int], NEW a \in Accounts, NEW b \in Accounts
  PROVE  Destruct(m, a, b) \in [Cells -> Int]
  <1>1. Balance(a) \in Others /\ Balance(b) \in Others /\ m[Balance(a)] \in Int
    BY CellFacts, SlotFacts
  <1> DEFINE n == Add(m, Balance(b), m[Balance(a)])
  <1>2. n \in [Cells -> Int]
    BY <1>1, AddFacts
  <1> HIDE DEF n
  <1>3. Put(n, Balance(a), 0) \in [Cells -> Int]
    <2>1. 0 \in Int
      OBVIOUS
    <2> QED BY <1>1, <1>2, <2>1, AddFacts, Zenon
  <1> QED BY <1>3 DEF Destruct, n

LEMMA EraseFacts ==
  ASSUME NEW m \in [Cells -> Int], NEW dead
  PROVE  /\ Erase(m, dead) \in [Cells -> Int]
         /\ dead = {} => SameSlots(m, Erase(m, dead))
  BY SlotFacts DEF Erase, SameSlots

LEMMA LeftFacts ==
  ASSUME NEW m \in [Cells -> Int], NEW n \in [Cells -> Int], NEW f \in Frame, NEW ok \in BOOLEAN
  PROVE  /\ Left(ok, f, m, n) \in [Cells -> Int]
         /\ ok => SameSlots(m, Left(ok, f, m, n))
         /\ ~ok => Left(ok, f, m, n) = n
  <1>1. f.to \in Accounts
    BY DEF Frame
  <1>2. CASE ~ok
    <2>1. Left(ok, f, m, n) = n
      BY <1>2, Zenon DEF Left
    <2> QED BY <1>2, <2>1
  <1>3. CASE ok /\ f.kind \in CreateKinds
    <2> DEFINE v == IF f.runs THEN 1 ELSE 0
    <2>1. Left(ok, f, m, n) = Put(m, Code(f.to), v)
      BY <1>3, Zenon DEF Left
    <2>2. v \in Int
      OBVIOUS
    <2> HIDE DEF v
    <2>3. Put(m, Code(f.to), v) \in [Cells -> Int] /\ SameSlots(m, Put(m, Code(f.to), v))
      BY <1>1, <2>2, CellFacts, AddFacts
    <2> QED BY <1>3, <2>1, <2>3
  <1>4. CASE ok /\ f.kind \notin CreateKinds
    <2>1. Left(ok, f, m, n) = m
      BY <1>4, Zenon DEF Left
    <2> QED BY <1>4, <2>1 DEF SameSlots
  <1> QED BY <1>2, <1>3, <1>4

(***************************************************************************)
(* The hooks, which change one cell each.                                   *)
(***************************************************************************)
LEMMA SameStorageTrans ==
  ASSUME NEW s, NEW t, NEW u, SameStorage(s, t), SameStorage(t, u)
  PROVE  SameStorage(s, u)
  BY DEF SameStorage, SameSlots

LEMMA NewDb ==
  ASSUME NEW s \in State, NEW m \in [Cells -> Int]
  PROVE  /\ [s EXCEPT !.db = m] \in State
         /\ [s EXCEPT !.db = m].db = m
         /\ [s EXCEPT !.db = m].touched = s.touched
         /\ [s EXCEPT !.db = m].committed = s.committed
         /\ SameSlots(s.db, m) => SameStorage(s, [s EXCEPT !.db = m])
  BY DEF State, SameStorage, SameSlots

LEMMA NewTouched ==
  ASSUME NEW s \in State, NEW m \in Map
  PROVE  /\ [s EXCEPT !.touched = m] \in State
         /\ [s EXCEPT !.touched = m].touched = m
         /\ [s EXCEPT !.touched = m].db = s.db
         /\ [s EXCEPT !.touched = m].committed = s.committed
         /\ SameSlots(s.touched, m) => SameStorage(s, [s EXCEPT !.touched = m])
  BY DEF State, SameStorage, SameSlots

LEMMA TouchFacts ==
  ASSUME NEW s \in State, NEW c \in Cells
  PROVE  /\ Touch(s, c) \in State
         /\ Touch(s, c).db = s.db /\ Touch(s, c).committed = s.committed
         /\ Touch(s, c).touched = [s.touched EXCEPT ![c] = s.db[c]]
         /\ c \in Others => SameStorage(s, Touch(s, c))
  <1> DEFINE m == [s.touched EXCEPT ![c] = s.db[c]]
  <1>1. m \in Map /\ (c \in Others => SameSlots(s.touched, m))
    BY SlotFacts DEF State, Map, SameSlots, Others
  <1>2. Touch(s, c) = [s EXCEPT !.touched = m]
    BY DEF Touch, State
  <1> HIDE DEF m
  <1> QED BY <1>1, <1>2, NewTouched DEF m

LEMMA FetchFacts ==
  ASSUME NEW s \in State, NEW c \in Cells
  PROVE  /\ Fetch(s, c) \in State
         /\ Fetch(s, c).db = [s.db EXCEPT ![c] = Chain[c]]
         /\ Fetch(s, c).committed = [s.committed EXCEPT ![c] = Chain[c]]
         /\ Fetch(s, c).touched = s.touched
         /\ c \in Others => SameStorage(s, Fetch(s, c))
  <1>1. Chain[c] \in Int
    BY StateAssumption
  <1>2. /\ Fetch(s, c) \in State
        /\ Fetch(s, c).db = [s.db EXCEPT ![c] = Chain[c]]
        /\ Fetch(s, c).committed = [s.committed EXCEPT ![c] = Chain[c]]
        /\ Fetch(s, c).touched = s.touched
    BY <1>1 DEF Fetch, State, Map
  <1>3. c \in Others => SameStorage(s, Fetch(s, c))
    BY <1>2, SlotFacts DEF SameStorage, SameSlots, Others, State, Map
  <1> QED BY <1>2, <1>3

LEMMA CheckAndSetFacts ==
  ASSUME NEW s \in State, NEW c \in Others
  PROVE  SameStorage(s, CheckAndSet(s, c)) /\ CheckAndSet(s, c) \in State
  <1> DEFINE t == IF s.touched[c] = Absent THEN Fetch(s, c) ELSE s
  <1>1. c \in Cells
    BY SlotFacts
  <1>2. t \in State /\ SameStorage(s, t)
    <2>1. Fetch(s, c) \in State /\ SameStorage(s, Fetch(s, c))
      BY <1>1, FetchFacts
    <2>2. SameStorage(s, s)
      BY DEF SameStorage, SameSlots
    <2> QED BY <2>1, <2>2, Zenon
  <1> HIDE DEF t
  <1>3. SameStorage(t, Touch(t, c))
    BY <1>1, <1>2, TouchFacts
  <1>4. CheckAndSet(s, c) = Touch(t, c)
    BY DEF CheckAndSet, t
  <1>5. SameStorage(s, CheckAndSet(s, c))
    BY <1>2, <1>3, <1>4, SameStorageTrans
  <1> QED BY <1>5 DEF SameStorage

LEMMA AppendCodeFacts ==
  ASSUME NEW m \in Map, NEW c \in Codes, NEW n \in Int
  PROVE  AppendCode(m, c, n) \in Map /\ SameSlots(m, AppendCode(m, c, n))
  <1>1. c \in Cells /\ c \notin Slots
    BY SlotFacts DEF Cells
  <1> DEFINE v == IF m[c] = Absent THEN 0 ELSE m[c]
  <1>2. v \in Int
    BY <1>1 DEF Map
  <1>3. CASE n = 0
    BY <1>3 DEF AppendCode, SameSlots
  <1>4. CASE n # 0
    <2>1. AppendCode(m, c, n) = [m EXCEPT ![c] = v + n]
      BY <1>4 DEF AppendCode
    <2> HIDE DEF v
    <2> QED BY <1>1, <1>2, <2>1, SlotFacts DEF Map, SameSlots
  <1> QED BY <1>3, <1>4

LEMMA CheckAndSetCodeFacts ==
  ASSUME NEW s \in State, NEW c \in Codes
  PROVE  SameStorage(s, CheckAndSetCode(s, c)) /\ CheckAndSetCode(s, c) \in State
  <1>1. c \in Cells /\ c \notin Slots /\ Chain[c] \in Int
    BY SlotFacts, StateAssumption DEF Cells
  <1>2. CASE s.touched[c] = Absent
    <2> DEFINE d == [s.db EXCEPT ![c] = Chain[c]]
               p == AppendCode(s.touched, c, Chain[c])
               q == AppendCode(s.committed, c, Chain[c])
    <2>1. s.touched \in Map /\ s.committed \in Map /\ s.db \in [Cells -> Int]
      BY DEF State
    <2>2. p \in Map /\ q \in Map /\ SameSlots(s.touched, p) /\ SameSlots(s.committed, q)
      BY <1>1, <2>1, AppendCodeFacts
    <2>3. d \in [Cells -> Int] /\ SameSlots(s.db, d)
      BY <1>1, <2>1, SlotFacts DEF SameSlots
    <2>4. CheckAndSetCode(s, c) = [s EXCEPT !.db[c] = Chain[c], !.touched = p, !.committed = q]
      BY <1>2, Zenon DEF CheckAndSetCode
    <2> HIDE DEF p, q
    <2>5. /\ CheckAndSetCode(s, c) \in State /\ CheckAndSetCode(s, c).db = d
          /\ CheckAndSetCode(s, c).touched = p /\ CheckAndSetCode(s, c).committed = q
      BY <1>1, <2>2, <2>4 DEF State
    <2> QED BY <2>2, <2>3, <2>5 DEF SameStorage
  <1>3. CASE s.touched[c] # Absent
    <2> DEFINE m == [s.db EXCEPT ![c] = s.touched[c]]
    <2>1. m \in [Cells -> Int] /\ SameSlots(s.db, m)
      BY <1>1, <1>3, SlotFacts DEF State, Map, SameSlots
    <2>2. [s EXCEPT !.db[c] = s.touched[c]] = [s EXCEPT !.db = m]
      BY DEF State
    <2>3. CheckAndSetCode(s, c) \in {s, [s EXCEPT !.db = m]}
      BY <1>3, <2>2 DEF CheckAndSetCode
    <2> HIDE DEF m
    <2>4. SameStorage(s, [s EXCEPT !.db = m]) /\ SameStorage(s, s)
      BY <2>1, NewDb DEF SameStorage, SameSlots
    <2>5. SameStorage(s, CheckAndSetCode(s, c))
      BY <2>3, <2>4, Zenon
    <2> QED BY <2>5 DEF SameStorage
  <1> QED BY <1>2, <1>3

LEMMA SetCodeBalanceNonceFacts ==
  ASSUME NEW s \in State, NEW a \in Accounts
  PROVE  SameStorage(s, SetCodeBalanceNonce(s, a)) /\ SetCodeBalanceNonce(s, a) \in State
  <1> DEFINE t == CheckAndSetCode(s, Code(a))
             u == CheckAndSet(t, Balance(a))
  <1>1. Code(a) \in Codes /\ Balance(a) \in Others /\ Nonce(a) \in Others
    BY CellFacts
  <1>2. SameStorage(s, t) /\ t \in State
    BY <1>1, CheckAndSetCodeFacts
  <1> HIDE DEF t
  <1>3. SameStorage(t, u) /\ u \in State
    BY <1>1, <1>2, CheckAndSetFacts
  <1> HIDE DEF u
  <1>4. SameStorage(u, CheckAndSet(u, Nonce(a)))
    BY <1>1, <1>3, CheckAndSetFacts
  <1>5. SetCodeBalanceNonce(s, a) = CheckAndSet(u, Nonce(a))
    BY DEF SetCodeBalanceNonce, t, u
  <1>6. SameStorage(s, SetCodeBalanceNonce(s, a))
    BY <1>2, <1>3, <1>4, <1>5, SameStorageTrans
  <1> QED BY <1>6 DEF SameStorage

LEMMA TouchBoth ==
  ASSUME NEW s \in State, NEW c \in Others, NEW d \in Others
  PROVE  SameStorage(s, Touch(Touch(s, c), d)) /\ Touch(Touch(s, c), d) \in State
  <1>1. c \in Cells /\ d \in Cells
    BY SlotFacts
  <1> DEFINE t == Touch(s, c)
  <1>2. SameStorage(s, t) /\ t \in State
    BY <1>1, TouchFacts
  <1> HIDE DEF t
  <1>3. SameStorage(t, Touch(t, d)) /\ Touch(t, d) \in State
    BY <1>1, <1>2, TouchFacts
  <1> QED BY <1>2, <1>3, SameStorageTrans DEF t

\* UpdateTouchedCode with the code of an account.
LEMMA TouchCode ==
  ASSUME NEW s \in State, NEW a \in Accounts
  PROVE  LET t == [s EXCEPT !.touched = AppendCode(@, Code(a), s.db[Code(a)])]
         IN  SameStorage(s, t) /\ t \in State /\ t.db = s.db
  <1>1. Code(a) \in Codes /\ Code(a) \in Cells
    BY CellFacts, SlotFacts
  <1>2. s.touched \in Map /\ s.db[Code(a)] \in Int
    BY <1>1 DEF State
  <1> DEFINE m == AppendCode(s.touched, Code(a), s.db[Code(a)])
  <1>3. m \in Map /\ SameSlots(s.touched, m)
    BY <1>1, <1>2, AppendCodeFacts
  <1> HIDE DEF m
  <1>4. [s EXCEPT !.touched = m] \in State /\ SameStorage(s, [s EXCEPT !.touched = m])
        /\ [s EXCEPT !.touched = m].db = s.db
    BY <1>3, NewTouched
  <1> QED BY <1>4, Zenon DEF m

LEMMA AfterCallFacts ==
  ASSUME NEW s \in State, NEW f, f.from \in Accounts, f.to \in Accounts,
         f.kind \in CallKinds \cup CreateKinds
  PROVE  SameStorage(s, AfterCall(s, f)) /\ AfterCall(s, f) \in State
  <1>1. /\ Balance(f.from) \in Others /\ Nonce(f.from) \in Others
        /\ Balance(f.to) \in Others /\ Nonce(f.to) \in Others
    BY CellFacts
  <1> DEFINE balances(t) == Touch(Touch(t, Balance(f.from)), Balance(f.to))
             nonces(t) == Touch(Touch(t, Nonce(f.from)), Nonce(f.to))
             code(t) == [t EXCEPT !.touched = AppendCode(@, Code(f.to), t.db[Code(f.to)])]
  <1>2. ASSUME NEW t \in State
        PROVE  /\ SameStorage(t, balances(t)) /\ balances(t) \in State
               /\ SameStorage(t, nonces(t)) /\ nonces(t) \in State
               /\ SameStorage(t, code(t)) /\ code(t) \in State
    BY <1>1, TouchBoth, TouchCode
  <1>3. CASE f.kind \in {"CALL", "CALLCODE"}
    <2>1. AfterCall(s, f) = nonces(balances(s))
      BY <1>3, Zenon DEF AfterCall
    <2> HIDE DEF balances, nonces, code
    <2>2. SameStorage(s, balances(s)) /\ SameStorage(balances(s), nonces(balances(s)))
      BY <1>2
    <2>3. nonces(balances(s)) \in State
      BY <1>2
    <2> QED BY <2>1, <2>2, <2>3, SameStorageTrans
  <1>4. CASE f.kind = "CREATE"
    <2>1. AfterCall(s, f) = code(nonces(balances(s)))
      BY <1>4, Zenon DEF AfterCall
    <2> HIDE DEF balances, nonces, code
    <2>2. /\ SameStorage(s, balances(s)) /\ SameStorage(balances(s), nonces(balances(s)))
          /\ SameStorage(nonces(balances(s)), code(nonces(balances(s))))
      BY <1>2
    <2>3. code(nonces(balances(s))) \in State
      BY <1>2
    <2> QED BY <2>1, <2>2, <2>3, SameStorageTrans
  <1>5. CASE f.kind = "CREATE2"
    <2>1. AfterCall(s, f) = nonces(code(s))
      BY <1>5, Zenon DEF AfterCall
    <2> HIDE DEF balances, nonces, code
    <2>2. SameStorage(s, code(s)) /\ SameStorage(code(s), nonces(code(s)))
      BY <1>2
    <2>3. nonces(code(s)) \in State
      BY <1>2
    <2> QED BY <2>1, <2>2, <2>3, SameStorageTrans
  <1>6. CASE f.kind \in {"DELEGATECALL", "STATICCALL"}
    <2>1. f.kind \notin {"CALL", "CALLCODE"} /\ f.kind # "CREATE" /\ f.kind # "CREATE2"
      BY <1>6
    <2>2. AfterCall(s, f) = s
      BY <2>1, Zenon DEF AfterCall
    <2> QED BY <2>2 DEF SameStorage, SameSlots
  <1> QED BY <1>3, <1>4, <1>5, <1>6 DEF CallKinds, CreateKinds

(***************************************************************************)
(* RevertAccountState puts the touched slots back.                          *)
(***************************************************************************)
LEMMA RevertFacts ==
  ASSUME NEW s \in State, NEW snap \in Map
  PROVE  LET t == RevertAccountState(s, snap)
             back(c) == IF snap[c] # Absent THEN snap[c]
                        ELSE IF s.committed[c] # Absent THEN s.committed[c] ELSE 0
         IN  /\ t \in State /\ t.committed = s.committed
             /\ \A c \in Cells :
                   IF s.touched[c] = Absent \/ c \in Codes
                     THEN t.touched[c] = s.touched[c] /\ t.db[c] = s.db[c]
                     ELSE t.touched[c] = back(c) /\ t.db[c] = back(c)
  <1> DEFINE back(c) == IF snap[c] # Absent THEN snap[c]
                        ELSE IF s.committed[c] # Absent THEN s.committed[c] ELSE 0
             m == [c \in Cells |->
                     CASE s.touched[c] = Absent \/ c \in Codes -> s.touched[c]
                       [] OTHER -> back(c)]
             d == [c \in Cells |-> IF m[c] = Absent \/ c \in Codes THEN s.db[c] ELSE m[c]]
             t == RevertAccountState(s, snap)
  <1>1. s.touched \in Map /\ s.committed \in Map /\ s.db \in [Cells -> Int]
    BY DEF State
  <1>2. \A c \in Cells : back(c) \in Int
    BY <1>1 DEF Map
  <1>3. ASSUME NEW c \in Cells
        PROVE  m[c] = IF s.touched[c] = Absent \/ c \in Codes THEN s.touched[c] ELSE back(c)
    <2> HIDE DEF back
    <2>1. m[c] = CASE s.touched[c] = Absent \/ c \in Codes -> s.touched[c]
                   [] OTHER -> back(c)
      BY Zenon
    <2>2. CASE s.touched[c] = Absent \/ c \in Codes
      BY <2>1, <2>2, Zenon
    <2>3. CASE ~ (s.touched[c] = Absent \/ c \in Codes)
      BY <2>1, <2>3, Zenon
    <2> QED BY <2>2, <2>3
  <1>4. t = [s EXCEPT !.touched = m, !.db = d]
    BY Zenon DEF RevertAccountState
  <1>5. DOMAIN m = Cells /\ m = [c \in Cells |-> m[c]]
    OBVIOUS
  <1>6. \A c \in Cells : d[c] = IF m[c] = Absent \/ c \in Codes THEN s.db[c] ELSE m[c]
    BY Zenon
  <1>7. DOMAIN d = Cells /\ d = [c \in Cells |-> d[c]]
    OBVIOUS
  <1> HIDE DEF m, d, back, t
  <1>8. m \in Map
    BY <1>1, <1>2, <1>3, <1>5 DEF Map
  <1>9. d \in [Cells -> Int]
    BY <1>1, <1>6, <1>7, <1>8 DEF Map
  <1>10. t \in State /\ t.committed = s.committed /\ t.touched = m /\ t.db = d
    BY <1>4, <1>8, <1>9 DEF State
  <1>11. ASSUME NEW c \in Cells
         PROVE  IF s.touched[c] = Absent \/ c \in Codes
                  THEN t.touched[c] = s.touched[c] /\ t.db[c] = s.db[c]
                  ELSE t.touched[c] = back(c) /\ t.db[c] = back(c)
    <2>1. back(c) # Absent
      BY <1>2, EvmAssumption
    <2> QED BY <1>3, <1>6, <1>10, <2>1
  <1> QED BY <1>10, <1>11, Zenon DEF t, back

(***************************************************************************)
(* The inductive invariant.                                                 *)
(***************************************************************************)
\* A slot that was not touched is as at the node.  One that was touched has the value of the
\* chain, in the StateDB and in the AccountState, and the one before the transaction as committed.
Exact(s, w, st) ==
    \A c \in Slots :
        IF s.touched[c] = Absent THEN w[c] = Chain[c] /\ st[c] = Chain[c]
        ELSE s.db[c] = w[c] /\ s.touched[c] = w[c] /\ s.committed[c] = st[c]

\* What the outermost call saved is the storage before the transaction.
Entered(f, st) ==
    \A c \in Slots : f.world[c] = st[c] /\ f.touched[c] \in {Absent, st[c]}

StorageInv ==
    ~undone => /\ gone = {}
               /\ Exact(acct, world, start)
               /\ frames # <<>> => Entered(frames[1], start)
               /\ phase = "idle" => SameSlots(world, start)

Inv == TypeOK /\ StorageInv

LEMMA ExactKept ==
  ASSUME NEW s, NEW t, NEW w, NEW v, NEW st, NEW u,
         Exact(s, w, st), SameStorage(s, t), SameSlots(w, v), SameSlots(st, u)
  PROVE  Exact(t, v, u)
  BY DEF Exact, SameStorage, SameSlots

LEMMA ButLast ==
  ASSUME NEW S, NEW q \in Seq(S), Len(q) > 1
  PROVE  /\ SubSeq(q, 1, Len(q) - 1) \in Seq(S)
         /\ Len(SubSeq(q, 1, Len(q) - 1)) = Len(q) - 1
  OBVIOUS

LEMMA TypeFacts ==
  ASSUME TypeOK
  PROVE  /\ acct \in State /\ frames \in Seq(Frame) /\ Len(frames) \in Nat
         /\ world \in [Cells -> Int] /\ start \in [Cells -> Int]
         /\ MaxTxs \in Nat /\ MaxOps \in Nat /\ MaxDepth \in Nat \ {0}
         /\ phase = "tx" => /\ Len(frames) > 0 /\ Top \in Frame /\ frames[1] \in Frame
                            /\ Len(frames) > 1 => /\ Rest \in Seq(Frame)
                                                  /\ Len(Rest) = Len(frames) - 1
                            /\ Len(frames) = 1 => Top = frames[1]
  <1>1. /\ acct \in State /\ frames \in Seq(Frame) /\ Len(frames) \in Nat
        /\ world \in [Cells -> Int] /\ start \in [Cells -> Int]
        /\ phase = "tx" => frames # <<>>
    BY DEF TypeOK, State
  <1>2. MaxTxs \in Nat /\ MaxOps \in Nat /\ MaxDepth \in Nat \ {0}
    BY StateAssumption
  <1>3. ASSUME phase = "tx"
        PROVE  /\ Len(frames) > 0 /\ Top \in Frame /\ frames[1] \in Frame
               /\ Len(frames) > 1 => Rest \in Seq(Frame) /\ Len(Rest) = Len(frames) - 1
               /\ Len(frames) = 1 => Top = frames[1]
    <2>1. Len(frames) > 0
      BY <1>1, <1>3
    <2>2. Len(frames) \in DOMAIN frames /\ 1 \in DOMAIN frames
      BY <1>1, <2>1
    <2>3. Top \in Frame /\ frames[1] \in Frame
      BY <1>1, <2>2 DEF Top
    <2>4. Len(frames) > 1 => Rest \in Seq(Frame) /\ Len(Rest) = Len(frames) - 1
      BY <1>1, <2>1, ButLast DEF Rest
    <2>5. Len(frames) = 1 => Top = frames[1]
      BY DEF Top
    <2> QED BY <2>1, <2>3, <2>4, <2>5
  <1> QED BY <1>1, <1>2, <1>3

LEMMA LossesType ==
  ASSUME NEW s, NEW t, NEW gr
  PROVE  Losses(s, t, gr) \subseteq Cells
  BY DEF Losses, Unfetched, Overwritten, Unread

LEMMA InitInv == Init => Inv
  <1> SUFFICES ASSUME Init PROVE Inv
    OBVIOUS
  <1> DEFINE none == [c \in Cells |-> Absent]
             zero == [c \in Cells |-> 0]
  <1>1. /\ acct = [db |-> zero, touched |-> none, committed |-> none]
        /\ frames = <<>> /\ gone = {} /\ phase = "idle" /\ txs = 0 /\ ops = 0
        /\ world = Chain /\ start = Chain /\ lost = {} /\ undone = FALSE
    BY DEF Init
  <1>2. Chain \in [Cells -> Int] /\ MaxTxs \in Nat /\ MaxOps \in Nat /\ MaxDepth \in Nat
    BY StateAssumption
  <1>3. none \in Map /\ zero \in [Cells -> Int] /\ \A c \in Slots : none[c] = Absent
    BY SlotFacts DEF Map
  <1> HIDE DEF none, zero
  <1>4. acct \in [db : [Cells -> Int], touched : Map, committed : Map]
    BY <1>1, <1>3
  <1>5. frames \in Seq(Frame) /\ Len(frames) = 0
    BY <1>1
  <1>6. TypeOK
    <2>1. Len(frames) <= MaxDepth /\ (phase = "tx" <=> frames # <<>>)
      BY <1>1, <1>2, <1>5
    <2>2. txs \in 0..MaxTxs /\ ops \in 0..MaxOps
      BY <1>1, <1>2
    <2>3. undone \in BOOLEAN /\ gone \in SUBSET Accounts /\ lost \in SUBSET Cells
      BY <1>1
    <2>4. world \in [Cells -> Int] /\ start \in [Cells -> Int] /\ phase \in {"idle", "tx", "aborted", "panicked"}
      BY <1>1, <1>2
    <2> QED BY <1>4, <1>5, <2>1, <2>2, <2>3, <2>4 DEF TypeOK
  <1>7. acct.touched = none
    BY <1>1
  <1>8. Exact(acct, world, start)
    BY <1>1, <1>3, <1>7 DEF Exact
  <1> QED BY <1>1, <1>6, <1>8 DEF Inv, StorageInv, SameSlots

(***************************************************************************)
(* The kinds of steps.                                                      *)
(***************************************************************************)
LEMMA InvStep ==
  ASSUME Inv, Running, NEW s \in State, NEW w \in [Cells -> Int], Step(s, w),
         undone \/ Exact(s, w, start)
  PROVE  Inv'
  <1>1. /\ acct' = s /\ world' = w /\ ops' = ops + 1
        /\ lost' = lost \cup Losses(acct, s, frames)
        /\ frames' = frames /\ gone' = gone /\ phase' = phase /\ txs' = txs
        /\ start' = start /\ undone' = undone
    BY DEF Step
  <1>2. ops \in 0..MaxOps /\ MaxOps \in Nat /\ ops < MaxOps
    BY TypeFacts DEF Inv, TypeOK, Running
  <1>3. ops' \in 0..MaxOps
    BY <1>1, <1>2
  <1>4. lost' \in SUBSET Cells
    BY <1>1, LossesType DEF Inv, TypeOK
  <1>5. TypeOK'
    BY <1>1, <1>3, <1>4 DEF Inv, TypeOK, State
  <1>6. StorageInv'
    BY <1>1 DEF Inv, StorageInv, Running
  <1> QED BY <1>5, <1>6 DEF Inv

LEMMA InvPush ==
  ASSUME Inv, Running, NEW s \in State, NEW w \in [Cells -> Int], NEW f \in Frame,
         Push(s, f, w), Len(frames) < MaxDepth, undone \/ Exact(s, w, start)
  PROVE  Inv'
  <1>1. /\ acct' = s /\ world' = w /\ ops' = ops + 1
        /\ lost' = lost \cup Losses(acct, s, Append(frames, f))
        /\ frames' = Append(frames, f) /\ gone' = gone /\ phase' = phase /\ txs' = txs
        /\ start' = start /\ undone' = undone
    BY DEF Push
  <1>2. ops \in 0..MaxOps /\ MaxOps \in Nat /\ ops < MaxOps /\ phase = "tx"
    BY TypeFacts DEF Inv, TypeOK, Running
  <1>3. ops' \in 0..MaxOps
    BY <1>1, <1>2
  <1>4. lost' \in SUBSET Cells
    BY <1>1, LossesType DEF Inv, TypeOK
  <1>5. /\ frames \in Seq(Frame) /\ Len(frames) \in Nat /\ Len(frames) > 0 /\ MaxDepth \in Nat
    BY <1>2, TypeFacts DEF Inv
  <1>6. /\ frames' \in Seq(Frame) /\ Len(frames') = Len(frames) + 1
        /\ frames'[1] = frames[1] /\ frames # <<>> /\ frames' # <<>>
    BY <1>1, <1>5
  <1>7. Len(frames') <= MaxDepth
    BY <1>5, <1>6
  <1>8. TypeOK'
    BY <1>1, <1>2, <1>3, <1>4, <1>6, <1>7 DEF Inv, TypeOK, State
  <1>9. StorageInv'
    BY <1>1, <1>2, <1>6 DEF Inv, StorageInv
  <1> QED BY <1>8, <1>9 DEF Inv

LEMMA InvLeave ==
  ASSUME Inv, NEW s \in State, NEW ok \in BOOLEAN, Leave(s, ok),
         ok => SameStorage(acct, s)
  PROVE  Inv'
  <1> DEFINE f == Top
             m == Left(ok, f, s.db, f.db)
             r == [s EXCEPT !.db = m]
             t == AfterCall(r, f)
  <1>1. /\ phase = "tx" /\ Len(frames) > 1 /\ acct' = t
        /\ world' = Left(ok, f, world, f.world) /\ frames' = Rest
        /\ gone' = IF ok THEN gone ELSE f.gone
        /\ lost' = lost \cup Losses(acct, t, Rest) \cup Revived(t)
                        \cup (IF ok THEN {} ELSE Unfetch(t, f))
        /\ undone' = (undone \/ ~ok)
        /\ phase' = phase /\ txs' = txs /\ ops' = ops /\ start' = start
    BY DEF Leave
  <1>2. /\ f \in Frame /\ frames \in Seq(Frame) /\ Len(frames) \in Nat
        /\ Rest \in Seq(Frame) /\ Len(Rest) = Len(frames) - 1
        /\ acct \in State /\ world \in [Cells -> Int]
    BY <1>1, TypeFacts DEF Inv
  <1>3. /\ f.db \in [Cells -> Int] /\ f.world \in [Cells -> Int] /\ f.gone \in SUBSET Accounts
        /\ f.from \in Accounts /\ f.to \in Accounts /\ f.kind \in CallKinds \cup CreateKinds
    <2> HIDE DEF f
    <2> QED BY <1>2 DEF Frame
  <1>4. s.db \in [Cells -> Int]
    BY DEF State
  <1> HIDE DEF f
  <1>5. m \in [Cells -> Int] /\ (ok => SameSlots(s.db, m))
    BY <1>2, <1>3, <1>4, LeftFacts
  <1>6. world' \in [Cells -> Int] /\ (ok => SameSlots(world, world'))
    BY <1>1, <1>2, <1>3, LeftFacts
  <1> HIDE DEF m
  <1>7. r \in State /\ (ok => SameStorage(s, r))
    BY <1>5, NewDb
  <1> HIDE DEF r
  <1>8. t \in State /\ SameStorage(r, t)
    BY <1>3, <1>7, AfterCallFacts
  <1> HIDE DEF t
  <1>9. lost' \in SUBSET Cells
    <2>1. lost \subseteq Cells
      BY DEF Inv, TypeOK
    <2>2. Losses(acct, t, Rest) \subseteq Cells
      BY LossesType
    <2>3. Unfetch(t, f) \subseteq Cells /\ Revived(t) \subseteq Cells
      BY DEF Unfetch, Revived, Cells
    <2> QED BY <1>1, <2>1, <2>2, <2>3
  <1>10. Rest # <<>> /\ Rest[1] = frames[1] /\ frames # <<>> /\ Len(Rest) <= MaxDepth
    <2>1. Len(frames) <= MaxDepth /\ MaxDepth \in Nat
      BY TypeFacts DEF Inv, TypeOK
    <2>2. Len(Rest) <= MaxDepth /\ Rest # <<>> /\ frames # <<>>
      BY <1>1, <1>2, <2>1
    <2>3. Rest[1] = frames[1]
      BY <1>1, <1>2 DEF Rest
    <2> QED BY <2>2, <2>3
  <1>11. gone' \in SUBSET Accounts /\ undone' \in BOOLEAN
    BY <1>1, <1>3 DEF Inv, TypeOK
  <1>12. TypeOK'
    BY <1>1, <1>2, <1>6, <1>8, <1>9, <1>10, <1>11 DEF Inv, TypeOK, State
  <1>13. StorageInv'
    <2> SUFFICES ASSUME ~undone'
                 PROVE  /\ gone' = {}
                        /\ Exact(acct', world', start')
                        /\ frames' # <<>> => Entered(frames'[1], start')
      BY <1>1 DEF StorageInv
    <2>1. ok /\ ~undone
      BY <1>1
    <2>2. gone = {} /\ Exact(acct, world, start) /\ (frames # <<>> => Entered(frames[1], start))
      BY <2>1 DEF Inv, StorageInv
    <2>3. SameStorage(acct, t)
      BY <1>7, <1>8, <2>1, SameStorageTrans
    <2>4. Exact(t, world', start)
      BY <1>6, <2>1, <2>2, <2>3, ExactKept DEF SameSlots
    <2> QED BY <1>1, <1>10, <2>1, <2>2, <2>4
  <1> QED BY <1>12, <1>13 DEF Inv

(***************************************************************************)
(* The beginning of a transaction.                                          *)
(***************************************************************************)
LEMMA PreCheckedFacts ==
  ASSUME Inv, NEW from \in Accounts
  PROVE  PreChecked(from) \in State /\ SameStorage(acct, PreChecked(from))
  <1> DEFINE t == CheckAndSet(acct, Balance(from))
  <1>1. acct \in State /\ Balance(from) \in Others /\ Nonce(from) \in Others
    BY TypeFacts, CellFacts DEF Inv
  <1>2. t \in State /\ SameStorage(acct, t)
    BY <1>1, CheckAndSetFacts
  <1> HIDE DEF t
  <1>3. CheckAndSet(t, Nonce(from)) \in State /\ SameStorage(t, CheckAndSet(t, Nonce(from)))
    BY <1>1, <1>2, CheckAndSetFacts
  <1> QED BY <1>2, <1>3, SameStorageTrans DEF PreChecked, t

LEMMA InvRejected ==
  ASSUME Inv, NEW from \in Senders, NEW v \in Amounts, BeginRejected(from, v)
  PROVE  Inv'
  <1>1. /\ phase = "idle" /\ acct' = PreChecked(from) /\ phase' = "aborted"
        /\ frames' = frames /\ gone' = gone /\ txs' = txs /\ ops' = ops /\ world' = world
        /\ start' = start /\ lost' = lost /\ undone' = undone
    BY DEF BeginRejected, Idle
  <1>2. PreChecked(from) \in State /\ SameStorage(acct, PreChecked(from))
    BY PreCheckedFacts, EvmAssumption
  <1>3. frames = <<>>
    BY <1>1 DEF Inv, TypeOK
  <1>4. TypeOK'
    BY <1>1, <1>2, <1>3 DEF Inv, TypeOK, State
  <1>5. StorageInv'
    <2>1. ~undone => Exact(PreChecked(from), world, start)
      BY <1>2, ExactKept DEF Inv, StorageInv, SameSlots
    <2> QED BY <1>1, <1>3, <2>1 DEF Inv, StorageInv
  <1> QED BY <1>4, <1>5 DEF Inv

\* The outermost call is entered with the storage that the last transaction left.
LEMMA InvEnter ==
  ASSUME Inv, Idle, NEW s \in State, NEW f \in Frame, NEW w \in [Cells -> Int], Enter(s, f, w),
         SameStorage(acct, s), SameSlots(world, w), SameSlots(world, f.world),
         SameSlots(acct.touched, f.touched)
  PROVE  Inv'
  <1>1. /\ phase' = "tx" /\ txs' = txs + 1 /\ ops' = 0 /\ acct' = s
        /\ frames' = <<f>> /\ gone' = {} /\ start' = f.world /\ world' = w
        /\ lost' = lost \cup Losses(acct, s, <<f>>) /\ undone' = undone
    BY DEF Enter
  <1>2. /\ txs \in 0..MaxTxs /\ MaxTxs \in Nat /\ txs < MaxTxs /\ MaxOps \in Nat
        /\ MaxDepth \in Nat \ {0} /\ phase = "idle"
    BY TypeFacts DEF Inv, TypeOK, Idle
  <1>3. txs' \in 0..MaxTxs /\ ops' \in 0..MaxOps
    BY <1>1, <1>2
  <1>4. lost' \in SUBSET Cells
    BY <1>1, LossesType DEF Inv, TypeOK
  <1>5. frames' \in Seq(Frame) /\ Len(frames') = 1 /\ frames'[1] = f /\ frames' # <<>>
    BY <1>1
  <1>6. Len(frames') <= MaxDepth
    BY <1>2, <1>5
  <1>7. f.world \in [Cells -> Int]
    BY DEF Frame
  <1>8. TypeOK'
    BY <1>1, <1>3, <1>4, <1>5, <1>6, <1>7 DEF Inv, TypeOK, State
  <1>9. StorageInv'
    <2> SUFFICES ASSUME ~undone
                 PROVE  Exact(s, w, f.world) /\ Entered(f, f.world)
      BY <1>1, <1>5 DEF StorageInv
    <2>1. Exact(acct, world, start) /\ SameSlots(world, start)
      BY <1>2 DEF Inv, StorageInv
    <2>2. Exact(s, w, f.world)
      <3>1. SameSlots(start, f.world)
        BY <2>1 DEF SameSlots
      <3> QED BY <2>1, <3>1, ExactKept
    <2>3. Entered(f, f.world)
      BY <2>1 DEF Exact, Entered, SameSlots
    <2> QED BY <2>2, <2>3
  <1> QED BY <1>8, <1>9 DEF Inv

LEMMA GasFacts ==
  ASSUME NEW m \in [Cells -> Int], NEW from \in Accounts
  PROVE  /\ BuyGas(m, from) \in [Cells -> Int] /\ SameSlots(m, BuyGas(m, from))
         /\ Add(BuyGas(m, from), Nonce(from), 1) \in [Cells -> Int]
         /\ SameSlots(m, Add(BuyGas(m, from), Nonce(from), 1))
  <1>1. Balance(from) \in Others /\ Nonce(from) \in Others /\ -GasLimit \in Int /\ 1 \in Int
    BY CellFacts, StateAssumption
  <1> DEFINE n == BuyGas(m, from)
  <1>2. n \in [Cells -> Int] /\ SameSlots(m, n)
    BY <1>1, AddFacts DEF BuyGas
  <1> HIDE DEF n
  <1>3. Add(n, Nonce(from), 1) \in [Cells -> Int] /\ SameSlots(n, Add(n, Nonce(from), 1))
    BY <1>1, <1>2, AddFacts
  <1> QED BY <1>2, <1>3 DEF n, SameSlots

LEMMA InvBeginCall ==
  ASSUME Inv, NEW from \in Senders, NEW to \in Accounts, NEW v \in Amounts,
         BeginCall(from, to, v)
  PROVE  Inv'
  <1> DEFINE s1 == PreChecked(from)
             r1 == [s1 EXCEPT !.db = BuyGas(@, from)]
             s2 == SetCodeBalanceNonce(r1, to)
             r2 == [s2 EXCEPT !.db = Add(@, Nonce(from), 1)]
             s3 == Touch(r2, Nonce(from))
             w  == Add(BuyGas(world, from), Nonce(from), 1)
             f  == [kind |-> "CALL", from |-> from, to |-> to, self |-> to,
                    readOnly |-> FALSE, runs |-> s3.db[Code(to)] # 0, gone |-> {},
                    db |-> s3.db, touched |-> s3.touched, world |-> w]
             s4 == [s3 EXCEPT !.db = Transfer(@, from, to, v)]
  <1>1. Idle /\ Enter(s4, f, Transfer(w, from, to, v))
    BY Zenon DEF BeginCall
  <1>2. from \in Accounts /\ v \in Int /\ Nonce(from) \in Others /\ Nonce(from) \in Cells /\ 1 \in Int
    BY EvmAssumption, CellFacts, SlotFacts
  <1>3. w \in [Cells -> Int] /\ SameSlots(world, w)
    BY <1>2, GasFacts, TypeFacts DEF Inv
  <1> HIDE DEF w
  <1>4. Transfer(w, from, to, v) \in [Cells -> Int] /\ SameSlots(w, Transfer(w, from, to, v))
    BY <1>2, <1>3, TransferFacts
  <1>5. s1 \in State /\ SameStorage(acct, s1)
    BY <1>2, PreCheckedFacts
  <1> HIDE DEF s1
  <1>6. r1 \in State /\ SameStorage(s1, r1)
    <2>1. s1.db \in [Cells -> Int]
      BY <1>5 DEF State
    <2>2. BuyGas(s1.db, from) \in [Cells -> Int] /\ SameSlots(s1.db, BuyGas(s1.db, from))
      BY <1>2, <2>1, GasFacts
    <2> QED BY <1>5, <2>2, NewDb
  <1> HIDE DEF r1
  <1>7. s2 \in State /\ SameStorage(r1, s2)
    BY <1>6, SetCodeBalanceNonceFacts
  <1> HIDE DEF s2
  <1>8. r2 \in State /\ SameStorage(s2, r2)
    <2>1. s2.db \in [Cells -> Int]
      BY <1>7 DEF State
    <2>2. Add(s2.db, Nonce(from), 1) \in [Cells -> Int] /\ SameSlots(s2.db, Add(s2.db, Nonce(from), 1))
      BY <1>2, <2>1, AddFacts
    <2> QED BY <1>7, <2>2, NewDb
  <1> HIDE DEF r2
  <1>9. s3 \in State /\ SameStorage(r2, s3)
    BY <1>2, <1>8, TouchFacts
  <1> HIDE DEF s3
  <1>10. SameStorage(acct, s3)
    BY <1>5, <1>6, <1>7, <1>8, <1>9, SameStorageTrans
  <1>11. s3.db \in [Cells -> Int] /\ s3.touched \in Map
    BY <1>9 DEF State
  <1>12. s4 \in State /\ SameStorage(s3, s4)
    <2>1. Transfer(s3.db, from, to, v) \in [Cells -> Int] /\ SameSlots(s3.db, Transfer(s3.db, from, to, v))
      BY <1>2, <1>11, TransferFacts
    <2> QED BY <1>9, <2>1, NewDb
  <1>13. f \in Frame /\ f.world = w /\ f.touched = s3.touched
    <2> DEFINE no == FALSE
               b == s3.db[Code(to)] # 0
    <2>1. no \in BOOLEAN /\ b \in BOOLEAN
      OBVIOUS
    <2> HIDE DEF no, b
    <2>2. ASSUME NEW p \in BOOLEAN, NEW q \in BOOLEAN
          PROVE  [kind |-> "CALL", from |-> from, to |-> to, self |-> to,
                  readOnly |-> p, runs |-> q, gone |-> {},
                  db |-> s3.db, touched |-> s3.touched, world |-> w] \in Frame
      BY <1>2, <1>3, <1>11 DEF Frame, CallKinds
    <2>3. f \in Frame
      BY <2>1, <2>2, Zenon DEF no, b
    <2> QED BY <2>3
  <1> HIDE DEF f, s4
  <1>14. SameStorage(acct, s4)
    BY <1>10, <1>12, SameStorageTrans
  <1>15. SameSlots(world, Transfer(w, from, to, v))
    BY <1>3, <1>4 DEF SameSlots
  <1>16. SameSlots(acct.touched, f.touched)
    BY <1>10, <1>13 DEF SameStorage
  <1> QED BY <1>1, <1>3, <1>4, <1>12, <1>13, <1>14, <1>15, <1>16, InvEnter

LEMMA InvBeginCreate ==
  ASSUME Inv, NEW from \in Senders, NEW to \in Fresh, NEW v \in Amounts,
         BeginCreate(from, to, v)
  PROVE  Inv'
  <1> DEFINE s1 == PreChecked(from)
             s2 == [s1 EXCEPT !.db = Add(BuyGas(@, from), Nonce(from), 1)]
             w  == Add(BuyGas(world, from), Nonce(from), 1)
             f  == [kind |-> "CREATE", from |-> from, to |-> to, self |-> to,
                    readOnly |-> FALSE, runs |-> TRUE, gone |-> {},
                    db |-> s2.db, touched |-> s2.touched, world |-> w]
             made(m) == Transfer(Create(m, to), from, to, v)
             s3 == [s2 EXCEPT !.db = made(@)]
  <1>1. Idle /\ Enter(s3, f, made(w))
    BY Zenon DEF BeginCreate
  <1>2. from \in Accounts /\ to \in Accounts /\ v \in Int
    BY EvmAssumption
  <1>3. w \in [Cells -> Int] /\ SameSlots(world, w)
    BY <1>2, GasFacts, TypeFacts DEF Inv
  <1> HIDE DEF w
  <1>4. ASSUME NEW m \in [Cells -> Int]
        PROVE  made(m) \in [Cells -> Int] /\ SameSlots(m, made(m))
    <2> DEFINE n == Create(m, to)
    <2>1. n \in [Cells -> Int] /\ SameSlots(m, n)
      BY <1>2, CreateFacts
    <2> HIDE DEF n
    <2>2. Transfer(n, from, to, v) \in [Cells -> Int] /\ SameSlots(n, Transfer(n, from, to, v))
      BY <1>2, <2>1, TransferFacts
    <2> QED BY <2>1, <2>2 DEF n, SameSlots
  <1> HIDE DEF made
  <1>5. s1 \in State /\ SameStorage(acct, s1)
    BY <1>2, PreCheckedFacts
  <1> HIDE DEF s1
  <1>6. s2 \in State /\ SameStorage(s1, s2)
    <2>1. s1.db \in [Cells -> Int]
      BY <1>5 DEF State
    <2>2. /\ Add(BuyGas(s1.db, from), Nonce(from), 1) \in [Cells -> Int]
          /\ SameSlots(s1.db, Add(BuyGas(s1.db, from), Nonce(from), 1))
      BY <1>2, <2>1, GasFacts
    <2> QED BY <1>5, <2>2, NewDb
  <1> HIDE DEF s2
  <1>7. s2.db \in [Cells -> Int] /\ s2.touched \in Map
    BY <1>6 DEF State
  <1>8. s3 \in State /\ SameStorage(s2, s3)
    BY <1>4, <1>6, <1>7, NewDb
  <1>9. f \in Frame /\ f.world = w /\ f.touched = s2.touched
    <2> DEFINE no == FALSE
               yes == TRUE
    <2>1. no \in BOOLEAN /\ yes \in BOOLEAN
      OBVIOUS
    <2> HIDE DEF no, yes
    <2>2. ASSUME NEW p \in BOOLEAN, NEW q \in BOOLEAN
          PROVE  [kind |-> "CREATE", from |-> from, to |-> to, self |-> to,
                  readOnly |-> p, runs |-> q, gone |-> {},
                  db |-> s2.db, touched |-> s2.touched, world |-> w] \in Frame
      BY <1>2, <1>3, <1>7 DEF Frame, CreateKinds
    <2>3. f \in Frame
      BY <2>1, <2>2, Zenon DEF no, yes
    <2> QED BY <2>3
  <1> HIDE DEF f, s3
  <1>10. SameStorage(acct, s3) /\ SameStorage(acct, s2)
    BY <1>5, <1>6, <1>8, SameStorageTrans
  <1>11. made(w) \in [Cells -> Int] /\ SameSlots(world, made(w))
    BY <1>3, <1>4 DEF SameSlots
  <1>12. SameSlots(acct.touched, f.touched)
    BY <1>9, <1>10 DEF SameStorage
  <1> QED BY <1>1, <1>3, <1>8, <1>9, <1>10, <1>11, <1>12, InvEnter

(***************************************************************************)
(* Instructions.                                                            *)
(***************************************************************************)
LEMMA RunningFacts ==
  ASSUME Inv, Running
  PROVE  /\ acct \in State /\ world \in [Cells -> Int] /\ Top \in Frame
         /\ Top.self \in Accounts /\ Top.readOnly \in BOOLEAN
         /\ gone \in SUBSET Accounts
         /\ ~undone => Exact(acct, world, start)
  <1>1. acct \in State /\ world \in [Cells -> Int] /\ Top \in Frame
    BY TypeFacts DEF Inv, Running
  <1>2. Top.self \in Accounts /\ Top.readOnly \in BOOLEAN
    BY <1>1 DEF Frame
  <1> QED BY <1>1, <1>2 DEF Inv, TypeOK, StorageInv

\* An instruction that leaves storage alone.
LEMMA InvKept ==
  ASSUME Inv, Running, NEW s \in State, NEW w \in [Cells -> Int], Step(s, w),
         SameStorage(acct, s), SameSlots(world, w)
  PROVE  Inv'
  <1>1. ~undone => Exact(s, w, start)
    BY RunningFacts, ExactKept DEF SameSlots
  <1> QED BY <1>1, InvStep

LEMMA InvSload ==
  ASSUME Inv, NEW k \in Keys, Sload(k)
  PROVE  Inv'
  <1> DEFINE c == Storage(Top.self, k)
             s == SloadHook(acct, c)
             t == Fetch(acct, c)
  <1>1. Running /\ Step(s, world)
    BY DEF Sload
  <1>2. acct \in State /\ world \in [Cells -> Int] /\ (~undone => Exact(acct, world, start))
    BY <1>1, RunningFacts
  <1>3. c \in Slots /\ c \in Cells
    BY <1>1, RunningFacts, CellFacts, SlotFacts
  <1> HIDE DEF c
  <1>4. CASE acct.touched[c] = Absent
    <2>1. /\ t \in State /\ t.db = [acct.db EXCEPT ![c] = Chain[c]]
          /\ t.committed = [acct.committed EXCEPT ![c] = Chain[c]]
          /\ t.touched = acct.touched
      BY <1>2, <1>3, FetchFacts
    <2>2. s = Touch(t, c)
      BY <1>4 DEF SloadHook
    <2> HIDE DEF s, t
    <2>3. /\ s \in State /\ s.db = t.db /\ s.committed = t.committed
          /\ s.touched = [t.touched EXCEPT ![c] = t.db[c]]
      BY <1>3, <2>1, <2>2, TouchFacts
    <2>4. acct.db \in [Cells -> Int] /\ acct.touched \in Map /\ acct.committed \in Map
      BY <1>2 DEF State
    <2>5. /\ s.db[c] = Chain[c] /\ s.touched[c] = Chain[c] /\ s.committed[c] = Chain[c]
          /\ \A d \in Slots : d # c => /\ s.db[d] = acct.db[d]
                                       /\ s.touched[d] = acct.touched[d]
                                       /\ s.committed[d] = acct.committed[d]
      BY <1>3, <2>1, <2>3, <2>4, SlotFacts DEF Map
    <2>6. Chain[c] # Absent
      BY <1>3, StateAssumption, EvmAssumption
    <2>7. ~undone => Exact(s, world, start)
      <3> SUFFICES ASSUME ~undone, NEW d \in Slots
                   PROVE  IF s.touched[d] = Absent THEN world[d] = Chain[d] /\ start[d] = Chain[d]
                          ELSE s.db[d] = world[d] /\ s.touched[d] = world[d] /\ s.committed[d] = start[d]
        BY DEF Exact
      <3>1. /\ acct.touched[d] = Absent => world[d] = Chain[d] /\ start[d] = Chain[d]
            /\ acct.touched[d] # Absent => /\ acct.db[d] = world[d] /\ acct.touched[d] = world[d]
                                           /\ acct.committed[d] = start[d]
        BY <1>2 DEF Exact
      <3> QED BY <1>4, <2>5, <2>6, <3>1
    <2> QED BY <1>1, <1>2, <2>3, <2>7, InvStep
  <1>5. CASE acct.touched[c] # Absent
    <2>1. s = acct
      BY <1>5 DEF SloadHook
    <2> QED BY <1>1, <1>2, <2>1, InvStep
  <1> QED BY <1>4, <1>5

\* The hook alone, which also runs before an SSTORE that is refused.
LEMMA SstoreHookFacts ==
  ASSUME NEW s \in State, NEW c \in Cells
  PROVE  /\ SstoreHook(s, c) \in State
         /\ SstoreHook(s, c).touched = s.touched
         /\ \A d \in Cells : d # c => /\ SstoreHook(s, c).db[d] = s.db[d]
                                      /\ SstoreHook(s, c).committed[d] = s.committed[d]
         /\ SstoreHook(s, c).committed[c]
              = IF s.touched[c] = Absent THEN Chain[c] ELSE s.committed[c]
  <1>1. s.db \in [Cells -> Int] /\ s.committed \in Map
    BY DEF State
  <1>2. CASE s.touched[c] = Absent
    <2>1. SstoreHook(s, c) = Fetch(s, c)
      BY <1>2 DEF SstoreHook
    <2> DEFINE t == Fetch(s, c)
    <2>2. /\ t \in State /\ t.db = [s.db EXCEPT ![c] = Chain[c]]
          /\ t.committed = [s.committed EXCEPT ![c] = Chain[c]]
          /\ t.touched = s.touched
      BY FetchFacts
    <2> HIDE DEF t
    <2>3. \A d \in Cells : d # c => t.db[d] = s.db[d] /\ t.committed[d] = s.committed[d]
      BY <1>1, <2>2 DEF Map
    <2>4. t.committed[c] = Chain[c]
      BY <1>1, <2>2 DEF Map
    <2>5. SstoreHook(s, c) = t
      BY <2>1 DEF t
    <2> QED BY <1>2, <2>2, <2>3, <2>4, <2>5
  <1>3. CASE s.touched[c] # Absent
    BY <1>3 DEF SstoreHook
  <1> QED BY <1>2, <1>3

LEMMA InvSstore ==
  ASSUME Inv, NEW k \in Keys, NEW v \in Values, Sstore(k, v)
  PROVE  Inv'
  <1> DEFINE c == Storage(Top.self, k)
             s == SstoreHook(acct, c)
             t == [s EXCEPT !.db[c] = v, !.touched[c] = v]
             w == Put(world, c, v)
  <1>1. Running /\ Step(t, w)
    BY DEF Sstore
  <1>2. acct \in State /\ world \in [Cells -> Int] /\ (~undone => Exact(acct, world, start))
    BY <1>1, RunningFacts
  <1>3. c \in Slots /\ c \in Cells
    BY <1>1, RunningFacts, CellFacts, SlotFacts
  <1>4. v \in Int /\ v # Absent
    BY EvmAssumption
  <1> HIDE DEF c
  <1>5. /\ s \in State /\ s.touched = acct.touched
        /\ \A d \in Cells : d # c => s.db[d] = acct.db[d] /\ s.committed[d] = acct.committed[d]
        /\ s.committed[c] = IF acct.touched[c] = Absent THEN Chain[c] ELSE acct.committed[c]
    BY <1>2, <1>3, SstoreHookFacts
  <1> HIDE DEF s
  <1>6. s.db \in [Cells -> Int] /\ s.touched \in Map /\ s.committed \in Map
    BY <1>5 DEF State
  <1>7. /\ t \in State /\ t.db = [s.db EXCEPT ![c] = v]
        /\ t.touched = [s.touched EXCEPT ![c] = v] /\ t.committed = s.committed
    BY <1>3, <1>4, <1>5 DEF State, Map
  <1>8. w \in [Cells -> Int] /\ w[c] = v /\ \A d \in Cells : d # c => w[d] = world[d]
    BY <1>2, <1>3, <1>4 DEF Put
  <1> HIDE DEF t, w
  <1>9. /\ t.db[c] = v /\ t.touched[c] = v
        /\ \A d \in Cells : d # c => /\ t.db[d] = acct.db[d] /\ t.touched[d] = acct.touched[d]
                                     /\ t.committed[d] = acct.committed[d]
    BY <1>3, <1>5, <1>6, <1>7 DEF Map
  <1>10. ~undone => Exact(t, w, start)
    <2> SUFFICES ASSUME ~undone, NEW d \in Slots
                 PROVE  IF t.touched[d] = Absent THEN w[d] = Chain[d] /\ start[d] = Chain[d]
                        ELSE t.db[d] = w[d] /\ t.touched[d] = w[d] /\ t.committed[d] = start[d]
      BY DEF Exact
    <2>1. d \in Cells
      BY SlotFacts
    <2>2. /\ acct.touched[d] = Absent => world[d] = Chain[d] /\ start[d] = Chain[d]
          /\ acct.touched[d] # Absent => /\ acct.db[d] = world[d] /\ acct.touched[d] = world[d]
                                         /\ acct.committed[d] = start[d]
      BY <1>2 DEF Exact
    <2> QED BY <1>4, <1>5, <1>7, <1>8, <1>9, <2>1, <2>2
  <1> QED BY <1>1, <1>7, <1>8, <1>10, InvStep

LEMMA InvReadBalance ==
  ASSUME Inv, NEW a \in Accounts, ReadBalance(a)
  PROVE  Inv'
  <1>1. Running /\ Step(CheckAndSet(acct, Balance(a)), world)
    BY DEF ReadBalance
  <1>2. acct \in State /\ world \in [Cells -> Int] /\ Balance(a) \in Others
    BY <1>1, RunningFacts, CellFacts
  <1>3. CheckAndSet(acct, Balance(a)) \in State /\ SameStorage(acct, CheckAndSet(acct, Balance(a)))
    BY <1>2, CheckAndSetFacts
  <1>4. SameSlots(world, world)
    BY DEF SameSlots
  <1> QED BY <1>1, <1>2, <1>3, <1>4, InvKept

LEMMA InvReadCode ==
  ASSUME Inv, NEW a \in Accounts, ReadCode(a)
  PROVE  Inv'
  <1>1. Running /\ Step(CheckAndSetCode(acct, Code(a)), world)
    BY DEF ReadCode
  <1>2. acct \in State /\ world \in [Cells -> Int] /\ Code(a) \in Codes
    BY <1>1, RunningFacts, CellFacts
  <1>3. CheckAndSetCode(acct, Code(a)) \in State /\ SameStorage(acct, CheckAndSetCode(acct, Code(a)))
    BY <1>2, CheckAndSetCodeFacts
  <1>4. SameSlots(world, world)
    BY DEF SameSlots
  <1> QED BY <1>1, <1>2, <1>3, <1>4, InvKept

LEMMA SendFacts ==
  ASSUME NEW m \in [Cells -> Int], NEW kind, NEW a \in Accounts, NEW b \in Accounts, NEW v \in Int
  PROVE  LET n == IF kind = "CALL" THEN Transfer(m, a, b, v) ELSE m
         IN  n \in [Cells -> Int] /\ SameSlots(m, n)
  BY TransferFacts DEF SameSlots

LEMMA InvCall ==
  ASSUME Inv, NEW kind \in CallKinds, NEW to \in Accounts, NEW v \in Amounts, Call(kind, to, v)
  PROVE  Inv'
  <1> DEFINE s == SetCodeBalanceNonce(acct, to)
             send(m) == IF kind = "CALL" THEN Transfer(m, Top.self, to, v) ELSE m
             f == [kind |-> kind, from |-> Top.self, to |-> to,
                   self |-> Self(kind, Top.self, to),
                   readOnly |-> Top.readOnly \/ kind = "STATICCALL",
                   runs |-> s.db[Code(to)] # 0, gone |-> gone,
                   db |-> s.db, touched |-> s.touched, world |-> world]
             t == [s EXCEPT !.db = send(@)]
  <1>1. /\ Running
        /\ IF Len(frames) < MaxDepth /\ v <= s.db[Balance(Top.self)]
             THEN Push(t, f, send(world))
             ELSE Step(AfterCall(s, f), world)
    BY Zenon DEF Call
  <1>2. /\ acct \in State /\ world \in [Cells -> Int] /\ Top.self \in Accounts
        /\ gone \in SUBSET Accounts /\ v \in Int
    BY <1>1, RunningFacts, EvmAssumption
  <1>3. s \in State /\ SameStorage(acct, s)
    BY <1>2, SetCodeBalanceNonceFacts
  <1> HIDE DEF s
  <1>4. s.db \in [Cells -> Int] /\ s.touched \in Map
    BY <1>3 DEF State
  <1>5. ASSUME NEW m \in [Cells -> Int]
        PROVE  send(m) \in [Cells -> Int] /\ SameSlots(m, send(m))
    BY <1>2, SendFacts, Zenon
  <1>6. Self(kind, Top.self, to) \in Accounts
    BY <1>2 DEF Self
  <1>7. f \in Frame
    <2> DEFINE x == Self(kind, Top.self, to)
               y == Top.self
               p == Top.readOnly \/ kind = "STATICCALL"
               q == s.db[Code(to)] # 0
    <2>1. p \in BOOLEAN /\ q \in BOOLEAN /\ x \in Accounts /\ y \in Accounts
      BY <1>2, <1>6
    <2> HIDE DEF p, q, x, y
    <2>2. [kind |-> kind, from |-> y, to |-> to, self |-> x, readOnly |-> p, runs |-> q,
           gone |-> gone, db |-> s.db, touched |-> s.touched, world |-> world] \in Frame
      BY <1>2, <1>4, <2>1 DEF Frame
    <2> QED BY <2>2, Zenon DEF p, q, x, y
  <1>8. f.from \in Accounts /\ f.to \in Accounts /\ f.kind \in CallKinds \cup CreateKinds
    <2> HIDE DEF f
    <2> QED BY <1>7 DEF Frame
  <1> HIDE DEF f, send
  <1>9. t \in State /\ SameStorage(s, t)
    BY <1>3, <1>4, <1>5, NewDb
  <1> HIDE DEF t
  <1>10. CASE Len(frames) < MaxDepth /\ v <= s.db[Balance(Top.self)]
    <2>1. Push(t, f, send(world))
      BY <1>1, <1>10, Zenon
    <2>2. SameStorage(acct, t)
      BY <1>3, <1>9, SameStorageTrans
    <2>3. send(world) \in [Cells -> Int] /\ SameSlots(world, send(world))
      BY <1>2, <1>5
    <2>4. ~undone => Exact(t, send(world), start)
      BY <1>1, <2>2, <2>3, RunningFacts, ExactKept DEF SameSlots
    <2> QED BY <1>1, <1>7, <1>9, <1>10, <2>1, <2>3, <2>4, InvPush
  <1>11. CASE ~ (Len(frames) < MaxDepth /\ v <= s.db[Balance(Top.self)])
    <2>1. Step(AfterCall(s, f), world)
      BY <1>1, <1>11, Zenon
    <2>2. AfterCall(s, f) \in State /\ SameStorage(s, AfterCall(s, f))
      BY <1>3, <1>8, AfterCallFacts
    <2>3. SameStorage(acct, AfterCall(s, f)) /\ SameSlots(world, world)
      BY <1>3, <2>2, SameStorageTrans DEF SameSlots
    <2> QED BY <1>1, <1>2, <2>1, <2>2, <2>3, InvKept
  <1> QED BY <1>10, <1>11

LEMMA InvCreateContract ==
  ASSUME Inv, NEW kind \in CreateKinds, NEW to \in Fresh, NEW v \in Amounts,
         CreateContract(kind, to, v)
  PROVE  Inv'
  <1> DEFINE me == Top.self
             inc(m) == Add(m, Nonce(me), 1)
             f == [kind |-> kind, from |-> me, to |-> to, self |-> to,
                   readOnly |-> FALSE, runs |-> TRUE, gone |-> gone,
                   db |-> inc(acct.db), touched |-> acct.touched, world |-> inc(world)]
             s == [acct EXCEPT !.db = f.db]
             made(m) == Transfer(Create(m, to), me, to, v)
             t == [s EXCEPT !.db = made(@)]
             deep == Len(frames) = MaxDepth \/ v > acct.db[Balance(me)]
             taken == Taken(s.db, to)
  <1>1. /\ Running
        /\ IF deep THEN Step(AfterCall(acct, f), world)
           ELSE IF taken THEN Step(AfterCall(s, f), f.world)
           ELSE Push(t, f, made(f.world))
    BY Zenon DEF CreateContract
  <1> HIDE DEF deep, taken
  <1>2. /\ acct \in State /\ world \in [Cells -> Int] /\ me \in Accounts /\ to \in Accounts
        /\ gone \in SUBSET Accounts /\ v \in Int /\ 1 \in Int
        /\ acct.db \in [Cells -> Int] /\ acct.touched \in Map
    BY <1>1, RunningFacts, EvmAssumption DEF State
  <1> HIDE DEF me
  <1>3. ASSUME NEW m \in [Cells -> Int]
        PROVE  inc(m) \in [Cells -> Int] /\ SameSlots(m, inc(m))
    BY <1>2, CellFacts, AddFacts
  <1>4. ASSUME NEW m \in [Cells -> Int]
        PROVE  made(m) \in [Cells -> Int] /\ SameSlots(m, made(m))
    <2> DEFINE n == Create(m, to)
    <2>1. n \in [Cells -> Int] /\ SameSlots(m, n)
      BY <1>2, CreateFacts
    <2> HIDE DEF n
    <2>2. Transfer(n, me, to, v) \in [Cells -> Int] /\ SameSlots(n, Transfer(n, me, to, v))
      BY <1>2, <2>1, TransferFacts
    <2> QED BY <2>1, <2>2 DEF n, SameSlots
  <1> HIDE DEF inc, made
  <1>5. inc(acct.db) \in [Cells -> Int] /\ inc(world) \in [Cells -> Int]
    BY <1>2, <1>3
  <1>6. f \in Frame /\ f.db = inc(acct.db) /\ f.world = inc(world)
    <2> DEFINE no == FALSE
               yes == TRUE
    <2>1. no \in BOOLEAN /\ yes \in BOOLEAN
      OBVIOUS
    <2> HIDE DEF no, yes
    <2>2. ASSUME NEW p \in BOOLEAN, NEW q \in BOOLEAN
          PROVE  [kind |-> kind, from |-> me, to |-> to, self |-> to,
                  readOnly |-> p, runs |-> q, gone |-> gone,
                  db |-> inc(acct.db), touched |-> acct.touched, world |-> inc(world)] \in Frame
      BY <1>2, <1>5 DEF Frame
    <2>3. f \in Frame
      BY <2>1, <2>2, Zenon DEF no, yes
    <2> QED BY <2>3
  <1>7. f.from \in Accounts /\ f.to \in Accounts /\ f.kind \in CallKinds \cup CreateKinds
    <2> HIDE DEF f
    <2> QED BY <1>6 DEF Frame
  <1> HIDE DEF f
  <1>8. s \in State /\ SameStorage(acct, s)
    BY <1>2, <1>3, <1>5, <1>6, NewDb
  <1> HIDE DEF s
  <1>9. s.db \in [Cells -> Int]
    BY <1>8 DEF State
  <1>10. t \in State /\ SameStorage(s, t)
    BY <1>4, <1>8, <1>9, NewDb
  <1> HIDE DEF t
  <1>11. f.world \in [Cells -> Int] /\ SameSlots(world, f.world)
    BY <1>2, <1>3, <1>6
  <1>12. CASE deep
    <2>1. AfterCall(acct, f) \in State /\ SameStorage(acct, AfterCall(acct, f))
      BY <1>2, <1>7, AfterCallFacts
    <2>2. Step(AfterCall(acct, f), world) /\ SameSlots(world, world)
      BY <1>1, <1>12 DEF SameSlots
    <2> QED BY <1>1, <1>2, <2>1, <2>2, InvKept
  <1>13. CASE ~deep /\ taken
    <2>1. AfterCall(s, f) \in State /\ SameStorage(s, AfterCall(s, f))
      BY <1>7, <1>8, AfterCallFacts
    <2>2. Step(AfterCall(s, f), f.world)
      BY <1>1, <1>13
    <2>3. SameStorage(acct, AfterCall(s, f))
      BY <1>8, <2>1, SameStorageTrans
    <2> QED BY <1>1, <1>11, <2>1, <2>2, <2>3, InvKept
  <1>14. CASE ~deep /\ ~taken
    <2>1. Push(t, f, made(f.world))
      BY <1>1, <1>14
    <2>2. Len(frames) < MaxDepth
      <3>1. Len(frames) \in Nat /\ MaxDepth \in Nat /\ Len(frames) <= MaxDepth
        BY TypeFacts DEF Inv, TypeOK
      <3>2. Len(frames) # MaxDepth
        BY <1>14 DEF deep
      <3> QED BY <3>1, <3>2
    <2>3. SameStorage(acct, t)
      BY <1>8, <1>10, SameStorageTrans
    <2>4. made(f.world) \in [Cells -> Int] /\ SameSlots(world, made(f.world))
      BY <1>4, <1>11 DEF SameSlots
    <2>5. ~undone => Exact(t, made(f.world), start)
      BY <1>1, <2>3, <2>4, RunningFacts, ExactKept DEF SameSlots
    <2> QED BY <1>1, <1>6, <1>10, <2>1, <2>2, <2>4, <2>5, InvPush
  <1> QED BY <1>12, <1>13, <1>14

LEMMA StopFrame ==
  ASSUME NEW q \in Seq(Frame), Len(q) > 0
  PROVE  LET r == [q EXCEPT ![Len(q)].runs = FALSE]
         IN  r \in Seq(Frame) /\ Len(r) = Len(q) /\ r # <<>>
  <1> DEFINE f == [q[Len(q)] EXCEPT !.runs = FALSE]
             no == FALSE
  <1>1. q[Len(q)] \in Frame /\ Len(q) \in DOMAIN q
    OBVIOUS
  <1>2. no \in BOOLEAN
    OBVIOUS
  <1>3. ASSUME NEW e \in Frame, NEW p \in BOOLEAN
        PROVE  [e EXCEPT !.runs = p] \in Frame
    BY DEF Frame
  <1> HIDE DEF no
  <1>4. f \in Frame
    BY <1>1, <1>2, <1>3, Zenon DEF no
  <1> HIDE DEF f
  <1>5. /\ [q EXCEPT ![Len(q)] = f] \in Seq(Frame)
        /\ Len([q EXCEPT ![Len(q)] = f]) = Len(q)
    BY <1>1, <1>4
  <1>6. [q EXCEPT ![Len(q)].runs = FALSE] = [q EXCEPT ![Len(q)] = f]
    BY Zenon DEF f
  <1>7. [q EXCEPT ![Len(q)] = f] # <<>>
    BY <1>5
  <1> QED BY <1>5, <1>6, <1>7

LEMMA InvSelfdestruct ==
  ASSUME Inv, NEW to \in Accounts, Selfdestruct(to)
  PROVE  Inv'
  <1> DEFINE me == Top.self
             r == [acct EXCEPT !.db = Destruct(@, me, to)]
             s == [acct EXCEPT !.db = Destruct(@, me, to),
                               !.touched = AppendCode(@, Code(me), acct.db[Code(me)])]
             t == Touch(Touch(s, Balance(me)), Balance(to))
             now == lost \cup Losses(acct, t, frames)
             lostTo == IF Balance(me) \in now THEN {Balance(to)} ELSE {}
  <1>1. /\ Running /\ acct' = t /\ world' = Destruct(world, me, to) /\ ops' = ops + 1
        /\ frames' = [frames EXCEPT ![Len(frames)].runs = FALSE]
        /\ gone' = gone \cup {me} /\ undone' = TRUE
        /\ lost' = now \cup lostTo
        /\ phase' = phase /\ txs' = txs /\ start' = start
    BY DEF Selfdestruct
  <1>2. /\ acct \in State /\ world \in [Cells -> Int] /\ me \in Accounts
        /\ gone \in SUBSET Accounts /\ acct.db \in [Cells -> Int] /\ acct.touched \in Map
    BY <1>1, RunningFacts DEF State
  <1>3. Balance(me) \in Others /\ Balance(to) \in Others /\ Code(me) \in Codes /\ Code(me) \in Cells
    BY <1>2, CellFacts, SlotFacts
  <1> HIDE DEF me
  <1>4. s \in State
    <2> DEFINE m == Destruct(acct.db, me, to)
               n == AppendCode(acct.touched, Code(me), acct.db[Code(me)])
    <2>1. m \in [Cells -> Int]
      BY <1>2, DestructType
    <2>2. n \in Map
      BY <1>2, <1>3, AppendCodeFacts
    <2> HIDE DEF m, n
    <2>3. [acct EXCEPT !.db = m, !.touched = n] \in State
      BY <1>2, <2>1, <2>2 DEF State
    <2> QED BY <2>3, Zenon DEF m, n
  <1> HIDE DEF s
  <1>5. t \in State
    BY <1>3, <1>4, TouchBoth
  <1> HIDE DEF t
  <1>6. world' \in [Cells -> Int]
    BY <1>1, <1>2, DestructType
  <1>7. lost' \in SUBSET Cells
    <2>1. lost \subseteq Cells
      BY DEF Inv, TypeOK
    <2>2. Losses(acct, t, frames) \subseteq Cells
      BY LossesType
    <2>3. lostTo \subseteq Cells
      BY <1>3, SlotFacts
    <2> QED BY <1>1, <2>1, <2>2, <2>3
  <1>8. frames \in Seq(Frame) /\ Len(frames) > 0 /\ phase = "tx" /\ Len(frames) <= MaxDepth
    BY <1>1, TypeFacts DEF Inv, TypeOK, Running
  <1>9. frames' \in Seq(Frame) /\ Len(frames') = Len(frames) /\ frames' # <<>>
    <2> DEFINE q == [frames EXCEPT ![Len(frames)].runs = FALSE]
    <2>1. q \in Seq(Frame) /\ Len(q) = Len(frames) /\ q # <<>>
      BY <1>8, StopFrame
    <2> HIDE DEF q
    <2> QED BY <1>1, <2>1 DEF q
  <1>10. ops' \in 0..MaxOps
    <2>1. ops \in 0..MaxOps /\ MaxOps \in Nat /\ ops < MaxOps
      BY <1>1, TypeFacts DEF Inv, TypeOK, Running
    <2> QED BY <1>1, <2>1
  <1>11. gone' \in SUBSET Accounts /\ undone' \in BOOLEAN
    BY <1>1, <1>2
  <1>12. TypeOK'
    BY <1>1, <1>5, <1>6, <1>7, <1>8, <1>9, <1>10, <1>11 DEF Inv, TypeOK, State
  <1>13. StorageInv'
    BY <1>1 DEF StorageInv
  <1> QED BY <1>12, <1>13 DEF Inv

(***************************************************************************)
(* The end of a frame and of a transaction.                                 *)
(***************************************************************************)
LEMMA InvEndCall ==
  ASSUME Inv, NEW ok \in BOOLEAN, EndCall(ok)
  PROVE  Inv'
  <1>1. Leave(acct, ok)
    BY DEF EndCall
  <1>2. acct \in State
    BY TypeFacts DEF Inv
  <1>3. SameStorage(acct, acct)
    BY <1>2 DEF SameStorage, SameSlots
  <1> QED BY <1>1, <1>2, <1>3, InvLeave

LEMMA InvFails ==
  ASSUME Inv, NEW s \in State, Leave(s, FALSE)
  PROVE  Inv'
  <1> DEFINE no == FALSE
  <1>1. no \in BOOLEAN /\ Leave(s, no) /\ ~no
    BY Zenon
  <1> HIDE DEF no
  <1> QED BY <1>1, InvLeave

LEMMA InvSstoreProtected ==
  ASSUME Inv, NEW k \in Keys, SstoreProtected(k)
  PROVE  Inv'
  <1> DEFINE s == SstoreHook(acct, Storage(Top.self, k))
  <1>1. Running /\ Leave(s, FALSE)
    BY Zenon DEF SstoreProtected
  <1>2. acct \in State /\ Top.self \in Accounts
    BY <1>1, RunningFacts
  <1>3. Storage(Top.self, k) \in Cells
    BY <1>2, CellFacts, SlotFacts
  <1>4. s \in State
    BY <1>2, <1>3, SstoreHookFacts
  <1> HIDE DEF s
  <1> QED BY <1>1, <1>4, InvFails, Zenon

LEMMA InvCallProtected ==
  ASSUME Inv, NEW to \in Accounts, CallProtected(to)
  PROVE  Inv'
  <1> DEFINE s == SetCodeBalanceNonce(acct, to)
  <1>1. Running /\ Leave(s, FALSE)
    BY Zenon DEF CallProtected
  <1>2. s \in State
    BY <1>1, RunningFacts, SetCodeBalanceNonceFacts
  <1> HIDE DEF s
  <1> QED BY <1>1, <1>2, InvFails, Zenon

LEMMA InvTxPanics ==
  ASSUME Inv, TxPanics
  PROVE  Inv'
  <1>1. /\ phase' = "panicked" /\ frames' = <<>> /\ acct' = acct /\ gone' = gone /\ txs' = txs
        /\ ops' = ops /\ world' = world /\ start' = start /\ lost' = lost /\ undone' = undone
    BY DEF TxPanics
  <1>2. frames' \in Seq(Frame) /\ Len(frames') = 0 /\ 0 <= MaxDepth
    BY <1>1, TypeFacts DEF Inv
  <1>3. TypeOK'
    BY <1>1, <1>2 DEF Inv, TypeOK
  <1>4. StorageInv'
    BY <1>1 DEF Inv, StorageInv
  <1> QED BY <1>3, <1>4 DEF Inv

\* The call returned to TransitionDbTrace: an error brings the storage of the StateDB back to
\* what the frame saved, the AccountState follows in RevertAccountState.
LEMMA ReturnedFacts ==
  ASSUME Inv, phase = "tx", NEW ok \in BOOLEAN
  PROVE  /\ Returned(ok) \in State
         /\ SameSlots(acct.touched, Returned(ok).touched)
         /\ SameSlots(acct.committed, Returned(ok).committed)
         /\ ok => SameStorage(acct, Returned(ok))
  <1> DEFINE f == Top
             m == Left(ok, f, acct.db, f.db)
             t == [acct EXCEPT !.db = m]
             u == [t EXCEPT !.touched = AppendCode(@, Code(f.to), t.db[Code(f.to)])]
  <1>1. Returned(ok) = IF f.kind = "CREATE" THEN u ELSE t
    BY Zenon DEF Returned
  <1>2. acct \in State /\ f \in Frame
    BY TypeFacts DEF Inv
  <1>3. acct.db \in [Cells -> Int]
    BY <1>2 DEF State
  <1> HIDE DEF f
  <1>4. f.db \in [Cells -> Int] /\ f.to \in Accounts
    BY <1>2 DEF Frame
  <1>5. m \in [Cells -> Int] /\ (ok => SameSlots(acct.db, m))
    BY <1>2, <1>3, <1>4, LeftFacts
  <1> HIDE DEF m
  <1>6. /\ t \in State /\ t.touched = acct.touched /\ t.committed = acct.committed
        /\ ok => SameStorage(acct, t)
    BY <1>2, <1>5, NewDb
  <1> HIDE DEF t
  <1>7. u \in State /\ SameStorage(t, u)
    BY <1>4, <1>6, TouchCode
  <1> HIDE DEF u
  <1>8. CASE f.kind = "CREATE"
    <2>1. Returned(ok) = u
      BY <1>1, <1>8
    <2>2. SameSlots(acct.touched, u.touched) /\ SameSlots(acct.committed, u.committed)
      BY <1>6, <1>7 DEF SameStorage
    <2>3. ok => SameStorage(acct, u)
      BY <1>6, <1>7, SameStorageTrans
    <2> QED BY <1>7, <2>1, <2>2, <2>3
  <1>9. CASE f.kind # "CREATE"
    <2>1. Returned(ok) = t
      BY <1>1, <1>9
    <2> QED BY <1>6, <2>1 DEF SameSlots
  <1> QED BY <1>8, <1>9

\* A failed transaction leaves the storage with which it entered the EVM.
LEMMA RevertExact ==
  ASSUME Exact(acct, world, start), start \in [Cells -> Int], NEW f, Entered(f, start),
         f.touched \in Map, NEW s \in State, SameSlots(acct.touched, s.touched),
         SameSlots(acct.committed, s.committed)
  PROVE  Exact(RevertAccountState(s, f.touched), f.world, start)
  <1> DEFINE t == RevertAccountState(s, f.touched)
             back(c) == IF f.touched[c] # Absent THEN f.touched[c]
                        ELSE IF s.committed[c] # Absent THEN s.committed[c] ELSE 0
  <1>1. /\ t.committed = s.committed
        /\ \A c \in Slots : IF s.touched[c] = Absent THEN t.touched[c] = Absent
                            ELSE t.touched[c] = back(c) /\ t.db[c] = back(c)
    <2>1. /\ t.committed = s.committed
          /\ \A c \in Cells : IF s.touched[c] = Absent \/ c \in Codes
                                THEN t.touched[c] = s.touched[c] /\ t.db[c] = s.db[c]
                                ELSE t.touched[c] = back(c) /\ t.db[c] = back(c)
      BY RevertFacts, Zenon
    <2> HIDE DEF t, back
    <2>2. ASSUME NEW c \in Slots PROVE c \in Cells /\ c \notin Codes
      BY SlotFacts
    <2> QED BY <2>1, <2>2
  <1> SUFFICES ASSUME NEW c \in Slots
               PROVE  IF t.touched[c] = Absent THEN f.world[c] = Chain[c] /\ start[c] = Chain[c]
                      ELSE /\ t.db[c] = f.world[c] /\ t.touched[c] = f.world[c]
                           /\ t.committed[c] = start[c]
    BY DEF Exact
  <1> HIDE DEF t
  <1>2. f.world[c] = start[c] /\ f.touched[c] \in {Absent, start[c]}
    BY DEF Entered
  <1>3. s.touched[c] = acct.touched[c] /\ s.committed[c] = acct.committed[c]
    BY DEF SameSlots
  <1>4. start[c] # Absent
    BY SlotFacts, EvmAssumption
  <1>5. CASE acct.touched[c] = Absent
    <2>1. t.touched[c] = Absent
      BY <1>1, <1>3, <1>5
    <2>2. start[c] = Chain[c]
      BY <1>5 DEF Exact
    <2> QED BY <1>2, <2>1, <2>2
  <1>6. CASE acct.touched[c] # Absent
    <2>1. acct.committed[c] = start[c]
      BY <1>6 DEF Exact
    <2>2. back(c) = start[c]
      BY <1>2, <1>3, <1>4, <2>1
    <2>3. t.touched[c] = back(c) /\ t.db[c] = back(c) /\ t.committed[c] = s.committed[c]
      BY <1>1, <1>3, <1>6
    <2> HIDE DEF back
    <2> QED BY <1>2, <1>3, <1>4, <2>1, <2>2, <2>3
  <1> QED BY <1>5, <1>6

\* Refund, fee and the accounts that disappear.
LEMMA SettledFacts ==
  ASSUME NEW m \in [Cells -> Int], NEW from \in Accounts, NEW used \in 1..GasLimit, NEW dead
  PROVE  LET n == Erase(Add(Add(m, Balance(from), GasLimit - used), Balance(Coinbase), used), dead)
         IN  n \in [Cells -> Int] /\ (dead = {} => SameSlots(m, n))
  <1>1. /\ Balance(from) \in Others /\ Balance(Coinbase) \in Others
        /\ used \in Int /\ GasLimit - used \in Int
    BY CellFacts, StateAssumption
  <1> DEFINE p == Add(m, Balance(from), GasLimit - used)
             q == Add(p, Balance(Coinbase), used)
  <1>2. p \in [Cells -> Int] /\ SameSlots(m, p)
    BY <1>1, AddFacts
  <1> HIDE DEF p
  <1>3. q \in [Cells -> Int] /\ SameSlots(p, q)
    BY <1>1, <1>2, AddFacts
  <1> HIDE DEF q
  <1>4. Erase(q, dead) \in [Cells -> Int] /\ (dead = {} => SameSlots(q, Erase(q, dead)))
    BY <1>3, EraseFacts
  <1>5. Erase(q, dead) \in [Cells -> Int] /\ (dead = {} => SameSlots(m, Erase(q, dead)))
    BY <1>2, <1>3, <1>4 DEF SameSlots
  <1> QED BY <1>5, Zenon DEF p, q

LEMMA InvEndTx ==
  ASSUME Inv, NEW ok \in BOOLEAN, NEW used \in 1..GasLimit, EndTx(ok, used)
  PROVE  Inv'
  <1> DEFINE f  == Top
             s1 == Returned(ok)
             s2 == IF ok THEN s1 ELSE RevertAccountState(s1, f.touched)
             r3 == Touch(Touch(s2, Balance(f.from)), Nonce(f.from))
             s3 == Touch(Touch(r3, Balance(f.to)), Nonce(f.to))
             dead == IF ok THEN gone ELSE {}
             settled(m) == Erase(Add(Add(m, Balance(f.from), GasLimit - used),
                                     Balance(Coinbase), used), dead)
             s4 == [s3 EXCEPT !.db = settled(@)]
             w  == Left(ok, f, world, f.world)
  <1>1. /\ phase = "tx" /\ Len(frames) = 1
        /\ acct' = [s4 EXCEPT !.committed = s4.touched] /\ world' = settled(w)
        /\ frames' = <<>> /\ gone' = {} /\ phase' = "idle"
        /\ ops' = 0 /\ start' = world' /\ txs' = txs /\ undone' = undone
    BY Zenon DEF EndTx
  <1>2. lost' = lost \cup Losses(acct, s4, <<>>) \cup Revived(s4)
                     \cup Refetched(s4, dead) \cup (IF ok THEN {} ELSE Stale(f))
    BY Zenon DEF EndTx
  <1>3. lost' \in SUBSET Cells
    <2> HIDE DEF s4, f, dead
    <2>1. Losses(acct, s4, <<>>) \subseteq Cells
      BY LossesType
    <2>2. Revived(s4) \subseteq Cells /\ Refetched(s4, dead) \subseteq Cells /\ Stale(f) \subseteq Cells
      BY DEF Revived, Refetched, Stale, Cells
    <2>3. lost \subseteq Cells
      BY DEF Inv, TypeOK
    <2> QED BY <1>2, <2>1, <2>2, <2>3
  <1>4. f \in Frame /\ f = frames[1] /\ acct \in State /\ world \in [Cells -> Int]
        /\ start \in [Cells -> Int] /\ MaxOps \in Nat /\ MaxDepth \in Nat /\ frames # <<>>
    <2>1. /\ f \in Frame /\ f = frames[1] /\ acct \in State /\ world \in [Cells -> Int]
          /\ start \in [Cells -> Int] /\ MaxOps \in Nat /\ MaxDepth \in Nat
      BY <1>1, TypeFacts DEF Inv
    <2>2. frames # <<>>
      BY <1>1 DEF Inv, TypeOK
    <2> QED BY <2>1, <2>2
  <1>5. /\ s1 \in State /\ SameSlots(acct.touched, s1.touched)
        /\ SameSlots(acct.committed, s1.committed)
        /\ ok => SameStorage(acct, s1)
    BY <1>1, ReturnedFacts
  <1> HIDE DEF f, s1
  <1>6. /\ f.from \in Accounts /\ f.to \in Accounts /\ f.world \in [Cells -> Int]
        /\ f.touched \in Map
    BY <1>4 DEF Frame
  <1>7. w \in [Cells -> Int] /\ (ok => SameSlots(world, w)) /\ (~ok => w = f.world)
    <2>1. f \in Frame /\ world \in [Cells -> Int] /\ f.world \in [Cells -> Int]
      BY <1>4, <1>6
    <2> QED BY <2>1, LeftFacts, Zenon
  <1>8. s2 \in State /\ (~undone => Exact(s2, w, start))
    <2>1. ~undone => Exact(acct, world, start) /\ Entered(f, start)
      BY <1>4 DEF Inv, StorageInv
    <2>2. CASE ok
      <3>1. s2 = s1
        BY <2>2
      <3>2. ~undone => Exact(s1, w, start)
        BY <1>5, <1>7, <2>1, <2>2, ExactKept, ZenonT(60) DEF SameSlots
      <3> QED BY <1>5, <3>1, <3>2
    <2>3. CASE ~ok
      <3>1. s2 = RevertAccountState(s1, f.touched)
        BY <2>3
      <3>2. RevertAccountState(s1, f.touched) \in State
        BY <1>5, <1>6, RevertFacts, Zenon
      <3>3. ~undone => Exact(RevertAccountState(s1, f.touched), f.world, start)
        BY <1>4, <1>5, <1>6, <2>1, RevertExact
      <3> QED BY <1>7, <2>3, <3>1, <3>2, <3>3
    <2> QED BY <2>2, <2>3
  <1> HIDE DEF s2, w
  <1>9. /\ Balance(f.from) \in Others /\ Nonce(f.from) \in Others
        /\ Balance(f.to) \in Others /\ Nonce(f.to) \in Others
    BY <1>6, CellFacts
  <1>10. r3 \in State /\ SameStorage(s2, r3)
    BY <1>8, <1>9, TouchBoth
  <1> HIDE DEF r3
  <1>11. s3 \in State /\ SameStorage(r3, s3)
    BY <1>9, <1>10, TouchBoth
  <1> HIDE DEF s3
  <1>12. s3.db \in [Cells -> Int]
    BY <1>11 DEF State
  <1>13. ASSUME NEW m \in [Cells -> Int]
         PROVE  settled(m) \in [Cells -> Int] /\ (dead = {} => SameSlots(m, settled(m)))
    <2> HIDE DEF dead
    <2> QED BY <1>6, SettledFacts, Zenon
  <1> HIDE DEF settled
  <1>14. s4 \in State /\ (dead = {} => SameStorage(s3, s4))
    BY <1>11, <1>12, <1>13, NewDb
  <1> HIDE DEF s4
  <1>15. world' \in [Cells -> Int] /\ (dead = {} => SameSlots(w, world'))
    BY <1>1, <1>7, <1>13
  <1>16. /\ acct' \in State /\ acct'.db = s4.db /\ acct'.touched = s4.touched
         /\ acct'.committed = s4.touched
    BY <1>1, <1>14 DEF State
  <1>17. frames' \in Seq(Frame) /\ Len(frames') = 0 /\ Len(frames') <= MaxDepth /\ ops' \in 0..MaxOps
    BY <1>1, <1>4
  <1>18. TypeOK'
    BY <1>1, <1>3, <1>15, <1>16, <1>17 DEF Inv, TypeOK, State
  <1>19. StorageInv'
    <2> SUFFICES ASSUME ~undone
                 PROVE  Exact(acct', world', world')
      BY <1>1 DEF StorageInv, SameSlots
    <2>1. dead = {}
      BY DEF Inv, StorageInv
    <2>2. SameStorage(s2, s4)
      BY <1>10, <1>11, <1>14, <2>1, SameStorageTrans
    <2>3. Exact(s4, world', start)
      BY <1>8, <1>15, <2>1, <2>2, ExactKept DEF SameSlots
    <2> QED BY <1>16, <2>3 DEF Exact
  <1> QED BY <1>18, <1>19 DEF Inv

(***************************************************************************)
(* The theorems.                                                            *)
(***************************************************************************)
LEMMA InvNext ==
  ASSUME Inv, [Next]_vars
  PROVE  Inv'
  <1>1. CASE Begin
    BY <1>1, InvRejected, InvBeginCall, InvBeginCreate DEF Begin
  <1>2. CASE Instruction
    BY <1>2, InvSload, InvSstoreProtected, InvSstore, InvReadBalance, InvReadCode,
       InvSelfdestruct, InvCallProtected, InvCall, InvCreateContract DEF Instruction
  <1>3. CASE End
    BY <1>3, InvEndCall, InvEndTx, InvTxPanics DEF End
  <1>4. CASE UNCHANGED vars
    BY <1>4 DEF vars, Inv, TypeOK, StorageInv
  <1> QED BY <1>1, <1>2, <1>3, <1>4 DEF Next

(***************************************************************************)
(* Every step of the replay keeps the typing and, until an inner call fails *)
(* or a contract destroys itself, the correspondence of each slot with the  *)
(* chain: an untouched slot is as at the node, a touched one has the value  *)
(* of the chain in StateDB and AccountState and the one before the          *)
(* transaction as committed, and the outermost call has saved the storage   *)
(* with which the transaction began.                                        *)
(***************************************************************************)
THEOREM InductiveInvariant == Spec => []Inv
  <1>1. Init => Inv
    BY InitInv
  <1>2. Inv /\ [Next]_vars => Inv'
    BY InvNext
  <1> QED BY <1>1, <1>2, PTL DEF Spec

(***************************************************************************)
(* StateDB, overlays, call stack and histories keep their types; the stack  *)
(* of the EVM is empty exactly outside of transactions and never deeper     *)
(* than the limit.                                                          *)
(***************************************************************************)
THEOREM TypeCorrect == Spec => []TypeOK
  <1>1. Inv => TypeOK
    BY DEF Inv
  <1> QED BY <1>1, InductiveInvariant, PTL

(***************************************************************************)
(* Storage is exact as long as no inner call fails and no contract          *)
(* destroys itself, for any number of transactions, also ones that fail,    *)
(* any nesting of calls and any contracts: the next SLOAD of a slot gives   *)
(* the value of the chain, and the committed value that the gas rules of    *)
(* SSTORE read is the one before the transaction.                           *)
(***************************************************************************)
THEOREM StorageIsExact == Spec => []StorageExact
  <1>1. Inv => StorageExact
    <2> SUFFICES ASSUME Inv, ~undone, NEW c \in Slots
                 PROVE  /\ Seen(c) = world[c]
                        /\ acct.touched[c] # Absent => acct.committed[c] = start[c]
      BY DEF StorageExact
    <2>1. IF acct.touched[c] = Absent THEN world[c] = Chain[c] /\ start[c] = Chain[c]
          ELSE acct.db[c] = world[c] /\ acct.touched[c] = world[c] /\ acct.committed[c] = start[c]
      BY DEF Inv, StorageInv, Exact
    <2>2. c \in Cells /\ c \notin Codes /\ acct \in State
      BY SlotFacts, TypeFacts DEF Inv
    <2>3. Seen(c) = SloadHook(acct, c).db[c]
      BY <2>2, Zenon DEF Seen
    <2>4. CASE acct.touched[c] = Absent
      <3> DEFINE t == Fetch(acct, c)
      <3>1. t \in State /\ t.db = [acct.db EXCEPT ![c] = Chain[c]]
        BY <2>2, FetchFacts
      <3>2. SloadHook(acct, c) = Touch(t, c)
        BY <2>4 DEF SloadHook
      <3> HIDE DEF t
      <3>3. Touch(t, c).db = t.db
        BY <2>2, <3>1, TouchFacts
      <3>4. t.db[c] = Chain[c]
        BY <2>2, <3>1 DEF State
      <3> QED BY <2>1, <2>3, <2>4, <3>2, <3>3, <3>4
    <2>5. CASE acct.touched[c] # Absent
      <3>1. SloadHook(acct, c) = acct
        BY <2>5 DEF SloadHook
      <3> QED BY <2>1, <2>3, <2>5, <3>1
    <2> QED BY <2>1, <2>4, <2>5
  <1> QED BY <1>1, InductiveInvariant, PTL

(***************************************************************************)
(* Faithful: the correspondence of every cell with the chain.               *)
(***************************************************************************)
Plain == Cells \ Codes

\* By how much the map m lags behind w at c.
Lag(w, m, c) == w[c] - m[c]

\* The cell c with db, touched and the chain at w.  What was not touched lacks what the node has;
\* code that the journal removed is that of the node, and CheckAndSetCode will put it back.
CellOK(db, touched, w, c) ==
    IF c \in Codes
      THEN IF touched[c] = Absent THEN w[c] = Chain[c]
           ELSE \/ db[c] # 0 /\ w[c] = db[c]
                \/ db[c] = 0 /\ w[c] = Chain[c] /\ touched[c] = Chain[c]
      ELSE Lag(w, db, c) = IF touched[c] = Absent THEN Chain[c] ELSE 0

Follows(db, touched, w, L) == \A c \in Cells \ L : CellOK(db, touched, w, c)

\* Whatever was lost: code is in the AccountState once it is in the StateDB, and the AccountState
\* never has less of it than was committed; what was not touched has no committed value, except a
\* slot fetched by an SSTORE that was refused.
KeptCode(s, c) ==
    /\ s.db[c] >= 0
    /\ s.touched[c] = Absent => s.db[c] = 0
    /\ s.touched[c] # Absent =>
          s.touched[c] > 0 /\ (s.committed[c] # Absent => s.touched[c] >= s.committed[c])

Kept(s) ==
    /\ \A c \in Codes : KeptCode(s, c)
    /\ \A c \in Others : s.touched[c] = Absent => s.committed[c] = Absent
    /\ \A c \in Cells : s.touched[c] = Absent => s.committed[c] \in {Absent, Chain[c]}

\* The frame f of the state s: what it saved corresponds to the chain at that time.
SavedCode(f, s, c) ==
    /\ f.db[c] >= 0
    /\ f.touched[c] = Absent => f.db[c] = 0
    /\ f.touched[c] # Absent =>
          /\ f.touched[c] > 0 /\ s.touched[c] >= f.touched[c]
          /\ s.committed[c] # Absent => f.touched[c] >= s.committed[c]

Saved(f, s, L) ==
    /\ Follows(f.db, f.touched, f.world, L)
    /\ \A c \in Codes : SavedCode(f, s, c)
    /\ \A c \in Cells : f.touched[c] # Absent => s.touched[c] # Absent
    /\ \A c \in Cells : f.touched[c] = Absent => s.committed[c] \in {Absent, Chain[c]}

\* The code of an account marked as self-destructed shows in the AccountState.
GoneOK(G, s, L) ==
    \A a \in G : Code(a) \notin L =>
        IF s.touched[Code(a)] = Absent THEN Chain[Code(a)] = 0
        ELSE s.touched[Code(a)] # s.committed[Code(a)]

\* An account that runs has code, unless it is one that had none at the node.
Live(f, db) == f.runs => Chain[Code(f.self)] = 0 \/ db[Code(f.self)] # 0

FrameOK(f, s, L) ==
    /\ Saved(f, s, L) /\ GoneOK(f.gone, s, L) /\ Live(f, s.db)
    /\ f.kind \in CreateKinds => f.to \in Fresh /\ f.self = f.to

StackOK(fr, s, G, L) ==
    /\ \A i \in DOMAIN fr : FrameOK(fr[i], s, L)
    /\ \A i, j \in DOMAIN fr : j < i => fr[j].runs /\ Live(fr[j], fr[i].db)
    /\ fr # <<>> => /\ fr[1].kind # "CREATE2"
                    /\ \A c \in Cells \ L : fr[1].touched[c] = Absent => fr[1].db[c] = 0
                    /\ LET f == fr[Len(fr)]
                       IN  f.kind \in CreateKinds /\ ~f.runs => f.to \in G

\* What was written and not touched is lost or under construction.
Unwritten(s, fr, L) ==
    \A c \in Cells \ L : s.touched[c] = Absent => s.db[c] = 0 \/ c[2] \in Constructing(fr)

Linked(s, w, fr, G, L) ==
    /\ Kept(s) /\ Follows(s.db, s.touched, w, L) /\ GoneOK(G, s, L)
    /\ Unwritten(s, fr, L) /\ StackOK(fr, s, G, L)

FaithInv == phase \in {"idle", "tx"} => Linked(acct, world, frames, gone, lost)

(***************************************************************************)
(* From s to t by hooks and by writes to touched cells, while the chain     *)
(* goes from w to v.                                                        *)
(***************************************************************************)
RunsCode(s, t, c) ==
    \/ /\ t.db[c] = s.db[c] /\ t.committed[c] = s.committed[c]
       /\ IF s.touched[c] = Absent THEN t.touched[c] = Absent
          ELSE t.touched[c] >= s.touched[c] /\ (s.db[c] = 0 => t.touched[c] = s.touched[c])
    \/ /\ s.touched[c] = Absent /\ Chain[c] # 0
       /\ t.db[c] = Chain[c] /\ t.committed[c] = Chain[c]
       /\ t.touched[c] # Absent /\ t.touched[c] >= Chain[c]
    \/ /\ s.touched[c] # Absent /\ s.db[c] = 0 /\ t.db[c] = s.touched[c]
       /\ t.committed[c] = s.committed[c] /\ t.touched[c] >= s.touched[c]

RunsPlain(s, t, w, v, c) ==
    IF s.touched[c] = Absent
      THEN \/ t.touched[c] = Absent /\ t.db[c] = s.db[c] /\ v[c] = w[c] /\ t.committed[c] = s.committed[c]
           \/ /\ t.touched[c] # Absent /\ c \notin Slots /\ t.committed[c] = s.committed[c]
              /\ Lag(v, t.db, c) = Lag(w, s.db, c)
           \/ /\ t.touched[c] # Absent /\ t.committed[c] = Chain[c]
              /\ Lag(v, t.db, c) = Lag(w, Chain, c)
      ELSE /\ t.touched[c] # Absent /\ t.committed[c] = s.committed[c]
           /\ Lag(v, t.db, c) = Lag(w, s.db, c)

Runs(s, t, w, v) ==
    /\ t \in State
    /\ \A c \in Codes : v[c] = w[c] /\ t.touched[c] \in Int \cup {Absent}
                          /\ (t.touched[c] = Absent => s.touched[c] = Absent) /\ RunsCode(s, t, c)
    /\ \A c \in Plain : RunsPlain(s, t, w, v, c)

LEMMA ChainFacts ==
  ASSUME NEW c \in Cells
  PROVE  Chain[c] \in Int /\ Chain[c] >= 0 /\ Chain[c] # Absent
  BY StateAssumption, EvmAssumption

LEMMA PlainFacts == /\ Codes \subseteq Cells /\ Plain \subseteq Cells /\ Cells = Codes \cup Plain
                    /\ Codes \cap Plain = {} /\ Codes \subseteq Others /\ Slots \subseteq Plain
  BY DEF Plain, Cells, Codes, Others, Slots

LEMMA StateFacts ==
  ASSUME NEW s \in State, NEW c \in Cells
  PROVE  /\ s.db[c] \in Int /\ s.touched[c] \in Int \cup {Absent}
         /\ s.committed[c] \in Int \cup {Absent} /\ Absent \notin Int
         /\ s.touched[c] # Absent => s.touched[c] \in Int
         /\ s.committed[c] # Absent => s.committed[c] \in Int
  BY EvmAssumption DEF State, Map

LEMMA RunsTrans ==
  ASSUME NEW s \in State, NEW t, NEW u, NEW w \in [Cells -> Int], NEW v \in [Cells -> Int],
         NEW x \in [Cells -> Int], Kept(s), Runs(s, t, w, v), Runs(t, u, v, x)
  PROVE  Runs(s, u, w, x)
  <1>1. t \in State /\ u \in State
    BY DEF Runs
  <1>2. ASSUME NEW c \in Codes
        PROVE  x[c] = w[c] /\ u.touched[c] \in Int \cup {Absent}
               /\ (u.touched[c] = Absent => s.touched[c] = Absent) /\ RunsCode(s, u, c)
    <2>1. c \in Cells /\ Chain[c] \in Int /\ Chain[c] >= 0 /\ Chain[c] # Absent
      BY PlainFacts, ChainFacts
    <2>2. KeptCode(s, c)
      BY DEF Kept
    <2>3. RunsCode(s, t, c) /\ RunsCode(t, u, c) /\ v[c] = w[c] /\ x[c] = v[c]
          /\ (t.touched[c] = Absent => s.touched[c] = Absent)
          /\ (u.touched[c] = Absent => t.touched[c] = Absent)
      BY DEF Runs
    <2>4. /\ s.db[c] \in Int /\ t.db[c] \in Int /\ u.db[c] \in Int
          /\ s.touched[c] # Absent => s.touched[c] \in Int
          /\ t.touched[c] # Absent => t.touched[c] \in Int
          /\ u.touched[c] # Absent => u.touched[c] \in Int
          /\ u.touched[c] \in Int \cup {Absent} /\ Absent \notin Int
      BY <1>1, <2>1, StateFacts
    <2>5. RunsCode(s, u, c)
      BY <2>1, <2>2, <2>3, <2>4 DEF RunsCode, KeptCode
    <2> QED BY <2>3, <2>4, <2>5
  <1>3. ASSUME NEW c \in Plain
        PROVE  RunsPlain(s, u, w, x, c)
    <2>1. RunsPlain(s, t, w, v, c) /\ RunsPlain(t, u, v, x, c)
      BY DEF Runs
    <2>2. CASE t.touched[c] = Absent
      <3>1. s.touched[c] = Absent /\ t.db[c] = s.db[c] /\ v[c] = w[c] /\ t.committed[c] = s.committed[c]
        BY <2>1, <2>2, Zenon DEF RunsPlain
      <3> QED BY <2>1, <2>2, <3>1, Zenon DEF RunsPlain, Lag
    <2>3. CASE t.touched[c] # Absent
      <3>1. /\ u.touched[c] # Absent /\ u.committed[c] = t.committed[c]
            /\ Lag(x, u.db, c) = Lag(v, t.db, c)
        BY <2>1, <2>3, Zenon DEF RunsPlain
      <3> QED BY <2>1, <2>3, <3>1, Zenon DEF RunsPlain
    <2> QED BY <2>2, <2>3
  <1> QED BY <1>1, <1>2, <1>3 DEF Runs

LEMMA RunsKept ==
  ASSUME NEW s \in State, NEW t, NEW w, NEW v, Kept(s), Runs(s, t, w, v)
  PROVE  Kept(t)
  <1>1. t \in State
    BY DEF Runs
  <1>2. ASSUME NEW c \in Codes
        PROVE  KeptCode(t, c) /\ (t.touched[c] = Absent => t.committed[c] = Absent)
    <2>1. c \in Cells /\ c \in Others /\ Chain[c] \in Int /\ Chain[c] >= 0 /\ Chain[c] # Absent
      BY PlainFacts, ChainFacts
    <2>2. KeptCode(s, c) /\ (s.touched[c] = Absent => s.committed[c] = Absent)
      BY <2>1 DEF Kept
    <2>3. RunsCode(s, t, c) /\ (t.touched[c] = Absent => s.touched[c] = Absent)
      BY DEF Runs
    <2>4. /\ s.db[c] \in Int /\ t.db[c] \in Int
          /\ s.touched[c] # Absent => s.touched[c] \in Int
          /\ t.touched[c] # Absent => t.touched[c] \in Int
          /\ s.committed[c] # Absent => s.committed[c] \in Int
          /\ t.committed[c] # Absent => t.committed[c] \in Int /\ Absent \notin Int
      BY <1>1, <2>1, StateFacts
    <2>5. CASE s.touched[c] = Absent
      <3>1. s.db[c] = 0 /\ s.committed[c] = Absent
        BY <2>2, <2>5 DEF KeptCode
      <3>2. CASE t.db[c] = s.db[c] /\ t.committed[c] = s.committed[c] /\ t.touched[c] = Absent
        <4>1. t.db[c] >= 0 /\ t.db[c] = 0 /\ t.committed[c] = Absent
          BY <3>1, <3>2
        <4> QED BY <3>2, <4>1, Zenon DEF KeptCode
      <3>3. CASE Chain[c] # 0 /\ t.db[c] = Chain[c] /\ t.committed[c] = Chain[c] /\ t.touched[c] >= Chain[c]
                 /\ t.touched[c] # Absent
        <4>1. t.touched[c] \in Int /\ t.db[c] >= 0 /\ t.touched[c] >= t.committed[c] /\ t.touched[c] > 0
          BY <2>1, <2>4, <3>3
        <4> QED BY <3>3, <4>1, Zenon DEF KeptCode
      <3> QED BY <2>3, <2>5, <3>2, <3>3 DEF RunsCode
    <2>6. CASE s.touched[c] # Absent
      <3>1. s.touched[c] \in Int /\ t.touched[c] \in Int /\ s.touched[c] > 0 /\ t.touched[c] # Absent
        BY <2>2, <2>3, <2>4, <2>6 DEF KeptCode
      <3>2. t.touched[c] >= s.touched[c] /\ t.committed[c] = s.committed[c]
        BY <2>3, <2>6 DEF RunsCode
      <3>3. t.db[c] = s.db[c] \/ t.db[c] = s.touched[c]
        BY <2>3, <2>6 DEF RunsCode
      <3>4. t.db[c] >= 0
        BY <2>2, <2>4, <3>1, <3>3 DEF KeptCode
      <3>5. t.touched[c] > 0
        BY <3>1, <3>2
      <3>6. ASSUME t.committed[c] # Absent PROVE t.touched[c] >= t.committed[c]
        <4>1. s.committed[c] \in Int /\ s.touched[c] >= s.committed[c]
          BY <2>2, <2>4, <2>6, <3>2, <3>6 DEF KeptCode
        <4> QED BY <3>1, <3>2, <4>1
      <3> QED BY <3>1, <3>4, <3>5, <3>6, Zenon DEF KeptCode
    <2> QED BY <2>5, <2>6
  <1>3. ASSUME NEW c \in Plain
        PROVE  /\ c \in Others /\ t.touched[c] = Absent => t.committed[c] = Absent
               /\ t.touched[c] = Absent => t.committed[c] \in {Absent, Chain[c]}
    <2>1. c \in Cells
      BY PlainFacts
    <2>2. /\ c \in Others /\ s.touched[c] = Absent => s.committed[c] = Absent
          /\ s.touched[c] = Absent => s.committed[c] \in {Absent, Chain[c]}
      BY <2>1 DEF Kept
    <2>3. RunsPlain(s, t, w, v, c)
      BY DEF Runs
    <2> QED BY <2>2, <2>3 DEF RunsPlain
  <1> QED BY <1>2, <1>3, PlainFacts DEF Kept, Others

(***************************************************************************)
(* What a step does to the frames: once touched, a cell stays touched and   *)
(* keeps its committed value, and code only grows in the AccountState.      *)
(***************************************************************************)
Onward(s, t) ==
    /\ \A c \in Cells : /\ \/ t.committed[c] = s.committed[c]
                           \/ s.touched[c] = Absent /\ t.committed[c] = Chain[c]
                        /\ s.touched[c] # Absent => t.touched[c] # Absent
    /\ \A c \in Codes : /\ s.touched[c] # Absent => t.touched[c] >= s.touched[c]
                        /\ s.touched[c] = Absent /\ Chain[c] = 0 => t.committed[c] = s.committed[c]

CodeLives(m, n) == \A c \in Codes : Chain[c] = 0 \/ m[c] = 0 \/ n[c] # 0

\* The cells that a step does not lose correspond to the chain after it.
Carries(s, t, w, v) ==
    /\ t \in State /\ Kept(t) /\ Onward(s, t) /\ CodeLives(s.db, t.db)
    /\ \A c \in Cells : /\ CellOK(s.db, s.touched, w, c)
                        /\ c \notin Overwritten(s, t) \cup Unread(t)
                        => CellOK(t.db, t.touched, v, c)

LEMMA RunsOnward ==
  ASSUME NEW s \in State, NEW t, NEW w, NEW v, Kept(s), Runs(s, t, w, v)
  PROVE  Onward(s, t) /\ CodeLives(s.db, t.db)
  <1>1. ASSUME NEW c \in Codes
        PROVE  /\ \/ t.committed[c] = s.committed[c]
                  \/ s.touched[c] = Absent /\ t.committed[c] = Chain[c]
               /\ s.touched[c] # Absent => t.touched[c] # Absent
               /\ s.touched[c] # Absent => t.touched[c] >= s.touched[c]
               /\ s.touched[c] = Absent /\ Chain[c] = 0 => t.committed[c] = s.committed[c]
               /\ Chain[c] = 0 \/ s.db[c] = 0 \/ t.db[c] # 0
    <2>1. KeptCode(s, c)
      BY DEF Kept
    <2>2. RunsCode(s, t, c) /\ (t.touched[c] = Absent => s.touched[c] = Absent)
      BY DEF Runs
    <2> QED BY <2>1, <2>2, Zenon DEF RunsCode, KeptCode
  <1>2. ASSUME NEW c \in Plain
        PROVE  /\ \/ t.committed[c] = s.committed[c]
                  \/ s.touched[c] = Absent /\ t.committed[c] = Chain[c]
               /\ s.touched[c] # Absent => t.touched[c] # Absent
    <2>1. RunsPlain(s, t, w, v, c)
      BY DEF Runs
    <2> QED BY <2>1, Zenon DEF RunsPlain
  <1> QED BY <1>1, <1>2, PlainFacts DEF Onward, CodeLives

LEMMA RunsCell ==
  ASSUME NEW s \in State, NEW t, NEW w \in [Cells -> Int], NEW v \in [Cells -> Int],
         Kept(s), Runs(s, t, w, v), NEW c \in Cells, CellOK(s.db, s.touched, w, c),
         c \notin Overwritten(s, t) \cup Unread(t)
  PROVE  CellOK(t.db, t.touched, v, c)
  <1>1. t \in State /\ Chain[c] \in Int /\ Chain[c] >= 0 /\ Chain[c] # Absent
    BY ChainFacts DEF Runs
  <1>2. /\ s.db[c] \in Int /\ t.db[c] \in Int /\ w[c] \in Int /\ v[c] \in Int
        /\ s.touched[c] # Absent => s.touched[c] \in Int
        /\ t.touched[c] # Absent => t.touched[c] \in Int
    BY <1>1, StateFacts
  <1>3. /\ ~ (s.touched[c] = Absent /\ s.db[c] # 0 /\ t.touched[c] # Absent /\ t.committed[c] # Absent)
        /\ ~ (t.touched[c] # Absent /\ t.committed[c] = Absent /\ Chain[c] # 0)
    BY DEF Overwritten, Unread
  <1>4. CASE c \in Codes
    <2>1. KeptCode(s, c)
      BY <1>4 DEF Kept
    <2>2. RunsCode(s, t, c) /\ (t.touched[c] = Absent => s.touched[c] = Absent) /\ v[c] = w[c]
      BY <1>4 DEF Runs
    <2>3. CASE s.touched[c] = Absent
      <3>1. w[c] = Chain[c]
        BY <1>4, <2>3 DEF CellOK
      <3>2. t.touched[c] = Absent \/ (t.touched[c] # Absent /\ t.db[c] = Chain[c] /\ Chain[c] # 0)
        BY <2>2, <2>3 DEF RunsCode
      <3> QED BY <1>4, <2>2, <3>1, <3>2, Zenon DEF CellOK
    <2>4. CASE s.touched[c] # Absent
      <3>1. \/ s.db[c] # 0 /\ w[c] = s.db[c]
            \/ s.db[c] = 0 /\ w[c] = Chain[c] /\ s.touched[c] = Chain[c]
        BY <1>4, <2>4 DEF CellOK
      <3>2. t.touched[c] # Absent /\ s.touched[c] \in Int /\ s.touched[c] > 0
        BY <1>2, <2>1, <2>2, <2>4 DEF KeptCode
      <3>3. \/ t.db[c] = s.db[c] /\ (s.db[c] = 0 => t.touched[c] = s.touched[c])
            \/ s.db[c] = 0 /\ t.db[c] = s.touched[c]
        BY <2>2, <2>4 DEF RunsCode
      <3>4. s.touched[c] # 0
        BY <3>2
      <3> QED BY <1>4, <2>2, <3>1, <3>2, <3>3, <3>4, Zenon DEF CellOK
    <2> QED BY <2>3, <2>4
  <1>5. CASE c \in Plain
    <2>1. RunsPlain(s, t, w, v, c) /\ c \notin Codes
      BY <1>5, PlainFacts DEF Runs
    <2>2. Lag(w, s.db, c) = IF s.touched[c] = Absent THEN Chain[c] ELSE 0
      BY <2>1 DEF CellOK
    <2>3. CASE s.touched[c] # Absent
      <3>1. t.touched[c] # Absent /\ Lag(v, t.db, c) = 0
        BY <2>1, <2>2, <2>3 DEF RunsPlain
      <3> QED BY <2>1, <3>1 DEF CellOK
    <2>4. CASE t.touched[c] = Absent
      <3>1. s.touched[c] = Absent /\ Lag(v, t.db, c) = Lag(w, s.db, c)
        BY <2>1, <2>4, Zenon DEF RunsPlain, Lag
      <3> QED BY <2>1, <2>2, <2>4, <3>1 DEF CellOK
    <2>5. CASE s.touched[c] = Absent /\ t.touched[c] # Absent
      <3>1. CASE c \notin Slots /\ t.committed[c] = s.committed[c] /\ Lag(v, t.db, c) = Lag(w, s.db, c)
        <4>1. s.committed[c] = Absent
          BY <2>5, <3>1 DEF Kept, Others
        <4>2. Chain[c] = 0
          BY <1>3, <2>5, <3>1, <4>1
        <4> QED BY <2>1, <2>2, <2>5, <3>1, <4>2 DEF CellOK
      <3>2. CASE t.committed[c] = Chain[c] /\ Lag(v, t.db, c) = Lag(w, Chain, c)
        <4>1. s.db[c] = 0 /\ w[c] - s.db[c] = Chain[c]
          BY <1>1, <1>3, <2>2, <2>5, <3>2 DEF Lag
        <4>2. w[c] = Chain[c]
          BY <1>1, <1>2, <4>1
        <4>3. w[c] - Chain[c] = 0
          BY <1>1, <1>2, <4>2
        <4>4. Lag(v, t.db, c) = 0
          BY <3>2, <4>3 DEF Lag
        <4> QED BY <2>1, <2>5, <4>4 DEF CellOK
      <3> QED BY <2>1, <2>5, <3>1, <3>2 DEF RunsPlain
    <2> QED BY <2>3, <2>4, <2>5
  <1> QED BY <1>4, <1>5, PlainFacts

LEMMA RunsCarries ==
  ASSUME NEW s \in State, NEW t, NEW w \in [Cells -> Int], NEW v \in [Cells -> Int],
         Kept(s), Runs(s, t, w, v)
  PROVE  Carries(s, t, w, v)
  <1>1. t \in State /\ Kept(t) /\ Onward(s, t) /\ CodeLives(s.db, t.db)
    BY RunsKept, RunsOnward DEF Runs
  <1>2. \A c \in Cells : /\ CellOK(s.db, s.touched, w, c)
                         /\ c \notin Overwritten(s, t) \cup Unread(t)
                         => CellOK(t.db, t.touched, v, c)
    BY RunsCell
  <1> QED BY <1>1, <1>2 DEF Carries

\* Two maps that move together: ether that is sent, nonces that grow.
Shifted(m, n, w, v) ==
    /\ \A c \in Codes : n[c] = m[c] /\ v[c] = w[c]
    /\ \A c \in Plain : Lag(v, n, c) = Lag(w, m, c)

LEMMA ShiftedCell ==
  ASSUME NEW m, NEW n, NEW w, NEW v, NEW k, Shifted(m, n, w, v), NEW c \in Cells, CellOK(m, k, w, c)
  PROVE  CellOK(n, k, v, c)
  BY PlainFacts DEF Shifted, CellOK

\* A write to StateDB and chain, of which it is known that it keeps the correspondence.
LEMMA CarriesWrite ==
  ASSUME NEW s \in State, NEW t, NEW w, NEW v, NEW x, NEW n \in [Cells -> Int],
         Carries(s, t, w, v), \A c \in Codes : n[c] = t.db[c],
         \A c \in Cells : CellOK(t.db, t.touched, v, c) => CellOK(n, t.touched, x, c)
  PROVE  Carries(s, [t EXCEPT !.db = n], w, x)
  <1> DEFINE u == [t EXCEPT !.db = n]
  <1>1. t \in State /\ Kept(t) /\ Onward(s, t) /\ CodeLives(s.db, t.db)
    BY DEF Carries
  <1>2. u \in State /\ u.db = n /\ u.touched = t.touched /\ u.committed = t.committed
    BY <1>1, NewDb
  <1> HIDE DEF u
  <1>3. \A c \in Codes : u.db[c] = t.db[c]
    BY <1>2
  <1>4. Kept(u) /\ Onward(s, u) /\ CodeLives(s.db, u.db)
    BY <1>1, <1>2, <1>3 DEF Kept, KeptCode, Onward, CodeLives
  <1>5. ASSUME NEW c \in Cells, CellOK(s.db, s.touched, w, c), c \notin Overwritten(s, u) \cup Unread(u)
        PROVE  CellOK(u.db, u.touched, x, c)
    <2>1. c \notin Overwritten(s, t) \cup Unread(t)
      BY <1>2, <1>5 DEF Overwritten, Unread
    <2>2. CellOK(t.db, t.touched, v, c)
      BY <1>5, <2>1 DEF Carries
    <2> QED BY <1>2, <2>2
  <1>6. Carries(s, u, w, x)
    BY <1>2, <1>4, <1>5 DEF Carries
  <1> QED BY <1>6 DEF u

LEMMA CarriesShifted ==
  ASSUME NEW s \in State, NEW t, NEW w, NEW v, NEW x, NEW n \in [Cells -> Int],
         Carries(s, t, w, v), Shifted(t.db, n, v, x)
  PROVE  Carries(s, [t EXCEPT !.db = n], w, x)
  <1>1. \A c \in Codes : n[c] = t.db[c]
    BY DEF Shifted
  <1>2. \A c \in Cells : CellOK(t.db, t.touched, v, c) => CellOK(n, t.touched, x, c)
    BY ShiftedCell
  <1> QED BY <1>1, <1>2, CarriesWrite

LEMMA FollowsLess ==
  ASSUME NEW m, NEW k, NEW w, NEW L, NEW M, L \subseteq M, Follows(m, k, w, L)
  PROVE  Follows(m, k, w, M)
  BY DEF Follows

LEMMA OnwardSaved ==
  ASSUME NEW s \in State, NEW t \in State, NEW f \in Frame, NEW L, NEW M, L \subseteq M,
         Onward(s, t), Saved(f, s, L)
  PROVE  Saved(f, t, M)
  <1>1. Follows(f.db, f.touched, f.world, M)
    BY FollowsLess DEF Saved
  <1>2. ASSUME NEW c \in Codes PROVE SavedCode(f, t, c)
    <2>1. SavedCode(f, s, c) /\ c \in Cells /\ (f.touched[c] # Absent => s.touched[c] # Absent)
      BY PlainFacts DEF Saved
    <2>2. s.touched[c] # Absent => t.touched[c] # Absent /\ t.touched[c] >= s.touched[c]
                                   /\ t.committed[c] = s.committed[c]
      BY <2>1 DEF Onward
    <2>3. /\ s.touched[c] # Absent => s.touched[c] \in Int
          /\ t.touched[c] # Absent => t.touched[c] \in Int
          /\ f.touched[c] # Absent => f.touched[c] \in Int
      BY <2>1, StateFacts DEF Frame, Map
    <2>4. ASSUME f.touched[c] # Absent PROVE t.touched[c] >= f.touched[c]
      <3>1. /\ s.touched[c] \in Int /\ t.touched[c] \in Int /\ f.touched[c] \in Int
            /\ t.touched[c] >= s.touched[c] /\ s.touched[c] >= f.touched[c]
        BY <2>1, <2>2, <2>3, <2>4 DEF SavedCode
      <3> QED BY <3>1
    <2> QED BY <2>1, <2>2, <2>4, Zenon DEF SavedCode
  <1>3. ASSUME NEW c \in Cells
        PROVE  /\ f.touched[c] # Absent => t.touched[c] # Absent
               /\ f.touched[c] = Absent => t.committed[c] \in {Absent, Chain[c]}
    BY DEF Saved, Onward
  <1> QED BY <1>1, <1>2, <1>3 DEF Saved

LEMMA OnwardGone ==
  ASSUME NEW s \in State, NEW t \in State, NEW G \in SUBSET Accounts, NEW L, NEW M, L \subseteq M,
         Kept(s), Onward(s, t), GoneOK(G, s, L)
  PROVE  GoneOK(G, t, M)
  <1> SUFFICES ASSUME NEW a \in G, Code(a) \notin L
               PROVE  IF t.touched[Code(a)] = Absent THEN Chain[Code(a)] = 0
                      ELSE t.touched[Code(a)] # t.committed[Code(a)]
    BY DEF GoneOK
  <1> DEFINE c == Code(a)
  <1>1. c \in Codes /\ c \in Cells /\ c \in Others
    BY CellFacts, PlainFacts
  <1>2. IF s.touched[c] = Absent THEN Chain[c] = 0 ELSE s.touched[c] # s.committed[c]
    BY DEF GoneOK
  <1> HIDE DEF c
  <1>3. CASE s.touched[c] = Absent
    <2>1. Chain[c] = 0 /\ t.committed[c] = Absent
      BY <1>1, <1>2, <1>3 DEF Onward, Kept
    <2> QED BY <2>1 DEF c
  <1>4. CASE s.touched[c] # Absent
    <2>1. /\ t.touched[c] # Absent /\ t.touched[c] >= s.touched[c] /\ t.committed[c] = s.committed[c]
          /\ s.touched[c] # s.committed[c]
      BY <1>1, <1>2, <1>4 DEF Onward
    <2>2. /\ s.touched[c] \in Int /\ t.touched[c] \in Int
          /\ s.committed[c] # Absent => s.committed[c] \in Int /\ s.touched[c] >= s.committed[c]
      BY <1>1, <1>4, <2>1, StateFacts DEF Kept, KeptCode
    <2>3. t.touched[c] # t.committed[c]
      <3>1. CASE s.committed[c] = Absent
        BY <2>1, <3>1
      <3>2. CASE s.committed[c] # Absent
        BY <2>1, <2>2, <3>2
      <3> QED BY <3>1, <3>2
    <2> QED BY <2>1, <2>3 DEF c
  <1> QED BY <1>3, <1>4

LEMMA OnwardLive ==
  ASSUME NEW f \in Frame, NEW m, NEW n, CodeLives(m, n), Live(f, m)
  PROVE  Live(f, n)
  <1>1. Code(f.self) \in Codes
    BY CellFacts DEF Frame
  <1> QED BY <1>1 DEF CodeLives, Live

LEMMA OnwardStack ==
  ASSUME NEW s \in State, NEW t \in State, NEW fr \in Seq(Frame), NEW G, NEW H,
         NEW L, NEW M, L \subseteq M, G \subseteq H, Kept(s), Onward(s, t), CodeLives(s.db, t.db),
         StackOK(fr, s, G, L)
  PROVE  StackOK(fr, t, H, M)
  <1>1. ASSUME NEW i \in DOMAIN fr PROVE FrameOK(fr[i], t, M)
    <2> DEFINE f == fr[i]
    <2>1. f \in Frame /\ FrameOK(f, s, L)
      BY DEF StackOK
    <2> HIDE DEF f
    <2>2. f.gone \in SUBSET Accounts
      BY <2>1 DEF Frame
    <2>3. Saved(f, t, M) /\ GoneOK(f.gone, t, M) /\ Live(f, t.db)
      BY <2>1, <2>2, OnwardSaved, OnwardGone, OnwardLive DEF FrameOK
    <2>4. FrameOK(f, t, M)
      BY <2>1, <2>3 DEF FrameOK
    <2> QED BY <2>4 DEF f
  <1>2. /\ \A i, j \in DOMAIN fr : j < i => fr[j].runs /\ Live(fr[j], fr[i].db)
        /\ fr # <<>> => /\ fr[1].kind # "CREATE2"
                        /\ \A c \in Cells \ M : fr[1].touched[c] = Absent => fr[1].db[c] = 0
                        /\ LET f == fr[Len(fr)]
                           IN  f.kind \in CreateKinds /\ ~f.runs => f.to \in H
    BY DEF StackOK
  <1> QED BY <1>1, <1>2 DEF StackOK

(***************************************************************************)
(* The kinds of steps.                                                      *)
(***************************************************************************)
LEMMA CarriesFollows ==
  ASSUME NEW s, NEW t, NEW w, NEW v, NEW L, NEW fr, Carries(s, t, w, v), Follows(s.db, s.touched, w, L)
  PROVE  /\ Follows(t.db, t.touched, v, L \cup Losses(s, t, fr))
         /\ Unwritten(t, fr, L \cup Losses(s, t, fr))
  <1> DEFINE M == L \cup Losses(s, t, fr)
  <1>1. ASSUME NEW c \in Cells \ M PROVE CellOK(t.db, t.touched, v, c)
    <2>1. c \notin L /\ c \notin Overwritten(s, t) \cup Unread(t)
      BY DEF Losses
    <2>2. CellOK(s.db, s.touched, w, c)
      BY <2>1 DEF Follows
    <2> QED BY <2>1, <2>2 DEF Carries
  <1>2. Unwritten(t, fr, M)
    BY DEF Unwritten, Losses, Unfetched
  <1> HIDE DEF M
  <1>3. Follows(t.db, t.touched, v, M)
    BY <1>1 DEF Follows
  <1> QED BY <1>2, <1>3 DEF M

LEMMA RunningLinked ==
  ASSUME Inv, FaithInv, phase \in {"idle", "tx"}
  PROVE  /\ Kept(acct) /\ Follows(acct.db, acct.touched, world, lost) /\ GoneOK(gone, acct, lost)
         /\ Unwritten(acct, frames, lost) /\ StackOK(frames, acct, gone, lost)
         /\ acct \in State /\ frames \in Seq(Frame) /\ gone \in SUBSET Accounts
         /\ world \in [Cells -> Int]
  BY TypeFacts DEF Inv, TypeOK, FaithInv, Linked

LEMMA FaithStep ==
  ASSUME Inv, FaithInv, Running, NEW t, NEW v, Step(t, v), Carries(acct, t, world, v)
  PROVE  FaithInv'
  <1>1. /\ acct' = t /\ world' = v /\ lost' = lost \cup Losses(acct, t, frames)
        /\ frames' = frames /\ gone' = gone /\ phase' = phase
    BY DEF Step
  <1>2. /\ Kept(acct) /\ Follows(acct.db, acct.touched, world, lost) /\ GoneOK(gone, acct, lost)
        /\ StackOK(frames, acct, gone, lost)
        /\ acct \in State /\ frames \in Seq(Frame) /\ gone \in SUBSET Accounts
    BY RunningLinked DEF Running
  <1>3. t \in State /\ Kept(t) /\ Onward(acct, t) /\ CodeLives(acct.db, t.db)
    BY DEF Carries
  <1>4. Follows(t.db, t.touched, v, lost') /\ Unwritten(t, frames, lost')
    BY <1>1, <1>2, CarriesFollows
  <1>5. lost \subseteq lost' /\ gone \subseteq gone
    BY <1>1
  <1>6. GoneOK(gone, t, lost')
    BY <1>2, <1>3, <1>5, OnwardGone
  <1>7. StackOK(frames, t, gone, lost')
    BY <1>2, <1>3, <1>5, OnwardStack
  <1> QED BY <1>1, <1>3, <1>4, <1>6, <1>7 DEF FaithInv, Linked

\* The frame that a call enters, in the state t that it enters it in.
Entry(f, t, L) ==
    /\ f \in Frame /\ f.touched = t.touched /\ (\A c \in Codes : f.db[c] = t.db[c])
    /\ Follows(f.db, f.touched, f.world, L) /\ Live(f, t.db)
    /\ f.kind \in CreateKinds => f.to \in Fresh /\ f.self = f.to /\ f.runs

LEMMA EntrySaved ==
  ASSUME NEW f, NEW t \in State, NEW L, Kept(t), Entry(f, t, L)
  PROVE  Saved(f, t, L)
  <1>1. ASSUME NEW c \in Codes PROVE SavedCode(f, t, c)
    <2>1. KeptCode(t, c) /\ f.db[c] = t.db[c] /\ f.touched = t.touched /\ c \in Cells
      BY PlainFacts DEF Kept, Entry
    <2>2. t.touched[c] # Absent => t.touched[c] \in Int /\ t.touched[c] >= t.touched[c]
      BY <2>1, StateFacts
    <2> QED BY <2>1, <2>2, Zenon DEF KeptCode, SavedCode
  <1> QED BY <1>1 DEF Saved, Entry, Kept

LEMMA FaithPush ==
  ASSUME Inv, FaithInv, Running, NEW t, NEW v, NEW f, Push(t, f, v), Carries(acct, t, world, v),
         f.gone = gone, Entry(f, t, lost')
  PROVE  FaithInv'
  <1>1. /\ acct' = t /\ world' = v /\ lost' = lost \cup Losses(acct, t, Append(frames, f))
        /\ frames' = Append(frames, f) /\ gone' = gone /\ phase' = phase
    BY DEF Push
  <1>2. /\ Kept(acct) /\ Follows(acct.db, acct.touched, world, lost) /\ GoneOK(gone, acct, lost)
        /\ StackOK(frames, acct, gone, lost)
        /\ acct \in State /\ frames \in Seq(Frame) /\ gone \in SUBSET Accounts
    BY RunningLinked DEF Running
  <1>3. t \in State /\ Kept(t) /\ Onward(acct, t) /\ CodeLives(acct.db, t.db)
    BY DEF Carries
  <1>4. Follows(t.db, t.touched, v, lost') /\ Unwritten(t, frames', lost')
    BY <1>1, <1>2, CarriesFollows
  <1>5. lost \subseteq lost' /\ gone \subseteq gone
    BY <1>1
  <1>6. GoneOK(gone, t, lost')
    BY <1>2, <1>3, <1>5, OnwardGone
  <1>7. StackOK(frames, t, gone, lost')
    BY <1>2, <1>3, <1>5, OnwardStack
  <1>8. FrameOK(f, t, lost') /\ f \in Frame
    BY <1>3, <1>6, EntrySaved DEF FrameOK, Entry
  <1>9. StackOK(frames', t, gone, lost')
    <2> DEFINE n == Len(frames)
    <2>0. n \in Nat /\ n > 0 /\ Top = frames[n] /\ Top.runs
      BY <1>2, TypeFacts DEF Inv, Running, Top
    <2>1. /\ DOMAIN frames' = 1..(n + 1) /\ DOMAIN frames = 1..n /\ Len(frames') = n + 1
          /\ frames'[n + 1] = f /\ \A i \in 1..n : frames'[i] = frames[i]
      BY <1>1, <1>2, <1>8
    <2> HIDE DEF n
    <2>2. ASSUME NEW i \in DOMAIN frames' PROVE FrameOK(frames'[i], t, lost')
      <3>1. i \in 1..n \/ i = n + 1
        BY <2>0, <2>1
      <3>2. CASE i \in 1..n
        <4>1. FrameOK(frames[i], t, lost')
          BY <1>7, <2>1, <3>2 DEF StackOK
        <4> QED BY <2>1, <3>2, <4>1
      <3> QED BY <1>8, <2>1, <3>1, <3>2
    <2>3. ASSUME NEW i \in DOMAIN frames', NEW j \in DOMAIN frames', j < i
          PROVE  frames'[j].runs /\ Live(frames'[j], frames'[i].db)
      <3>1. j \in 1..n /\ frames'[j] = frames[j] /\ (i \in 1..n \/ i = n + 1)
        BY <2>0, <2>1, <2>3
      <3>2. CASE i \in 1..n
        BY <1>7, <2>1, <2>3, <3>1, <3>2 DEF StackOK
      <3>3. CASE i = n + 1
        <4>1. Live(frames[j], t.db) /\ frames[j] \in Frame
          <5>1. FrameOK(frames[j], t, lost') /\ frames[j] \in Frame
            <6>1. j \in DOMAIN frames
              BY <2>1, <3>1
            <6> QED BY <1>2, <1>7, <6>1 DEF StackOK
          <5> QED BY <5>1 DEF FrameOK
        <4>2. CodeLives(t.db, f.db)
          BY DEF Entry, CodeLives
        <4>3. Live(frames[j], f.db)
          BY <4>1, <4>2, OnwardLive
        <4>4. frames[j].runs
          <5>1. CASE j = n
            BY <2>0, <5>1
          <5>2. CASE j < n
            <6>1. n \in DOMAIN frames /\ j \in DOMAIN frames
              BY <2>0, <2>1, <3>1
            <6> QED BY <1>2, <5>2, <6>1 DEF StackOK
          <5> QED BY <2>0, <3>1, <5>1, <5>2
        <4> QED BY <2>1, <3>1, <3>3, <4>3, <4>4
      <3> QED BY <3>1, <3>2, <3>3
    <2>4. frames'[1] = frames[1] /\ frames # <<>> /\ frames'[Len(frames')] = f
      BY <1>2, <2>0, <2>1
    <2>5. /\ \A c \in Cells \ lost' : frames'[1].touched[c] = Absent => frames'[1].db[c] = 0
          /\ frames'[1].kind # "CREATE2"
      BY <1>7, <2>4 DEF StackOK
    <2>6. f.kind \in CreateKinds => f.runs
      BY DEF Entry
    <2> QED BY <2>2, <2>3, <2>4, <2>5, <2>6 DEF StackOK
  <1> QED BY <1>1, <1>3, <1>4, <1>6, <1>9 DEF FaithInv, Linked

LEMMA FaithEnter ==
  ASSUME Inv, FaithInv, Idle, NEW t, NEW v, NEW f, Enter(t, f, v), Carries(acct, t, world, v),
         f.gone = {}, f.kind # "CREATE2", Entry(f, t, lost'),
         \A c \in Cells \ lost' : f.touched[c] = Absent => f.db[c] = 0
  PROVE  FaithInv'
  <1>1. /\ acct' = t /\ world' = v /\ lost' = lost \cup Losses(acct, t, <<f>>)
        /\ frames' = <<f>> /\ gone' = {} /\ phase' = "tx"
    BY DEF Enter
  <1>2. Follows(acct.db, acct.touched, world, lost)
    BY RunningLinked DEF Idle
  <1>3. t \in State /\ Kept(t)
    BY DEF Carries
  <1>4. Follows(t.db, t.touched, v, lost') /\ Unwritten(t, frames', lost')
    BY <1>1, <1>2, CarriesFollows
  <1>6. GoneOK({}, t, lost')
    BY DEF GoneOK
  <1>8. FrameOK(f, t, lost') /\ f \in Frame
    BY <1>3, <1>6, EntrySaved DEF FrameOK, Entry
  <1>9. StackOK(frames', t, {}, lost')
    <2>1. DOMAIN frames' = {1} /\ Len(frames') = 1 /\ frames'[1] = f
      BY <1>1
    <2>2. \A i, j \in {1} : ~ (j < i)
      OBVIOUS
    <2>3. f.kind \in CreateKinds => f.runs
      BY DEF Entry
    <2> QED BY <1>8, <2>1, <2>2, <2>3 DEF StackOK
  <1> QED BY <1>1, <1>3, <1>4, <1>6, <1>9 DEF FaithInv, Linked

(***************************************************************************)
(* The hooks as such runs.                                                  *)
(***************************************************************************)
SameCell(s, t, w, v, c) ==
    t.db[c] = s.db[c] /\ t.touched[c] = s.touched[c] /\ t.committed[c] = s.committed[c] /\ v[c] = w[c]

LEMMA SameRuns ==
  ASSUME NEW s \in State, NEW t \in State, NEW w, NEW v, NEW c \in Cells, SameCell(s, t, w, v, c)
  PROVE  /\ c \in Codes => /\ v[c] = w[c] /\ t.touched[c] \in Int \cup {Absent}
                           /\ t.touched[c] = Absent => s.touched[c] = Absent
                           /\ RunsCode(s, t, c)
         /\ c \in Plain => RunsPlain(s, t, w, v, c)
  <1>1. t.touched[c] \in Int \cup {Absent} /\ (s.touched[c] # Absent => s.touched[c] \in Int)
    BY StateFacts
  <1>2. s.touched[c] # Absent => t.touched[c] >= s.touched[c]
    BY <1>1 DEF SameCell
  <1>3. RunsCode(s, t, c)
    BY <1>2, Zenon DEF RunsCode, SameCell
  <1>4. RunsPlain(s, t, w, v, c)
    BY Zenon DEF RunsPlain, SameCell, Lag
  <1> QED BY <1>1, <1>3, <1>4, Zenon DEF SameCell

LEMMA RunsOnePlain ==
  ASSUME NEW s \in State, NEW t \in State, NEW w, NEW v, NEW c \in Plain,
         RunsPlain(s, t, w, v, c), \A d \in Cells : d # c => SameCell(s, t, w, v, d)
  PROVE  Runs(s, t, w, v)
  <1>1. ASSUME NEW d \in Codes
        PROVE  v[d] = w[d] /\ t.touched[d] \in Int \cup {Absent}
               /\ (t.touched[d] = Absent => s.touched[d] = Absent) /\ RunsCode(s, t, d)
    <2>1. d \in Cells /\ d # c
      BY PlainFacts
    <2> QED BY <2>1, SameRuns
  <1>2. ASSUME NEW d \in Plain PROVE RunsPlain(s, t, w, v, d)
    <2>1. d \in Cells
      BY PlainFacts
    <2> QED BY <2>1, SameRuns
  <1> QED BY <1>1, <1>2 DEF Runs

LEMMA RunsOneCode ==
  ASSUME NEW s \in State, NEW t \in State, NEW w, NEW c \in Codes, RunsCode(s, t, c),
         t.touched[c] = Absent => s.touched[c] = Absent,
         \A d \in Cells : d # c => SameCell(s, t, w, w, d)
  PROVE  Runs(s, t, w, w)
  <1>1. ASSUME NEW d \in Codes
        PROVE  w[d] = w[d] /\ t.touched[d] \in Int \cup {Absent}
               /\ (t.touched[d] = Absent => s.touched[d] = Absent) /\ RunsCode(s, t, d)
    <2>1. d \in Cells
      BY PlainFacts
    <2>2. t.touched[d] \in Int \cup {Absent}
      BY <2>1, StateFacts
    <2> QED BY <2>1, <2>2, SameRuns
  <1>2. ASSUME NEW d \in Plain PROVE RunsPlain(s, t, w, w, d)
    <2>1. d \in Cells /\ d # c
      BY PlainFacts
    <2> QED BY <2>1, SameRuns
  <1> QED BY <1>1, <1>2 DEF Runs

LEMMA RunsSelf ==
  ASSUME NEW s \in State, NEW w
  PROVE  Runs(s, s, w, w)
  <1>1. \A d \in Cells : SameCell(s, s, w, w, d)
    BY DEF SameCell
  <1> QED BY <1>1, SameRuns, PlainFacts DEF Runs

LEMMA TouchRuns ==
  ASSUME NEW s \in State, NEW w, NEW c \in Others \ Codes
  PROVE  Runs(s, Touch(s, c), w, w) /\ Touch(s, c).touched[c] # Absent
  <1> DEFINE t == Touch(s, c)
  <1>1. c \in Cells /\ c \in Plain /\ c \notin Slots
    BY SlotFacts DEF Plain, Others
  <1>2. /\ t \in State /\ t.db = s.db /\ t.committed = s.committed
        /\ t.touched = [s.touched EXCEPT ![c] = s.db[c]]
    BY <1>1, TouchFacts
  <1>3. s.touched \in Map /\ s.db[c] # Absent
    BY <1>1, StateFacts DEF State
  <1> HIDE DEF t
  <1>4. t.touched[c] # Absent /\ \A d \in Cells : d # c => SameCell(s, t, w, w, d)
    BY <1>1, <1>2, <1>3 DEF Map, SameCell
  <1>5. RunsPlain(s, t, w, w, c)
    BY <1>1, <1>2, <1>4, Zenon DEF RunsPlain, Lag
  <1>6. Runs(s, t, w, w)
    BY <1>1, <1>2, <1>4, <1>5, RunsOnePlain
  <1> QED BY <1>4, <1>6 DEF t

LEMMA FetchTouchRuns ==
  ASSUME NEW s \in State, NEW w, NEW c \in Plain, s.touched[c] = Absent
  PROVE  /\ Runs(s, Touch(Fetch(s, c), c), w, w)
         /\ Touch(Fetch(s, c), c).touched[c] # Absent
  <1> DEFINE t == Fetch(s, c)
             u == Touch(t, c)
  <1>1. c \in Cells /\ Chain[c] # Absent
    BY PlainFacts, ChainFacts
  <1>2. /\ t \in State /\ t.db = [s.db EXCEPT ![c] = Chain[c]] /\ t.touched = s.touched
        /\ t.committed = [s.committed EXCEPT ![c] = Chain[c]]
    BY <1>1, FetchFacts
  <1> HIDE DEF t
  <1>3. /\ u \in State /\ u.db = t.db /\ u.committed = t.committed
        /\ u.touched = [t.touched EXCEPT ![c] = t.db[c]]
    BY <1>1, <1>2, TouchFacts
  <1>4. s.touched \in Map /\ s.db \in [Cells -> Int] /\ s.committed \in Map
    BY DEF State
  <1> HIDE DEF u
  <1>5. /\ u.db[c] = Chain[c] /\ u.touched[c] = Chain[c] /\ u.committed[c] = Chain[c]
        /\ \A d \in Cells : d # c => SameCell(s, u, w, w, d)
    BY <1>1, <1>2, <1>3, <1>4 DEF Map, SameCell
  <1>6. RunsPlain(s, u, w, w, c)
    BY <1>1, <1>5, Zenon DEF RunsPlain, Lag
  <1>7. Runs(s, u, w, w)
    BY <1>3, <1>5, <1>6, RunsOnePlain
  <1> QED BY <1>1, <1>5, <1>7 DEF t, u

LEMMA CheckAndSetRuns ==
  ASSUME NEW s \in State, NEW w, NEW c \in Others \ Codes
  PROVE  Runs(s, CheckAndSet(s, c), w, w) /\ CheckAndSet(s, c).touched[c] # Absent
  <1>1. c \in Plain
    BY DEF Plain, Others
  <1>2. CASE s.touched[c] = Absent
    <2>1. CheckAndSet(s, c) = Touch(Fetch(s, c), c)
      BY <1>2 DEF CheckAndSet
    <2> QED BY <1>1, <1>2, <2>1, FetchTouchRuns
  <1>3. CASE s.touched[c] # Absent
    <2>1. CheckAndSet(s, c) = Touch(s, c)
      BY <1>3 DEF CheckAndSet
    <2> QED BY <2>1, TouchRuns
  <1> QED BY <1>2, <1>3

LEMMA SloadHookRuns ==
  ASSUME NEW s \in State, NEW w, NEW c \in Slots
  PROVE  Runs(s, SloadHook(s, c), w, w)
  <1>1. c \in Plain
    BY PlainFacts
  <1>2. CASE s.touched[c] = Absent
    BY <1>1, <1>2, FetchTouchRuns DEF SloadHook
  <1>3. CASE s.touched[c] # Absent
    BY <1>3, RunsSelf DEF SloadHook
  <1> QED BY <1>2, <1>3

LEMMA AppendCodeValue ==
  ASSUME NEW m \in Map, NEW c \in Codes, NEW n \in Int
  PROVE  /\ AppendCode(m, c, n) \in Map
         /\ \A d \in Cells : d # c => AppendCode(m, c, n)[d] = m[d]
         /\ n = 0 => AppendCode(m, c, n) = m
         /\ n # 0 => AppendCode(m, c, n)[c] = (IF m[c] = Absent THEN 0 ELSE m[c]) + n
  <1>1. AppendCode(m, c, n) \in Map /\ c \in Cells
    BY AppendCodeFacts, PlainFacts
  <1>2. CASE n = 0
    BY <1>1, <1>2 DEF AppendCode
  <1>3. CASE n # 0
    <2> DEFINE x == (IF m[c] = Absent THEN 0 ELSE m[c]) + n
    <2>1. AppendCode(m, c, n) = [m EXCEPT ![c] = x]
      BY <1>3 DEF AppendCode
    <2> HIDE DEF x
    <2>2. AppendCode(m, c, n)[c] = x /\ \A d \in Cells : d # c => AppendCode(m, c, n)[d] = m[d]
      BY <1>1, <2>1 DEF Map
    <2> QED BY <1>1, <1>3, <2>2 DEF x
  <1> QED BY <1>2, <1>3

LEMMA CheckAndSetCodeRuns ==
  ASSUME NEW s \in State, NEW w, NEW c \in Codes, Kept(s)
  PROVE  Runs(s, CheckAndSetCode(s, c), w, w)
  <1> DEFINE t == CheckAndSetCode(s, c)
  <1>1. c \in Cells /\ c \in Others /\ Chain[c] \in Int /\ Chain[c] >= 0 /\ Chain[c] # Absent
    BY PlainFacts, ChainFacts
  <1>2. t \in State
    BY CheckAndSetCodeFacts
  <1>3. KeptCode(s, c) /\ (s.touched[c] = Absent => s.committed[c] = Absent)
    BY <1>1 DEF Kept
  <1>4. s.touched \in Map /\ s.db \in [Cells -> Int] /\ s.committed \in Map
    BY DEF State
  <1>5. CASE s.touched[c] = Absent
    <2> DEFINE p == AppendCode(s.touched, c, Chain[c])
               q == AppendCode(s.committed, c, Chain[c])
    <2>1. t = [s EXCEPT !.db[c] = Chain[c], !.touched = p, !.committed = q]
      BY <1>5, Zenon DEF CheckAndSetCode
    <2>2. /\ \A d \in Cells : d # c => p[d] = s.touched[d] /\ q[d] = s.committed[d]
          /\ Chain[c] = 0 => p = s.touched /\ q = s.committed
          /\ Chain[c] # 0 => p[c] = 0 + Chain[c] /\ q[c] = 0 + Chain[c]
      BY <1>1, <1>3, <1>4, <1>5, AppendCodeValue
    <2> HIDE DEF p, q, t
    <2>3. t.db = [s.db EXCEPT ![c] = Chain[c]] /\ t.touched = p /\ t.committed = q
      BY <2>1 DEF State
    <2>4. t.db[c] = Chain[c] /\ \A d \in Cells : d # c => SameCell(s, t, w, w, d)
      BY <1>1, <1>4, <2>2, <2>3 DEF SameCell
    <2>5. s.db[c] = 0
      BY <1>3, <1>5 DEF KeptCode
    <2>6. RunsCode(s, t, c)
      <3>1. CASE Chain[c] = 0
        BY <1>5, <2>2, <2>3, <2>4, <2>5, <3>1 DEF RunsCode
      <3>2. CASE Chain[c] # 0
        <4>1. p[c] = Chain[c] /\ q[c] = Chain[c] /\ Chain[c] >= Chain[c]
          BY <1>1, <2>2, <3>2
        <4> QED BY <1>1, <1>5, <2>3, <2>4, <3>2, <4>1, Zenon DEF RunsCode
      <3> QED BY <3>1, <3>2
    <2>7. Runs(s, t, w, w)
      BY <1>2, <1>5, <2>4, <2>6, RunsOneCode
    <2> QED BY <2>7 DEF t
  <1>6. CASE s.touched[c] # Absent /\ s.db[c] = 0
    <2>1. t = [s EXCEPT !.db[c] = s.touched[c]]
      BY <1>6, Zenon DEF CheckAndSetCode
    <2> HIDE DEF t
    <2>2. t.db = [s.db EXCEPT ![c] = s.touched[c]] /\ t.touched = s.touched /\ t.committed = s.committed
      BY <2>1 DEF State
    <2>3. t.db[c] = s.touched[c] /\ \A d \in Cells : d # c => SameCell(s, t, w, w, d)
      BY <1>1, <1>4, <2>2 DEF SameCell
    <2>4. s.touched[c] >= s.touched[c]
      BY <1>1, <1>6, StateFacts
    <2>5. RunsCode(s, t, c)
      BY <1>6, <2>2, <2>3, <2>4, Zenon DEF RunsCode
    <2>6. Runs(s, t, w, w)
      BY <1>2, <2>2, <2>3, <2>5, RunsOneCode
    <2> QED BY <2>6 DEF t
  <1>7. CASE s.touched[c] # Absent /\ s.db[c] # 0
    <2>1. t = s
      BY <1>7, Zenon DEF CheckAndSetCode
    <2> QED BY <2>1, RunsSelf
  <1> QED BY <1>5, <1>6, <1>7

\* UpdateTouchedCode after an instruction.
LEMMA TouchCodeRuns ==
  ASSUME NEW s \in State, NEW w, NEW a \in Accounts, Kept(s)
  PROVE  LET t == [s EXCEPT !.touched = AppendCode(@, Code(a), s.db[Code(a)])]
         IN  Runs(s, t, w, w)
  <1> DEFINE c == Code(a)
             p == AppendCode(s.touched, c, s.db[c])
             t == [s EXCEPT !.touched = p]
  <1>1. c \in Codes /\ c \in Cells
    BY CellFacts, SlotFacts
  <1> HIDE DEF c
  <1>2. s.touched \in Map /\ s.db[c] \in Int /\ KeptCode(s, c)
        /\ (s.touched[c] # Absent => s.touched[c] \in Int)
    BY <1>1, StateFacts DEF State, Kept
  <1>3. /\ p \in Map /\ \A d \in Cells : d # c => p[d] = s.touched[d]
        /\ s.db[c] = 0 => p = s.touched
        /\ s.db[c] # 0 => p[c] = (IF s.touched[c] = Absent THEN 0 ELSE s.touched[c]) + s.db[c]
    BY <1>1, <1>2, AppendCodeValue
  <1> HIDE DEF p
  <1>4. t \in State /\ t.db = s.db /\ t.touched = p /\ t.committed = s.committed
    BY <1>3, NewTouched
  <1> HIDE DEF t
  <1>5. \A d \in Cells : d # c => SameCell(s, t, w, w, d)
    BY <1>3, <1>4 DEF SameCell
  <1>6. RunsCode(s, t, c) /\ (t.touched[c] = Absent => s.touched[c] = Absent)
    <2>1. CASE s.db[c] = 0
      <3>1. t.touched[c] = s.touched[c] /\ (s.touched[c] # Absent => t.touched[c] >= s.touched[c])
        BY <1>2, <1>3, <1>4, <2>1
      <3>2. t.db[c] = s.db[c] /\ t.committed[c] = s.committed[c]
        BY <1>4
      <3>3. CASE s.touched[c] = Absent
        BY <3>1, <3>2, <3>3 DEF RunsCode
      <3>4. CASE s.touched[c] # Absent
        BY <3>1, <3>2, <3>4 DEF RunsCode
      <3> QED BY <3>3, <3>4
    <2>2. CASE s.db[c] # 0
      <3>1. s.touched[c] # Absent /\ s.db[c] >= 0
        BY <1>2, <2>2 DEF KeptCode
      <3>2. t.touched[c] = s.touched[c] + s.db[c] /\ s.touched[c] \in Int
        BY <1>2, <1>3, <1>4, <2>2, <3>1
      <3>3. t.touched[c] >= s.touched[c] /\ t.touched[c] # Absent
        BY <1>2, <3>1, <3>2, EvmAssumption
      <3> QED BY <1>4, <2>2, <3>1, <3>3, Zenon DEF RunsCode
    <2> QED BY <2>1, <2>2
  <1>7. Runs(s, t, w, w)
    BY <1>1, <1>4, <1>5, <1>6, RunsOneCode
  <1> QED BY <1>7, Zenon DEF t, p, c

LEMMA AddRuns ==
  ASSUME NEW s \in State, NEW w \in [Cells -> Int], NEW c \in Plain, NEW x \in Int,
         s.touched[c] # Absent
  PROVE  LET t == [s EXCEPT !.db = Add(@, c, x)]
         IN  Runs(s, t, w, Add(w, c, x)) /\ t.touched = s.touched
  <1> DEFINE n == Add(s.db, c, x)
             t == [s EXCEPT !.db = n]
             v == Add(w, c, x)
  <1>1. c \in Cells /\ s.db \in [Cells -> Int]
    BY PlainFacts DEF State
  <1>2. /\ n \in [Cells -> Int] /\ n[c] = s.db[c] + x /\ v[c] = w[c] + x
        /\ \A d \in Cells : d # c => n[d] = s.db[d] /\ v[d] = w[d]
    BY <1>1 DEF Add
  <1> HIDE DEF n, v
  <1>3. t \in State /\ t.db = n /\ t.touched = s.touched /\ t.committed = s.committed
    BY <1>2, NewDb
  <1> HIDE DEF t
  <1>4. Lag(v, t.db, c) = Lag(w, s.db, c)
    <2>1. s.db[c] \in Int /\ w[c] \in Int
      BY <1>1
    <2>2. (w[c] + x) - (s.db[c] + x) = w[c] - s.db[c]
      BY <2>1
    <2> QED BY <1>2, <1>3, <2>2 DEF Lag
  <1>5. RunsPlain(s, t, w, v, c)
    BY <1>3, <1>4 DEF RunsPlain
  <1>6. \A d \in Cells : d # c => SameCell(s, t, w, v, d)
    BY <1>2, <1>3 DEF SameCell
  <1>7. Runs(s, t, w, v)
    BY <1>3, <1>5, <1>6, RunsOnePlain
  <1> QED BY <1>3, <1>7, Zenon DEF t, n, v

\* The cells of an account, apart.
LEMMA AccountCells ==
  ASSUME NEW a \in Accounts
  PROVE  /\ Balance(a) \in Others \ Codes /\ Nonce(a) \in Others \ Codes /\ Code(a) \in Codes
         /\ Balance(a) \in Plain /\ Nonce(a) \in Plain
  BY DEF Balance, Nonce, Code, Others, Cells, Slots, Balances, Nonces, Codes, Plain

LEMMA RunsTouched ==
  ASSUME NEW s, NEW t, NEW w, NEW v, Runs(s, t, w, v), NEW c \in Cells, s.touched[c] # Absent
  PROVE  t.touched[c] # Absent
  <1>1. CASE c \in Codes
    BY <1>1 DEF Runs
  <1>2. CASE c \in Plain
    BY <1>2 DEF Runs, RunsPlain
  <1> QED BY <1>1, <1>2, PlainFacts

LEMMA SetCodeBalanceNonceRuns ==
  ASSUME NEW s \in State, NEW w \in [Cells -> Int], NEW a \in Accounts, Kept(s)
  PROVE  Runs(s, SetCodeBalanceNonce(s, a), w, w)
  <1> DEFINE t == CheckAndSetCode(s, Code(a))
             u == CheckAndSet(t, Balance(a))
             x == CheckAndSet(u, Nonce(a))
  <1>1. Runs(s, t, w, w)
    BY AccountCells, CheckAndSetCodeRuns
  <1>2. t \in State
    BY <1>1 DEF Runs
  <1> HIDE DEF t
  <1>3. Runs(t, u, w, w)
    BY <1>2, AccountCells, CheckAndSetRuns
  <1>4. u \in State
    BY <1>3 DEF Runs
  <1> HIDE DEF u
  <1>5. Runs(u, x, w, w)
    BY <1>4, AccountCells, CheckAndSetRuns
  <1> HIDE DEF x
  <1>6. Runs(s, u, w, w)
    BY <1>1, <1>3, RunsTrans
  <1>7. Runs(s, x, w, w)
    BY <1>5, <1>6, RunsTrans
  <1> QED BY <1>7 DEF SetCodeBalanceNonce, t, u, x

LEMMA TouchBothRuns ==
  ASSUME NEW s \in State, NEW w \in [Cells -> Int], NEW c \in Others \ Codes, NEW d \in Others \ Codes,
         Kept(s)
  PROVE  Runs(s, Touch(Touch(s, c), d), w, w)
  <1> DEFINE t == Touch(s, c)
  <1>1. Runs(s, t, w, w)
    BY TouchRuns
  <1>2. t \in State
    BY <1>1 DEF Runs
  <1> HIDE DEF t
  <1>3. Runs(t, Touch(t, d), w, w)
    BY <1>2, TouchRuns
  <1>4. Runs(s, Touch(t, d), w, w)
    BY <1>1, <1>3, RunsTrans
  <1> QED BY <1>4 DEF t

LEMMA AfterCallRuns ==
  ASSUME NEW s \in State, NEW w \in [Cells -> Int], NEW f, f.from \in Accounts, f.to \in Accounts,
         f.kind \in CallKinds \cup CreateKinds, Kept(s)
  PROVE  Runs(s, AfterCall(s, f), w, w)
  <1> DEFINE balances(t) == Touch(Touch(t, Balance(f.from)), Balance(f.to))
             nonces(t) == Touch(Touch(t, Nonce(f.from)), Nonce(f.to))
             code(t) == [t EXCEPT !.touched = AppendCode(@, Code(f.to), t.db[Code(f.to)])]
  <1>1. /\ Balance(f.from) \in Others \ Codes /\ Nonce(f.from) \in Others \ Codes
        /\ Balance(f.to) \in Others \ Codes /\ Nonce(f.to) \in Others \ Codes
    BY AccountCells
  <1>2. ASSUME NEW t \in State, Kept(t)
        PROVE  Runs(t, balances(t), w, w) /\ Runs(t, nonces(t), w, w) /\ Runs(t, code(t), w, w)
    BY <1>1, <1>2, TouchBothRuns, TouchCodeRuns
  <1>3. ASSUME NEW t, NEW u, Runs(s, t, w, w), Runs(t, u, w, w)
        PROVE  Runs(s, u, w, w) /\ t \in State /\ u \in State /\ Kept(t) /\ Kept(u)
    <2>1. Runs(s, u, w, w)
      BY <1>3, RunsTrans
    <2> QED BY <1>3, <2>1, RunsKept DEF Runs
  <1>4. Runs(s, s, w, w)
    BY RunsSelf
  <1>5. CASE f.kind \in {"CALL", "CALLCODE"}
    <2>1. AfterCall(s, f) = nonces(balances(s))
      BY <1>5, Zenon DEF AfterCall
    <2> HIDE DEF balances, nonces, code
    <2>2. Runs(s, balances(s), w, w) /\ balances(s) \in State /\ Kept(balances(s))
      BY <1>2, <1>3, <1>4
    <2>3. Runs(s, nonces(balances(s)), w, w)
      BY <1>2, <1>3, <2>2
    <2> QED BY <2>1, <2>3
  <1>6. CASE f.kind = "CREATE"
    <2>1. AfterCall(s, f) = code(nonces(balances(s)))
      BY <1>6, Zenon DEF AfterCall
    <2> HIDE DEF balances, nonces, code
    <2>2. Runs(s, balances(s), w, w) /\ balances(s) \in State /\ Kept(balances(s))
      BY <1>2, <1>3, <1>4
    <2>3. Runs(balances(s), nonces(balances(s)), w, w)
      BY <1>2, <2>2
    <2>4. Runs(s, nonces(balances(s)), w, w) /\ nonces(balances(s)) \in State /\ Kept(nonces(balances(s)))
      BY <1>3, <2>2, <2>3
    <2>5. Runs(s, code(nonces(balances(s))), w, w)
      BY <1>2, <1>3, <2>4
    <2> QED BY <2>1, <2>5
  <1>7. CASE f.kind = "CREATE2"
    <2>1. AfterCall(s, f) = nonces(code(s))
      BY <1>7, Zenon DEF AfterCall
    <2> HIDE DEF balances, nonces, code
    <2>2. Runs(s, code(s), w, w) /\ code(s) \in State /\ Kept(code(s))
      BY <1>2, <1>3, <1>4
    <2>3. Runs(s, nonces(code(s)), w, w)
      BY <1>2, <1>3, <2>2
    <2> QED BY <2>1, <2>3
  <1>8. CASE f.kind \in {"DELEGATECALL", "STATICCALL"}
    <2>1. f.kind \notin {"CALL", "CALLCODE"} /\ f.kind # "CREATE" /\ f.kind # "CREATE2"
      BY <1>8
    <2>2. AfterCall(s, f) = s
      BY <2>1, Zenon DEF AfterCall
    <2> QED BY <1>4, <2>2
  <1> QED BY <1>5, <1>6, <1>7, <1>8 DEF CallKinds, CreateKinds

LEMMA PreCheckedRuns ==
  ASSUME NEW from \in Accounts, acct \in State, Kept(acct), NEW w \in [Cells -> Int]
  PROVE  /\ Runs(acct, PreChecked(from), w, w)
         /\ PreChecked(from).touched[Balance(from)] # Absent
         /\ PreChecked(from).touched[Nonce(from)] # Absent
  <1> DEFINE t == CheckAndSet(acct, Balance(from))
             u == CheckAndSet(t, Nonce(from))
  <1>1. /\ Balance(from) \in Others \ Codes /\ Nonce(from) \in Others \ Codes
        /\ Balance(from) \in Cells
    BY AccountCells, PlainFacts
  <1>2. Runs(acct, t, w, w) /\ t.touched[Balance(from)] # Absent
    BY <1>1, CheckAndSetRuns
  <1>3. t \in State
    BY <1>2 DEF Runs
  <1> HIDE DEF t
  <1>4. Runs(t, u, w, w) /\ u.touched[Nonce(from)] # Absent
    BY <1>1, <1>3, CheckAndSetRuns
  <1> HIDE DEF u
  <1>5. u.touched[Balance(from)] # Absent
    BY <1>1, <1>2, <1>4, RunsTouched
  <1>6. Runs(acct, u, w, w)
    BY <1>2, <1>4, RunsTrans
  <1> QED BY <1>4, <1>5, <1>6 DEF PreChecked, t, u

(***************************************************************************)
(* Writes that the StateDB and the chain make alike.                        *)
(***************************************************************************)
LEMMA AddShifted ==
  ASSUME NEW m \in [Cells -> Int], NEW w \in [Cells -> Int], NEW c \in Plain, NEW x \in Int
  PROVE  Shifted(m, Add(m, c, x), w, Add(w, c, x)) /\ Add(m, c, x) \in [Cells -> Int]
  <1> DEFINE n == Add(m, c, x)
             v == Add(w, c, x)
  <1>1. c \in Cells
    BY PlainFacts
  <1>2. /\ n \in [Cells -> Int] /\ n[c] = m[c] + x /\ v[c] = w[c] + x
        /\ \A d \in Cells : d # c => n[d] = m[d] /\ v[d] = w[d]
    BY <1>1 DEF Add
  <1> HIDE DEF n, v
  <1>3. Lag(v, n, c) = Lag(w, m, c)
    <2>1. m[c] \in Int /\ w[c] \in Int
      BY <1>1
    <2>2. (w[c] + x) - (m[c] + x) = w[c] - m[c]
      BY <2>1
    <2> QED BY <1>2, <2>2 DEF Lag
  <1>4. \A d \in Codes : d \in Cells /\ d # c
    BY PlainFacts
  <1>5. ASSUME NEW d \in Plain PROVE Lag(v, n, d) = Lag(w, m, d)
    <2>1. d \in Cells
      BY PlainFacts
    <2> QED BY <1>2, <1>3, <2>1 DEF Lag
  <1>6. Shifted(m, n, w, v)
    BY <1>2, <1>4, <1>5 DEF Shifted
  <1> QED BY <1>2, <1>6 DEF n, v

LEMMA ShiftedTrans ==
  ASSUME NEW m, NEW n, NEW p, NEW w, NEW v, NEW x, Shifted(m, n, w, v), Shifted(n, p, v, x)
  PROVE  Shifted(m, p, w, x)
  BY DEF Shifted

LEMMA TransferShifted ==
  ASSUME NEW m \in [Cells -> Int], NEW w \in [Cells -> Int], NEW a \in Accounts, NEW b \in Accounts,
         NEW x \in Int
  PROVE  Shifted(m, Transfer(m, a, b, x), w, Transfer(w, a, b, x))
         /\ Transfer(m, a, b, x) \in [Cells -> Int] /\ Transfer(w, a, b, x) \in [Cells -> Int]
  <1> DEFINE n == Add(m, Balance(a), -x)
             v == Add(w, Balance(a), -x)
  <1>1. Balance(a) \in Plain /\ Balance(b) \in Plain /\ -x \in Int
    BY AccountCells
  <1>2. Shifted(m, n, w, v) /\ n \in [Cells -> Int] /\ v \in [Cells -> Int]
    BY <1>1, AddShifted
  <1> HIDE DEF n, v
  <1>3. /\ Shifted(n, Add(n, Balance(b), x), v, Add(v, Balance(b), x))
        /\ Add(n, Balance(b), x) \in [Cells -> Int] /\ Add(v, Balance(b), x) \in [Cells -> Int]
    BY <1>1, <1>2, AddShifted
  <1>4. Shifted(m, Add(n, Balance(b), x), w, Add(v, Balance(b), x))
    BY <1>2, <1>3, ShiftedTrans
  <1> QED BY <1>3, <1>4 DEF Transfer, n, v

(***************************************************************************)
(* Instructions.                                                            *)
(***************************************************************************)
LEMMA FaithRuns ==
  ASSUME Inv, FaithInv, Running, NEW t, Step(t, world), Runs(acct, t, world, world)
  PROVE  FaithInv'
  <1>1. acct \in State /\ Kept(acct) /\ world \in [Cells -> Int]
    BY RunningLinked DEF Running
  <1> QED BY <1>1, RunsCarries, FaithStep

LEMMA FaithSload ==
  ASSUME Inv, FaithInv, NEW k \in Keys, Sload(k)
  PROVE  FaithInv'
  <1> DEFINE c == Storage(Top.self, k)
  <1>1. Running /\ Step(SloadHook(acct, c), world)
    BY DEF Sload
  <1>2. acct \in State /\ c \in Slots
    BY <1>1, RunningFacts, CellFacts
  <1> HIDE DEF c
  <1>3. Runs(acct, SloadHook(acct, c), world, world)
    BY <1>2, SloadHookRuns
  <1> QED BY <1>1, <1>3, FaithRuns

LEMMA FaithReadBalance ==
  ASSUME Inv, FaithInv, NEW a \in Accounts, ReadBalance(a)
  PROVE  FaithInv'
  <1>1. Running /\ Step(CheckAndSet(acct, Balance(a)), world)
    BY DEF ReadBalance
  <1>2. Runs(acct, CheckAndSet(acct, Balance(a)), world, world)
    BY <1>1, RunningFacts, AccountCells, CheckAndSetRuns
  <1> QED BY <1>1, <1>2, FaithRuns

LEMMA FaithReadCode ==
  ASSUME Inv, FaithInv, NEW a \in Accounts, ReadCode(a)
  PROVE  FaithInv'
  <1>1. Running /\ Step(CheckAndSetCode(acct, Code(a)), world)
    BY DEF ReadCode
  <1>2. acct \in State /\ Kept(acct)
    BY <1>1, RunningLinked DEF Running
  <1>3. Runs(acct, CheckAndSetCode(acct, Code(a)), world, world)
    BY <1>2, AccountCells, CheckAndSetCodeRuns
  <1> QED BY <1>1, <1>3, FaithRuns

LEMMA FaithSstore ==
  ASSUME Inv, FaithInv, NEW k \in Keys, NEW x \in Values, Sstore(k, x)
  PROVE  FaithInv'
  <1> DEFINE c == Storage(Top.self, k)
             s == SstoreHook(acct, c)
             t == [s EXCEPT !.db[c] = x, !.touched[c] = x]
             v == Put(world, c, x)
  <1>1. Running /\ Step(t, v)
    BY DEF Sstore
  <1>2. acct \in State /\ world \in [Cells -> Int] /\ Kept(acct)
    BY <1>1, RunningLinked DEF Running
  <1>3. c \in Slots /\ c \in Cells /\ c \in Plain /\ c \notin Others
    <2>1. c \in Slots
      BY <1>1, RunningFacts, CellFacts
    <2> QED BY <2>1, SlotFacts, PlainFacts DEF Others
  <1>4. x \in Int /\ x # Absent
    BY EvmAssumption
  <1> HIDE DEF c
  <1>5. /\ s \in State /\ s.touched = acct.touched
        /\ \A d \in Cells : d # c => s.db[d] = acct.db[d] /\ s.committed[d] = acct.committed[d]
        /\ s.committed[c] = IF acct.touched[c] = Absent THEN Chain[c] ELSE acct.committed[c]
    BY <1>2, <1>3, SstoreHookFacts
  <1> HIDE DEF s
  <1>6. s.db \in [Cells -> Int] /\ s.touched \in Map /\ s.committed \in Map
    BY <1>5 DEF State
  <1>7. /\ t \in State /\ t.db = [s.db EXCEPT ![c] = x]
        /\ t.touched = [s.touched EXCEPT ![c] = x] /\ t.committed = s.committed
    BY <1>3, <1>4, <1>5 DEF State, Map
  <1>8. v \in [Cells -> Int] /\ v[c] = x /\ \A d \in Cells : d # c => v[d] = world[d]
    BY <1>2, <1>3, <1>4 DEF Put
  <1> HIDE DEF t, v
  <1>9. /\ t.db[c] = x /\ t.touched[c] = x
        /\ \A d \in Cells : d # c => SameCell(acct, t, world, v, d)
    BY <1>3, <1>5, <1>6, <1>7, <1>8 DEF Map, SameCell
  <1>10. \A d \in Codes : d \in Cells /\ d # c
    BY <1>3, PlainFacts
  <1>11. \A d \in Others : d \in Cells /\ d # c
    BY <1>3, SlotFacts
  <1>12. Kept(t)
    <2>1. \A d \in Codes : KeptCode(t, d)
      BY <1>2, <1>9, <1>10, Zenon DEF Kept, KeptCode, SameCell
    <2>2. \A d \in Others : t.touched[d] = Absent => t.committed[d] = Absent
      BY <1>2, <1>9, <1>11, Zenon DEF Kept, SameCell
    <2>3. \A d \in Cells : t.touched[d] = Absent => t.committed[d] \in {Absent, Chain[d]}
      BY <1>2, <1>4, <1>9 DEF Kept, SameCell
    <2> QED BY <2>1, <2>2, <2>3 DEF Kept
  <1>13. Onward(acct, t)
    <2>1. ASSUME NEW d \in Cells
          PROVE  /\ \/ t.committed[d] = acct.committed[d]
                    \/ acct.touched[d] = Absent /\ t.committed[d] = Chain[d]
                 /\ acct.touched[d] # Absent => t.touched[d] # Absent
      BY <1>4, <1>5, <1>7, <1>9 DEF SameCell
    <2>2. ASSUME NEW d \in Codes
          PROVE  /\ acct.touched[d] # Absent => t.touched[d] >= acct.touched[d]
                 /\ acct.touched[d] = Absent /\ Chain[d] = 0 => t.committed[d] = acct.committed[d]
      <3>1. SameCell(acct, t, world, v, d) /\ d \in Cells
        BY <1>9, <1>10
      <3> QED BY <1>2, <3>1, StateFacts DEF SameCell
    <2> QED BY <2>1, <2>2 DEF Onward
  <1>14. CodeLives(acct.db, t.db)
    BY <1>9, <1>10 DEF CodeLives, SameCell
  <1>15. ASSUME NEW d \in Cells, CellOK(acct.db, acct.touched, world, d)
         PROVE  CellOK(t.db, t.touched, v, d)
    <2>1. CASE d = c
      <3>1. c \notin Codes /\ v[c] - t.db[c] = 0
        BY <1>3, <1>4, <1>8, <1>9, PlainFacts
      <3> QED BY <1>4, <1>9, <2>1, <3>1 DEF CellOK, Lag
    <2>2. CASE d # c
      <3>1. SameCell(acct, t, world, v, d)
        BY <1>9, <2>2
      <3> QED BY <1>15, <3>1, Zenon DEF CellOK, Lag, SameCell
    <2> QED BY <2>1, <2>2
  <1>16. Carries(acct, t, world, v)
    BY <1>7, <1>12, <1>13, <1>14, <1>15 DEF Carries
  <1> QED BY <1>1, <1>16, FaithStep

\* The ether that goes with a call.
LEMMA SendShifted ==
  ASSUME NEW m \in [Cells -> Int], NEW w \in [Cells -> Int], NEW kind, NEW a \in Accounts,
         NEW b \in Accounts, NEW x \in Int
  PROVE  LET send(y) == IF kind = "CALL" THEN Transfer(y, a, b, x) ELSE y
         IN  Shifted(m, send(m), w, send(w)) /\ send(m) \in [Cells -> Int] /\ send(w) \in [Cells -> Int]
  <1>1. CASE kind = "CALL"
    BY <1>1, TransferShifted
  <1>2. CASE kind # "CALL"
    <2>1. Shifted(m, m, w, w)
      BY DEF Shifted
    <2> QED BY <1>2, <2>1
  <1> QED BY <1>1, <1>2

LEMMA FaithCall ==
  ASSUME Inv, FaithInv, NEW kind \in CallKinds, NEW to \in Accounts, NEW x \in Amounts,
         Call(kind, to, x)
  PROVE  FaithInv'
  <1> DEFINE s == SetCodeBalanceNonce(acct, to)
             send(m) == IF kind = "CALL" THEN Transfer(m, Top.self, to, x) ELSE m
             f == [kind |-> kind, from |-> Top.self, to |-> to,
                   self |-> Self(kind, Top.self, to),
                   readOnly |-> Top.readOnly \/ kind = "STATICCALL",
                   runs |-> s.db[Code(to)] # 0, gone |-> gone,
                   db |-> s.db, touched |-> s.touched, world |-> world]
             t == [s EXCEPT !.db = send(@)]
  <1>1. Running
    BY DEF Call
  <1>2. IF Len(frames) < MaxDepth /\ x <= s.db[Balance(Top.self)]
          THEN Push(t, f, send(world)) ELSE Step(AfterCall(s, f), world)
    BY Zenon DEF Call
  <1>3. /\ acct \in State /\ world \in [Cells -> Int] /\ Kept(acct) /\ gone \in SUBSET Accounts
        /\ Follows(acct.db, acct.touched, world, lost) /\ StackOK(frames, acct, gone, lost)
        /\ frames \in Seq(Frame)
    BY <1>1, RunningLinked DEF Running
  <1>4. /\ Top \in Frame /\ Top.self \in Accounts /\ Top.readOnly \in BOOLEAN /\ x \in Int
        /\ Self(kind, Top.self, to) \in {Top.self, to}
    BY <1>1, RunningFacts, EvmAssumption DEF Self
  <1>5. Runs(acct, s, world, world)
    BY <1>3, SetCodeBalanceNonceRuns
  <1> HIDE DEF s
  <1>6. s \in State /\ Kept(s) /\ CodeLives(acct.db, s.db) /\ Carries(acct, s, world, world)
    BY <1>3, <1>5, RunsKept, RunsOnward, RunsCarries DEF Runs
  <1>7. s.db \in [Cells -> Int] /\ s.touched \in Map
    BY <1>6 DEF State
  <1>8. f \in Frame
    <2> DEFINE p == Top.readOnly \/ kind = "STATICCALL"
               q == s.db[Code(to)] # 0
               self == Self(kind, Top.self, to)
    <2>1. p \in BOOLEAN /\ q \in BOOLEAN /\ self \in Accounts
      BY <1>4
    <2> HIDE DEF p, q, self
    <2>2. [kind |-> kind, from |-> Top.self, to |-> to, self |-> self, readOnly |-> p, runs |-> q,
           gone |-> gone, db |-> s.db, touched |-> s.touched, world |-> world] \in Frame
      BY <1>3, <1>4, <1>7, <2>1 DEF Frame
    <2> QED BY <2>2, Zenon DEF p, q, self
  <1>9. CASE Len(frames) < MaxDepth /\ x <= s.db[Balance(Top.self)]
    <2>1. Push(t, f, send(world))
      BY <1>2, <1>9
    <2>2. /\ Shifted(s.db, send(s.db), world, send(world))
          /\ send(s.db) \in [Cells -> Int]
      BY <1>3, <1>4, <1>7, SendShifted
    <2> HIDE DEF send
    <2>3. Carries(acct, t, world, send(world))
      BY <1>3, <1>6, <2>2, CarriesShifted
    <2>4. t.touched = s.touched /\ t.db = send(s.db) /\ t.committed = s.committed
      BY <1>6, <2>2, NewDb
    <2>5. /\ f.touched = s.touched /\ f.db = s.db /\ f.world = world /\ f.gone = gone
          /\ f.kind = kind /\ f.self = Self(kind, Top.self, to) /\ f.runs = (s.db[Code(to)] # 0)
      OBVIOUS
    <2> HIDE DEF f
    <2>6. \A c \in Codes : t.db[c] = s.db[c]
      BY <2>2, <2>4 DEF Shifted
    <2>7. Follows(f.db, f.touched, f.world, lost')
      <3>1. lost' = lost \cup Losses(acct, t, Append(frames, f))
        BY <2>1 DEF Push
      <3> SUFFICES ASSUME NEW c \in Cells \ lost' PROVE CellOK(s.db, s.touched, world, c)
        BY <2>5 DEF Follows
      <3>2. CellOK(acct.db, acct.touched, world, c)
        BY <1>3, <3>1 DEF Follows
      <3>3. c \notin Overwritten(acct, s) \cup Unread(s)
        BY <2>4, <3>1 DEF Losses, Overwritten, Unread
      <3> QED BY <1>6, <3>2, <3>3 DEF Carries
    <2>8. Live(f, t.db)
      <3>1. Code(to) \in Codes /\ Code(Top.self) \in Codes
        BY <1>4, AccountCells
      <3>2. CASE f.self = to
        BY <2>5, <2>6, <3>1, <3>2 DEF Live
      <3>3. CASE f.self = Top.self
        <4>1. Live(Top, acct.db)
          <5>1. Len(frames) \in DOMAIN frames
            BY <1>1, <1>3, TypeFacts DEF Inv, Running
          <5> QED BY <1>3, <5>1 DEF StackOK, FrameOK, Top
        <4>2. Top.runs
          BY <1>1 DEF Running
        <4>3. Chain[Code(Top.self)] = 0 \/ acct.db[Code(Top.self)] # 0
          BY <4>1, <4>2 DEF Live
        <4> QED BY <1>6, <2>6, <3>1, <3>3, <4>3 DEF Live, CodeLives
      <3> QED BY <1>4, <2>5, <3>2, <3>3
    <2>9. f.kind \notin CreateKinds
      BY <2>5 DEF CallKinds, CreateKinds
    <2>10. Entry(f, t, lost')
      BY <1>8, <2>4, <2>5, <2>6, <2>7, <2>8, <2>9 DEF Entry
    <2> QED BY <1>1, <2>1, <2>3, <2>5, <2>10, FaithPush
  <1>10. CASE ~ (Len(frames) < MaxDepth /\ x <= s.db[Balance(Top.self)])
    <2>1. Step(AfterCall(s, f), world)
      BY <1>2, <1>10
    <2>2. f.from \in Accounts /\ f.to \in Accounts /\ f.kind \in CallKinds \cup CreateKinds
      <3> HIDE DEF f
      <3> QED BY <1>8 DEF Frame
    <2> HIDE DEF f
    <2>3. Runs(s, AfterCall(s, f), world, world)
      BY <1>3, <1>6, <2>2, AfterCallRuns
    <2>4. Runs(acct, AfterCall(s, f), world, world)
      BY <1>3, <1>5, <2>3, RunsTrans
    <2> QED BY <1>1, <2>1, <2>4, FaithRuns
  <1> QED BY <1>9, <1>10

\* The new account, at an address without nonce at the node.
LEMMA CreateCell ==
  ASSUME NEW m \in [Cells -> Int], NEW w \in [Cells -> Int], NEW k, NEW a \in Fresh
  PROVE  /\ Create(m, a) \in [Cells -> Int] /\ Create(w, a) \in [Cells -> Int]
         /\ \A c \in Codes : Create(m, a)[c] = m[c]
         /\ \A c \in Cells : CellOK(m, k, w, c) => CellOK(Create(m, a), k, Create(w, a), c)
  <1> DEFINE d == Nonce(a)
             n == Create(m, a)
             v == Create(w, a)
  <1>1. d \in Plain /\ d \in Cells /\ d \notin Codes /\ Chain[d] = 0
    BY AccountCells, PlainFacts, EvmAssumption, StateAssumption
  <1>2. n = [m EXCEPT ![d] = 1] /\ v = [w EXCEPT ![d] = 1]
    BY DEF Create, Put
  <1> HIDE DEF d, n, v
  <1>3. /\ n \in [Cells -> Int] /\ v \in [Cells -> Int] /\ n[d] = 1 /\ v[d] = 1
        /\ \A c \in Cells : c # d => n[c] = m[c] /\ v[c] = w[c]
    BY <1>1, <1>2
  <1>4. \A c \in Codes : n[c] = m[c]
    BY <1>1, <1>3, PlainFacts
  <1>5. ASSUME NEW c \in Cells, CellOK(m, k, w, c) PROVE CellOK(n, k, v, c)
    <2>1. CASE c = d
      <3>1. Lag(v, n, d) = 0
        BY <1>3 DEF Lag
      <3> QED BY <1>1, <2>1, <3>1 DEF CellOK
    <2>2. CASE c # d
      <3>1. n[c] = m[c] /\ v[c] = w[c]
        BY <1>3, <2>2
      <3> QED BY <1>5, <3>1, Zenon DEF CellOK, Lag
    <2> QED BY <2>1, <2>2
  <1> QED BY <1>3, <1>4, <1>5 DEF n, v

SameCodes(m, n) == \A c \in Codes : n[c] = m[c]

LEMMA MadeCodes ==
  ASSUME NEW m \in [Cells -> Int], NEW a \in Accounts, NEW b \in Fresh, NEW x \in Int
  PROVE  /\ SameCodes(m, Transfer(Create(m, b), a, b, x))
         /\ Transfer(Create(m, b), a, b, x) \in [Cells -> Int]
  <1> DEFINE n == Create(m, b)
  <1>1. b \in Accounts
    BY EvmAssumption
  <1>2. n \in [Cells -> Int] /\ \A c \in Codes : n[c] = m[c]
    BY CreateCell
  <1> HIDE DEF n
  <1>3. Shifted(n, Transfer(n, a, b, x), n, Transfer(n, a, b, x)) /\ Transfer(n, a, b, x) \in [Cells -> Int]
    BY <1>1, <1>2, TransferShifted
  <1>4. SameCodes(m, Transfer(n, a, b, x))
    BY <1>2, <1>3 DEF Shifted, SameCodes
  <1> QED BY <1>3, <1>4 DEF n

LEMMA CarriesMade ==
  ASSUME NEW s \in State, NEW t, NEW w, NEW v \in [Cells -> Int], NEW a \in Accounts, NEW b \in Fresh,
         NEW x \in Int, Carries(s, t, w, v), NEW q, q = [t EXCEPT !.db = Transfer(Create(t.db, b), a, b, x)]
  PROVE  /\ Carries(s, q, w, Transfer(Create(v, b), a, b, x))
         /\ q.touched = t.touched /\ q.committed = t.committed
         /\ SameCodes(t.db, q.db)
  <1> DEFINE n == Create(t.db, b)
             y == Create(v, b)
             r == [t EXCEPT !.db = n]
             p == Transfer(n, a, b, x)
             z == Transfer(y, a, b, x)
             u == [r EXCEPT !.db = p]
  <1>1. t \in State /\ t.db \in [Cells -> Int] /\ b \in Accounts
    BY EvmAssumption DEF Carries, State
  <1>2. /\ n \in [Cells -> Int] /\ y \in [Cells -> Int] /\ \A c \in Codes : n[c] = t.db[c]
        /\ \A c \in Cells : CellOK(t.db, t.touched, v, c) => CellOK(n, t.touched, y, c)
    BY <1>1, CreateCell
  <1> HIDE DEF n, y
  <1>3. Carries(s, r, w, y)
    BY <1>2, CarriesWrite
  <1>4. r \in State /\ r.db = n /\ r.touched = t.touched /\ r.committed = t.committed
    BY <1>1, <1>2, NewDb
  <1>5. Shifted(n, p, y, z) /\ p \in [Cells -> Int]
    BY <1>1, <1>2, TransferShifted
  <1> HIDE DEF p, z, r
  <1>6. Carries(s, u, w, z)
    BY <1>3, <1>4, <1>5, CarriesShifted
  <1>7. u.db = p /\ u.touched = t.touched /\ u.committed = t.committed
    BY <1>4, <1>5, NewDb
  <1>8. \A c \in Codes : u.db[c] = t.db[c]
    BY <1>2, <1>5, <1>7 DEF Shifted
  <1>9. u = [t EXCEPT !.db = p]
    BY <1>1, <1>2 DEF u, r, State
  <1> HIDE DEF u
  <1>10. u = q
    BY <1>9, Zenon DEF n, p
  <1> QED BY <1>6, <1>7, <1>8, <1>10, Zenon DEF y, z, SameCodes

LEMMA OnwardTouch ==
  ASSUME NEW s \in State, NEW t \in State, NEW u \in State, Onward(s, t), Onward(t, u),
         u.committed = t.committed
  PROVE  Onward(s, u)
  <1>1. ASSUME NEW c \in Cells
        PROVE  /\ \/ u.committed[c] = s.committed[c]
                  \/ s.touched[c] = Absent /\ u.committed[c] = Chain[c]
               /\ s.touched[c] # Absent => u.touched[c] # Absent
    BY DEF Onward
  <1>2. ASSUME NEW c \in Codes
        PROVE  /\ s.touched[c] # Absent => u.touched[c] >= s.touched[c]
               /\ s.touched[c] = Absent /\ Chain[c] = 0 => u.committed[c] = s.committed[c]
    <2>1. c \in Cells
      BY PlainFacts
    <2>2. ASSUME s.touched[c] # Absent PROVE u.touched[c] >= s.touched[c]
      <3>1. t.touched[c] # Absent /\ u.touched[c] # Absent
        BY <2>1, <2>2 DEF Onward
      <3>2. s.touched[c] \in Int /\ t.touched[c] \in Int /\ u.touched[c] \in Int
        BY <2>1, <2>2, <3>1, StateFacts
      <3>3. t.touched[c] >= s.touched[c] /\ u.touched[c] >= t.touched[c]
        BY <2>2, <3>1 DEF Onward
      <3> QED BY <3>2, <3>3
    <2> QED BY <2>2 DEF Onward
  <1> QED BY <1>1, <1>2 DEF Onward

\* What the hook after an instruction touches.
LEMMA CarriesTouch ==
  ASSUME NEW s \in State, NEW t, NEW u, NEW w \in [Cells -> Int], NEW v \in [Cells -> Int],
         Carries(s, t, w, v), Runs(t, u, v, v), u.committed = t.committed, SameSlots(t.touched, u.touched)
  PROVE  Carries(s, u, w, v)
  <1>1. t \in State /\ Kept(t) /\ Onward(s, t) /\ CodeLives(s.db, t.db)
    BY DEF Carries
  <1>2. u \in State /\ Kept(u) /\ Onward(t, u) /\ CodeLives(t.db, u.db)
    BY <1>1, RunsKept, RunsOnward DEF Runs
  <1>3. Onward(s, u)
    BY <1>1, <1>2, OnwardTouch
  <1>4. CodeLives(s.db, u.db)
    BY <1>1, <1>2 DEF CodeLives
  <1>5. ASSUME NEW c \in Cells, CellOK(s.db, s.touched, w, c), c \notin Overwritten(s, u) \cup Unread(u)
        PROVE  CellOK(u.db, u.touched, v, c)
    <2>1. c \notin Overwritten(s, t) \cup Unread(t)
      BY <1>2, <1>5 DEF Overwritten, Unread, Onward
    <2>2. CellOK(t.db, t.touched, v, c)
      BY <1>5, <2>1 DEF Carries
    <2>3. c \notin Overwritten(t, u)
      <3> SUFFICES ASSUME t.touched[c] = Absent, u.touched[c] # Absent, u.committed[c] # Absent
                   PROVE  FALSE
        BY DEF Overwritten
      <3>1. c \notin Slots
        BY DEF SameSlots
      <3>2. t.committed[c] = Absent
        BY <1>1, <3>1 DEF Kept, Others
      <3> QED BY <3>2
    <2> QED BY <1>1, <1>5, <2>2, <2>3, RunsCell
  <1> QED BY <1>2, <1>3, <1>4, <1>5 DEF Carries

LEMMA AfterCallCommitted ==
  ASSUME NEW s \in State, NEW f, f.from \in Accounts, f.to \in Accounts,
         f.kind \in CallKinds \cup CreateKinds
  PROVE  AfterCall(s, f).committed = s.committed /\ SameSlots(s.touched, AfterCall(s, f).touched)
  <1> DEFINE balances(t) == Touch(Touch(t, Balance(f.from)), Balance(f.to))
             nonces(t) == Touch(Touch(t, Nonce(f.from)), Nonce(f.to))
             code(t) == [t EXCEPT !.touched = AppendCode(@, Code(f.to), t.db[Code(f.to)])]
  <1>1. /\ Balance(f.from) \in Others /\ Nonce(f.from) \in Others
        /\ Balance(f.to) \in Others /\ Nonce(f.to) \in Others
    BY CellFacts
  <1>2. ASSUME NEW t \in State, NEW c \in Others, NEW d \in Others
        PROVE  Touch(Touch(t, c), d).committed = t.committed /\ Touch(Touch(t, c), d) \in State
    <2>1. c \in Cells /\ d \in Cells
      BY SlotFacts
    <2>2. Touch(t, c) \in State /\ Touch(t, c).committed = t.committed
      BY <2>1, TouchFacts
    <2> QED BY <2>1, <2>2, TouchFacts
  <1>3. ASSUME NEW t \in State
        PROVE  /\ balances(t) \in State /\ balances(t).committed = t.committed
               /\ nonces(t) \in State /\ nonces(t).committed = t.committed
               /\ code(t) \in State /\ code(t).committed = t.committed
    <2>1. code(t) \in State
      BY TouchCode
    <2>2. code(t).committed = t.committed
      BY DEF State
    <2> QED BY <1>1, <1>2, <2>1, <2>2
  <1>4. SameSlots(s.touched, AfterCall(s, f).touched)
    BY AfterCallFacts DEF SameStorage
  <1>5. AfterCall(s, f) \in {s, nonces(balances(s)), code(nonces(balances(s))), nonces(code(s))}
    <2>1. CASE f.kind \in {"CALL", "CALLCODE"}
      BY <2>1, Zenon DEF AfterCall
    <2>2. CASE f.kind = "CREATE"
      BY <2>2, Zenon DEF AfterCall
    <2>3. CASE f.kind = "CREATE2"
      BY <2>3, Zenon DEF AfterCall
    <2>4. CASE f.kind \in {"DELEGATECALL", "STATICCALL"}
      <3>1. f.kind \notin {"CALL", "CALLCODE"} /\ f.kind # "CREATE" /\ f.kind # "CREATE2"
        BY <2>4
      <3> QED BY <3>1, Zenon DEF AfterCall
    <2> QED BY <2>1, <2>2, <2>3, <2>4 DEF CallKinds, CreateKinds
  <1> HIDE DEF balances, nonces, code
  <1> QED BY <1>3, <1>4, <1>5

LEMMA CarriesAfterCall ==
  ASSUME NEW s \in State, NEW t, NEW w \in [Cells -> Int], NEW v \in [Cells -> Int],
         Carries(s, t, w, v), NEW f, f.from \in Accounts, f.to \in Accounts,
         f.kind \in CallKinds \cup CreateKinds
  PROVE  Carries(s, AfterCall(t, f), w, v)
  <1>1. t \in State /\ Kept(t)
    BY DEF Carries
  <1>2. Runs(t, AfterCall(t, f), v, v)
    BY <1>1, AfterCallRuns
  <1>3. AfterCall(t, f).committed = t.committed /\ SameSlots(t.touched, AfterCall(t, f).touched)
    BY <1>1, AfterCallCommitted
  <1> QED BY <1>2, <1>3, CarriesTouch

LEMMA FaithCreateContract ==
  ASSUME Inv, FaithInv, NEW kind \in CreateKinds, NEW to \in Fresh, NEW x \in Amounts,
         CreateContract(kind, to, x)
  PROVE  FaithInv'
  <1> DEFINE me == Top.self
             inc(m) == Add(m, Nonce(me), 1)
             f == [kind |-> kind, from |-> me, to |-> to, self |-> to,
                   readOnly |-> FALSE, runs |-> TRUE, gone |-> gone,
                   db |-> inc(acct.db), touched |-> acct.touched, world |-> inc(world)]
             s == [acct EXCEPT !.db = f.db]
             made(m) == Transfer(Create(m, to), me, to, x)
             t == [s EXCEPT !.db = made(@)]
  <1>1. Running
    BY DEF CreateContract
  <1>2. \/ Step(AfterCall(acct, f), world)
        \/ Step(AfterCall(s, f), f.world)
        \/ Push(t, f, made(f.world))
    BY Zenon DEF CreateContract
  <1>3. /\ acct \in State /\ world \in [Cells -> Int] /\ Kept(acct) /\ gone \in SUBSET Accounts
        /\ Follows(acct.db, acct.touched, world, lost) /\ acct.db \in [Cells -> Int]
        /\ acct.touched \in Map
    BY <1>1, RunningLinked DEF Running, State
  <1>4. me \in Accounts /\ x \in Int /\ to \in Accounts /\ Chain[Code(to)] = 0
    BY <1>1, RunningFacts, EvmAssumption, StateAssumption
  <1> HIDE DEF me
  <1>5. Nonce(me) \in Plain /\ 1 \in Int
    BY <1>4, AccountCells
  <1>6. /\ Shifted(acct.db, inc(acct.db), world, inc(world))
        /\ inc(acct.db) \in [Cells -> Int] /\ inc(world) \in [Cells -> Int]
    BY <1>3, <1>5, AddShifted
  <1> HIDE DEF inc
  <1>7. f \in Frame
    <2> DEFINE no == FALSE
               yes == TRUE
    <2>1. no \in BOOLEAN /\ yes \in BOOLEAN
      OBVIOUS
    <2> HIDE DEF no, yes
    <2>2. ASSUME NEW p \in BOOLEAN, NEW q \in BOOLEAN
          PROVE  [kind |-> kind, from |-> me, to |-> to, self |-> to,
                  readOnly |-> p, runs |-> q, gone |-> gone,
                  db |-> inc(acct.db), touched |-> acct.touched, world |-> inc(world)] \in Frame
      BY <1>3, <1>4, <1>6 DEF Frame
    <2> QED BY <2>1, <2>2, Zenon DEF no, yes
  <1>8. /\ f.db = inc(acct.db) /\ f.touched = acct.touched /\ f.world = inc(world) /\ f.gone = gone
        /\ f.kind = kind /\ f.from = me /\ f.to = to /\ f.self = to /\ f.runs
    BY Zenon
  <1> HIDE DEF f
  <1>9. Carries(acct, acct, world, world)
    BY <1>3, RunsSelf, RunsCarries
  <1>10. Carries(acct, s, world, f.world)
    BY <1>3, <1>6, <1>8, <1>9, CarriesShifted
  <1>11. s.touched = acct.touched /\ s.db = f.db /\ s.committed = acct.committed
    BY <1>3, <1>6, <1>8, NewDb
  <1> HIDE DEF s
  <1>12. f.from \in Accounts /\ f.to \in Accounts /\ f.kind \in CallKinds \cup CreateKinds
         /\ f.world \in [Cells -> Int]
    BY <1>4, <1>6, <1>8
  <1>13. CASE Step(AfterCall(acct, f), world)
    <2>1. Carries(acct, AfterCall(acct, f), world, world)
      BY <1>3, <1>9, <1>12, CarriesAfterCall
    <2> QED BY <1>1, <1>13, <2>1, FaithStep
  <1>14. CASE Step(AfterCall(s, f), f.world)
    <2>1. Carries(acct, AfterCall(s, f), world, f.world)
      BY <1>3, <1>10, <1>12, CarriesAfterCall
    <2> QED BY <1>1, <1>14, <2>1, FaithStep
  <1>15. CASE Push(t, f, made(f.world))
    <2>0. t = [s EXCEPT !.db = Transfer(Create(s.db, to), me, to, x)]
      BY Zenon
    <2> HIDE DEF t
    <2>1. /\ Carries(acct, t, world, made(f.world)) /\ t.touched = s.touched
          /\ \A c \in Codes : t.db[c] = s.db[c]
      <3>1. acct \in State /\ f.world \in [Cells -> Int] /\ me \in Accounts /\ x \in Int /\ to \in Fresh
        BY <1>3, <1>4, <1>12
      <3> HIDE DEF made
      <3>2. Carries(acct, t, world, Transfer(Create(f.world, to), me, to, x))
        BY <1>10, <2>0, <3>1, CarriesMade
      <3>3. t.touched = s.touched
        BY <1>10, <2>0, <3>1, CarriesMade
      <3>4. SameCodes(s.db, t.db)
        BY <1>10, <2>0, <3>1, CarriesMade
      <3> QED BY <3>2, <3>3, <3>4, Zenon DEF made, SameCodes
    <2> HIDE DEF made
    <2>2. lost \subseteq lost'
      BY <1>15 DEF Push
    <2>3. Follows(f.db, f.touched, f.world, lost')
      <3> SUFFICES ASSUME NEW c \in Cells \ lost' PROVE CellOK(f.db, f.touched, f.world, c)
        BY DEF Follows
      <3>1. CellOK(acct.db, acct.touched, world, c)
        BY <1>3, <2>2 DEF Follows
      <3> QED BY <1>6, <1>8, <3>1, ShiftedCell
    <2>4. Live(f, t.db)
      BY <1>4, <1>8 DEF Live
    <2>5. Entry(f, t, lost')
      BY <1>7, <1>8, <1>11, <2>1, <2>3, <2>4 DEF Entry
    <2> QED BY <1>1, <1>8, <1>15, <2>1, <2>5, FaithPush
  <1> QED BY <1>2, <1>13, <1>14, <1>15

(***************************************************************************)
(* The beginning of a transaction.                                          *)
(***************************************************************************)
LEMMA IdleFacts ==
  ASSUME Inv, FaithInv, Idle
  PROVE  /\ acct \in State /\ Kept(acct) /\ world \in [Cells -> Int]
         /\ Follows(acct.db, acct.touched, world, lost)
         /\ \A c \in Cells \ lost : acct.touched[c] = Absent => acct.db[c] = 0
  <1>1. frames = <<>> /\ phase = "idle"
    BY DEF Idle, Inv, TypeOK
  <1>2. /\ acct \in State /\ Kept(acct) /\ world \in [Cells -> Int]
        /\ Follows(acct.db, acct.touched, world, lost) /\ Unwritten(acct, frames, lost)
    BY <1>1, RunningLinked
  <1>3. Constructing(frames) = {}
    BY <1>1 DEF Constructing
  <1> QED BY <1>2, <1>3 DEF Unwritten

\* What the outermost call saves has all that was fetched.
LEMMA EnterSaved ==
  ASSUME Inv, FaithInv, Idle, NEW s, NEW w \in [Cells -> Int], Runs(acct, s, world, w), NEW t,
         t.touched = s.touched, t.committed = s.committed, NEW f, NEW v, Enter(t, f, v)
  PROVE  /\ s \in State /\ Kept(s) /\ Carries(acct, s, world, w)
         /\ Follows(s.db, s.touched, w, lost')
         /\ \A c \in Cells \ lost' : s.touched[c] = Absent => s.db[c] = 0
  <1>1. /\ acct \in State /\ Kept(acct) /\ world \in [Cells -> Int]
        /\ Follows(acct.db, acct.touched, world, lost)
        /\ \A c \in Cells \ lost : acct.touched[c] = Absent => acct.db[c] = 0
    BY IdleFacts
  <1>2. s \in State /\ Kept(s) /\ Carries(acct, s, world, w)
    BY <1>1, RunsKept, RunsCarries DEF Runs
  <1>3. lost' = lost \cup Losses(acct, t, <<f>>)
    BY DEF Enter
  <1>4. ASSUME NEW c \in Cells \ lost' PROVE CellOK(s.db, s.touched, w, c)
    <2>1. CellOK(acct.db, acct.touched, world, c)
      BY <1>1, <1>3 DEF Follows
    <2>2. c \notin Overwritten(acct, s) \cup Unread(s)
      BY <1>3 DEF Losses, Overwritten, Unread
    <2> QED BY <1>2, <2>1, <2>2 DEF Carries
  <1>5. ASSUME NEW c \in Cells \ lost', s.touched[c] = Absent PROVE s.db[c] = 0
    <2>1. CASE c \in Codes
      BY <1>2, <1>5, <2>1 DEF Kept, KeptCode
    <2>2. CASE c \in Plain
      <3>1. RunsPlain(acct, s, world, w, c)
        BY <2>2 DEF Runs
      <3>2. acct.touched[c] = Absent /\ s.db[c] = acct.db[c]
        BY <1>5, <3>1, Zenon DEF RunsPlain
      <3> QED BY <1>1, <1>3, <3>2
    <2> QED BY <2>1, <2>2, PlainFacts
  <1> QED BY <1>2, <1>4, <1>5 DEF Follows

LEMMA FaithBeginCreate ==
  ASSUME Inv, FaithInv, NEW from \in Senders, NEW to \in Fresh, NEW x \in Amounts,
         BeginCreate(from, to, x)
  PROVE  FaithInv'
  <1> DEFINE s1 == PreChecked(from)
             w1 == BuyGas(world, from)
             r1 == [s1 EXCEPT !.db = BuyGas(@, from)]
             s2 == [s1 EXCEPT !.db = Add(BuyGas(@, from), Nonce(from), 1)]
             w  == Add(BuyGas(world, from), Nonce(from), 1)
             f  == [kind |-> "CREATE", from |-> from, to |-> to, self |-> to,
                    readOnly |-> FALSE, runs |-> TRUE, gone |-> {},
                    db |-> s2.db, touched |-> s2.touched, world |-> w]
             made(m) == Transfer(Create(m, to), from, to, x)
             t == [s2 EXCEPT !.db = made(@)]
  <1>1. Idle /\ Enter(t, f, made(w))
    BY Zenon DEF BeginCreate
  <1>2. acct \in State /\ Kept(acct) /\ world \in [Cells -> Int]
    BY <1>1, IdleFacts
  <1>3. /\ from \in Accounts /\ to \in Accounts /\ x \in Int /\ -GasLimit \in Int /\ 1 \in Int
        /\ Balance(from) \in Plain /\ Nonce(from) \in Plain /\ Chain[Code(to)] = 0
        /\ Nonce(from) \in Cells
    BY EvmAssumption, StateAssumption, AccountCells, PlainFacts
  <1>4. /\ Runs(acct, s1, world, world) /\ s1.touched[Balance(from)] # Absent
        /\ s1.touched[Nonce(from)] # Absent
    BY <1>2, <1>3, PreCheckedRuns
  <1>5. s1 \in State
    BY <1>4 DEF Runs
  <1> HIDE DEF s1
  <1>6. Runs(s1, r1, world, w1) /\ r1.touched = s1.touched
    BY <1>2, <1>3, <1>4, <1>5, AddRuns DEF BuyGas
  <1>7. w1 \in [Cells -> Int] /\ w \in [Cells -> Int]
    BY <1>2, <1>3, GasFacts
  <1>8. r1 \in State
    BY <1>6 DEF Runs
  <1>9. s2 = [r1 EXCEPT !.db = Add(@, Nonce(from), 1)]
    BY <1>5 DEF State
  <1> HIDE DEF r1
  <1>10. w = Add(w1, Nonce(from), 1)
    OBVIOUS
  <1> HIDE DEF w1, w
  <1>11. Runs(r1, s2, w1, w)
    <2>1. r1.touched[Nonce(from)] # Absent
      BY <1>4, <1>6
    <2>2. Runs(r1, [r1 EXCEPT !.db = Add(@, Nonce(from), 1)], w1, Add(w1, Nonce(from), 1))
      BY <1>3, <1>7, <1>8, <2>1, AddRuns
    <2> HIDE DEF s2
    <2> QED BY <1>9, <1>10, <2>2
  <1> HIDE DEF s2
  <1>12. Runs(acct, s2, world, w)
    <2>1. Runs(acct, r1, world, w1)
      BY <1>2, <1>4, <1>6, <1>7, RunsTrans
    <2> QED BY <1>2, <1>7, <1>11, <2>1, RunsTrans
  <1>13. s2 \in State /\ Kept(s2) /\ Carries(acct, s2, world, w)
    BY <1>2, <1>7, <1>12, RunsKept, RunsCarries DEF Runs
  <1>14. /\ Carries(acct, t, world, made(w)) /\ t.touched = s2.touched /\ t.committed = s2.committed
         /\ \A c \in Codes : t.db[c] = s2.db[c]
    <2>1. t = [s2 EXCEPT !.db = Transfer(Create(s2.db, to), from, to, x)]
      BY Zenon
    <2> HIDE DEF t
    <2> HIDE DEF made
    <2>2. Carries(acct, t, world, Transfer(Create(w, to), from, to, x))
      BY <1>2, <1>3, <1>7, <1>13, <2>1, CarriesMade
    <2>3. t.touched = s2.touched /\ t.committed = s2.committed
      BY <1>2, <1>3, <1>7, <1>13, <2>1, CarriesMade
    <2>4. SameCodes(s2.db, t.db)
      <3>1. s2.db \in [Cells -> Int]
        BY <1>13 DEF State
      <3>2. /\ SameCodes(s2.db, Transfer(Create(s2.db, to), from, to, x))
            /\ Transfer(Create(s2.db, to), from, to, x) \in [Cells -> Int]
        BY <1>3, <3>1, MadeCodes
      <3>3. t.db = Transfer(Create(s2.db, to), from, to, x)
        BY <1>13, <2>1, <3>2, NewDb
      <3> QED BY <3>2, <3>3
    <2> QED BY <2>2, <2>3, <2>4, Zenon DEF made, SameCodes
  <1> HIDE DEF made, t
  <1>15. f \in Frame
    <2> DEFINE no == FALSE
               yes == TRUE
    <2>1. no \in BOOLEAN /\ yes \in BOOLEAN
      OBVIOUS
    <2> HIDE DEF no, yes
    <2>2. s2.db \in [Cells -> Int] /\ s2.touched \in Map
      BY <1>13 DEF State
    <2>3. ASSUME NEW p \in BOOLEAN, NEW q \in BOOLEAN
          PROVE  [kind |-> "CREATE", from |-> from, to |-> to, self |-> to,
                  readOnly |-> p, runs |-> q, gone |-> {},
                  db |-> s2.db, touched |-> s2.touched, world |-> w] \in Frame
      BY <1>3, <1>7, <2>2 DEF Frame, CreateKinds
    <2> QED BY <2>1, <2>3, Zenon DEF no, yes
  <1>16. /\ f.db = s2.db /\ f.touched = s2.touched /\ f.world = w /\ f.gone = {}
         /\ f.to = to /\ f.self = to /\ f.runs /\ f.kind = "CREATE"
    BY Zenon
  <1> HIDE DEF f
  <1>17. /\ Follows(s2.db, s2.touched, w, lost')
         /\ \A c \in Cells \ lost' : s2.touched[c] = Absent => s2.db[c] = 0
    BY <1>1, <1>7, <1>12, <1>14, EnterSaved
  <1>18. Live(f, t.db)
    BY <1>3, <1>16 DEF Live
  <1>19. Entry(f, t, lost')
    BY <1>14, <1>15, <1>16, <1>17, <1>18 DEF Entry
  <1> QED BY <1>1, <1>14, <1>16, <1>17, <1>19, FaithEnter

LEMMA FaithBeginCall ==
  ASSUME Inv, FaithInv, NEW from \in Senders, NEW to \in Accounts, NEW x \in Amounts,
         BeginCall(from, to, x)
  PROVE  FaithInv'
  <1> DEFINE s1 == PreChecked(from)
             w1 == BuyGas(world, from)
             r1 == [s1 EXCEPT !.db = BuyGas(@, from)]
             s2 == SetCodeBalanceNonce(r1, to)
             w  == Add(w1, Nonce(from), 1)
             r2 == [s2 EXCEPT !.db = Add(@, Nonce(from), 1)]
             s3 == Touch(r2, Nonce(from))
             f  == [kind |-> "CALL", from |-> from, to |-> to, self |-> to,
                    readOnly |-> FALSE, runs |-> s3.db[Code(to)] # 0, gone |-> {},
                    db |-> s3.db, touched |-> s3.touched, world |-> w]
             t == [s3 EXCEPT !.db = Transfer(@, from, to, x)]
             v == Transfer(w, from, to, x)
  <1>1. Idle /\ Enter(t, f, v)
    BY Zenon DEF BeginCall
  <1>2. acct \in State /\ Kept(acct) /\ world \in [Cells -> Int]
    BY <1>1, IdleFacts
  <1>3. /\ from \in Accounts /\ x \in Int /\ -GasLimit \in Int /\ 1 \in Int
        /\ Balance(from) \in Plain /\ Nonce(from) \in Plain /\ Code(to) \in Codes
        /\ Nonce(from) \in Cells /\ Nonce(from) \in Others \ Codes
    BY EvmAssumption, StateAssumption, AccountCells, PlainFacts
  <1>4. /\ Runs(acct, s1, world, world) /\ s1.touched[Balance(from)] # Absent
        /\ s1.touched[Nonce(from)] # Absent
    BY <1>2, <1>3, PreCheckedRuns
  <1>5. s1 \in State
    BY <1>4 DEF Runs
  <1> HIDE DEF s1
  <1>6. Runs(s1, r1, world, w1) /\ r1.touched = s1.touched
    BY <1>2, <1>3, <1>4, <1>5, AddRuns DEF BuyGas
  <1>7. w1 \in [Cells -> Int] /\ w \in [Cells -> Int]
    BY <1>2, <1>3, GasFacts
  <1> HIDE DEF r1, w1
  <1>8. Runs(acct, r1, world, w1)
    BY <1>2, <1>4, <1>6, <1>7, RunsTrans
  <1>9. r1 \in State /\ Kept(r1)
    BY <1>2, <1>8, RunsKept DEF Runs
  <1>10. Runs(r1, s2, w1, w1)
    BY <1>7, <1>9, SetCodeBalanceNonceRuns
  <1>11. s2.touched[Nonce(from)] # Absent /\ s2 \in State
    BY <1>3, <1>4, <1>6, <1>10, RunsTouched DEF Runs
  <1> HIDE DEF s2
  <1>12. Runs(s2, r2, w1, w) /\ r2 \in State
    BY <1>3, <1>7, <1>11, AddRuns DEF Runs
  <1> HIDE DEF w, r2
  <1>13. Runs(r2, s3, w, w)
    BY <1>3, <1>12, TouchRuns
  <1> HIDE DEF s3
  <1>14. Runs(acct, s3, world, w)
    <2>1. Runs(acct, s2, world, w1)
      BY <1>2, <1>7, <1>8, <1>10, RunsTrans
    <2>2. Runs(acct, r2, world, w)
      BY <1>2, <1>7, <1>12, <2>1, RunsTrans
    <2> QED BY <1>2, <1>7, <1>13, <2>2, RunsTrans
  <1>15. s3 \in State /\ Kept(s3) /\ Carries(acct, s3, world, w)
    BY <1>2, <1>7, <1>14, RunsKept, RunsCarries DEF Runs
  <1>16. s3.db \in [Cells -> Int] /\ s3.touched \in Map
    BY <1>15 DEF State
  <1>17. Shifted(s3.db, Transfer(s3.db, from, to, x), w, v) /\ Transfer(s3.db, from, to, x) \in [Cells -> Int]
    BY <1>3, <1>7, <1>16, TransferShifted
  <1>18. /\ Carries(acct, t, world, v) /\ t.touched = s3.touched /\ t.committed = s3.committed
         /\ \A c \in Codes : t.db[c] = s3.db[c]
    <2>1. t.db = Transfer(s3.db, from, to, x) /\ t.touched = s3.touched /\ t.committed = s3.committed
      BY <1>15, <1>17, NewDb
    <2>2. \A c \in Codes : t.db[c] = s3.db[c]
      BY <1>17, <2>1 DEF Shifted
    <2> QED BY <1>2, <1>15, <1>17, <2>1, <2>2, CarriesShifted
  <1> HIDE DEF t, v
  <1>19. f \in Frame
    <2> DEFINE no == FALSE
               b == s3.db[Code(to)] # 0
    <2>1. no \in BOOLEAN /\ b \in BOOLEAN
      OBVIOUS
    <2> HIDE DEF no, b
    <2>2. ASSUME NEW p \in BOOLEAN, NEW q \in BOOLEAN
          PROVE  [kind |-> "CALL", from |-> from, to |-> to, self |-> to,
                  readOnly |-> p, runs |-> q, gone |-> {},
                  db |-> s3.db, touched |-> s3.touched, world |-> w] \in Frame
      BY <1>3, <1>7, <1>16 DEF Frame, CallKinds
    <2> QED BY <2>1, <2>2, Zenon DEF no, b
  <1>20. /\ f.db = s3.db /\ f.touched = s3.touched /\ f.world = w /\ f.gone = {}
         /\ f.self = to /\ f.kind = "CALL" /\ f.runs = (s3.db[Code(to)] # 0)
    BY Zenon
  <1> HIDE DEF f
  <1>21. /\ Follows(s3.db, s3.touched, w, lost')
         /\ \A c \in Cells \ lost' : s3.touched[c] = Absent => s3.db[c] = 0
    BY <1>1, <1>7, <1>14, <1>18, EnterSaved
  <1>22. Live(f, t.db) /\ f.kind \notin CreateKinds
    BY <1>3, <1>18, <1>20 DEF Live, CreateKinds
  <1>23. Entry(f, t, lost')
    BY <1>18, <1>19, <1>20, <1>21, <1>22 DEF Entry
  <1> QED BY <1>1, <1>18, <1>20, <1>21, <1>23, FaithEnter
LEMMA DestructCells ==
  ASSUME NEW m \in [Cells -> Int], NEW a \in Accounts, NEW b \in Accounts
  PROVE  /\ Destruct(m, a, b) \in [Cells -> Int] /\ Destruct(m, a, b)[Balance(a)] = 0
         /\ Balance(b) # Balance(a) => Destruct(m, a, b)[Balance(b)] = m[Balance(b)] + m[Balance(a)]
         /\ \A c \in Cells : c # Balance(a) /\ c # Balance(b) => Destruct(m, a, b)[c] = m[c]
  <1> DEFINE p == Balance(a)
             q == Balance(b)
             n == [m EXCEPT ![q] = @ + m[p]]
  <1>1. p \in Cells /\ q \in Cells
    BY AccountCells, PlainFacts
  <1>2. Destruct(m, a, b) = [n EXCEPT ![p] = 0]
    BY DEF Destruct, Put, Add
  <1> HIDE DEF p, q
  <1>3. n \in [Cells -> Int] /\ n[q] = m[q] + m[p] /\ \A c \in Cells : c # q => n[c] = m[c]
    BY <1>1
  <1> HIDE DEF n
  <1>4. /\ [n EXCEPT ![p] = 0] \in [Cells -> Int] /\ [n EXCEPT ![p] = 0][p] = 0
        /\ \A c \in Cells : c # p => [n EXCEPT ![p] = 0][c] = n[c]
    BY <1>1, <1>3
  <1> QED BY <1>1, <1>2, <1>3, <1>4 DEF p, q

\* The frame that destroyed its account stops.
LEMMA StopStack ==
  ASSUME NEW fr \in Seq(Frame), fr # <<>>, NEW s, NEW G, NEW L, StackOK(fr, s, G, L),
         fr[Len(fr)].self \in G
  PROVE  StackOK([fr EXCEPT ![Len(fr)].runs = FALSE], s, G, L)
  <1> DEFINE n == Len(fr)
             g == [fr[n] EXCEPT !.runs = FALSE]
             gr == [fr EXCEPT ![n] = g]
  <1>1. n \in Nat /\ n > 0 /\ DOMAIN fr = 1..n /\ n \in DOMAIN fr /\ 1 \in DOMAIN fr
    OBVIOUS
  <1>2. fr[n] \in Frame /\ FrameOK(fr[n], s, L)
    BY <1>1 DEF StackOK
  <1>3. /\ ~g.runs /\ g.db = fr[n].db /\ g.touched = fr[n].touched /\ g.world = fr[n].world
        /\ g.kind = fr[n].kind /\ g.to = fr[n].to /\ g.self = fr[n].self /\ g.gone = fr[n].gone
    BY <1>2 DEF Frame
  <1>4. [fr EXCEPT ![Len(fr)].runs = FALSE] = gr
    OBVIOUS
  <1>5. gr[n] = g /\ DOMAIN gr = DOMAIN fr /\ Len(gr) = n /\ \A i \in DOMAIN fr : i # n => gr[i] = fr[i]
    BY <1>1
  <1> HIDE DEF g, gr, n
  <1>6. FrameOK(g, s, L)
    <2>1. Saved(g, s, L)
      BY <1>2, <1>3 DEF FrameOK, Saved, SavedCode
    <2>2. Live(g, s.db)
      BY <1>3 DEF Live
    <2> QED BY <1>2, <1>3, <2>1, <2>2 DEF FrameOK
  <1>7. ASSUME NEW i \in DOMAIN gr PROVE FrameOK(gr[i], s, L)
    BY <1>5, <1>6 DEF StackOK
  <1>8. ASSUME NEW i \in DOMAIN gr, NEW j \in DOMAIN gr, j < i
        PROVE  gr[j].runs /\ Live(gr[j], gr[i].db)
    <2>1. fr[j].runs /\ Live(fr[j], fr[i].db)
      BY <1>5, <1>8 DEF StackOK
    <2>2. gr[j] = fr[j] /\ gr[i].db = fr[i].db
      BY <1>1, <1>3, <1>5, <1>8
    <2> QED BY <2>1, <2>2
  <1>9. gr[1].touched = fr[1].touched /\ gr[1].db = fr[1].db /\ gr[1].kind = fr[1].kind
    BY <1>1, <1>3, <1>5
  <1>10. (\A c \in Cells \ L : gr[1].touched[c] = Absent => gr[1].db[c] = 0) /\ gr[1].kind # "CREATE2"
    BY <1>9 DEF StackOK
  <1>11. g.kind \in CreateKinds => g.to \in G
    BY <1>2, <1>3 DEF FrameOK, n
  <1>12. StackOK(gr, s, G, L)
    BY <1>5, <1>7, <1>8, <1>10, <1>11 DEF StackOK
  <1> QED BY <1>4, <1>12

LEMMA StopConstructing ==
  ASSUME NEW fr \in Seq(Frame), fr # <<>>
  PROVE  Constructing([fr EXCEPT ![Len(fr)].runs = FALSE]) = Constructing(fr)
  <1> DEFINE n == Len(fr)
             g == [fr[n] EXCEPT !.runs = FALSE]
             gr == [fr EXCEPT ![n] = g]
  <1>1. n \in DOMAIN fr /\ fr[n] \in Frame
    OBVIOUS
  <1>2. g.kind = fr[n].kind /\ g.to = fr[n].to
    BY <1>1 DEF Frame
  <1>3. [fr EXCEPT ![Len(fr)].runs = FALSE] = gr
    OBVIOUS
  <1>4. gr[n] = g /\ DOMAIN gr = DOMAIN fr /\ \A i \in DOMAIN fr : i # n => gr[i] = fr[i]
    BY <1>1
  <1> HIDE DEF g, gr, n
  <1>5. \A i \in DOMAIN fr : gr[i].kind = fr[i].kind /\ gr[i].to = fr[i].to
    BY <1>2, <1>4
  <1>6. Constructing(gr) = Constructing(fr)
    BY <1>4, <1>5 DEF Constructing
  <1> QED BY <1>3, <1>6

LEMMA FaithSelfdestruct ==
  ASSUME Inv, FaithInv, NEW to \in Accounts, Selfdestruct(to)
  PROVE  FaithInv'
  <1> DEFINE me == Top.self
             cm == Code(me)
             bm == Balance(me)
             bt == Balance(to)
             m == Destruct(acct.db, me, to)
             v == Destruct(world, me, to)
             k == AppendCode(acct.touched, cm, acct.db[cm])
             u == [acct EXCEPT !.touched = k]
             s == [acct EXCEPT !.db = m, !.touched = k]
             t == Touch(Touch(s, bm), bt)
             now == lost \cup Losses(acct, t, frames)
  <1>1. /\ Running /\ acct' = t /\ world' = v
        /\ frames' = [frames EXCEPT ![Len(frames)].runs = FALSE]
        /\ gone' = gone \cup {me} /\ phase' = phase
        /\ lost' = now \cup (IF bm \in now THEN {bt} ELSE {})
    BY Zenon DEF Selfdestruct
  <1>2. /\ Kept(acct) /\ Follows(acct.db, acct.touched, world, lost) /\ GoneOK(gone, acct, lost)
        /\ StackOK(frames, acct, gone, lost)
        /\ acct \in State /\ frames \in Seq(Frame) /\ gone \in SUBSET Accounts
        /\ world \in [Cells -> Int] /\ acct.db \in [Cells -> Int] /\ acct.touched \in Map
    BY <1>1, RunningLinked DEF Running, State
  <1>3. me \in Accounts /\ frames # <<>> /\ Top = frames[Len(frames)] /\ Top.runs
    BY <1>1, RunningFacts DEF Inv, TypeOK, Running, Top
  <1>4. Live(Top, acct.db)
    <2>1. Len(frames) \in DOMAIN frames
      BY <1>2, <1>3
    <2> QED BY <1>2, <1>3, <2>1 DEF StackOK, FrameOK
  <1>5. Live(Top, acct.db) => Chain[cm] = 0 \/ acct.db[cm] # 0
    BY <1>3 DEF Live
  <1>6. frames[Len(frames)].self = me
    BY <1>3
  <1> HIDE DEF me
  <1>7. /\ cm \in Codes /\ bm \in Others \ Codes /\ bt \in Others \ Codes /\ bm \in Cells /\ bt \in Cells
        /\ cm \in Cells
    BY <1>3, AccountCells, SlotFacts, PlainFacts
  <1>8. /\ m \in [Cells -> Int] /\ m[bm] = 0 /\ (bt # bm => m[bt] = acct.db[bt] + acct.db[bm])
        /\ \A c \in Cells : c # bm /\ c # bt => m[c] = acct.db[c]
    <2> DEFINE n == acct.db
    <2>1. n \in [Cells -> Int]
      BY <1>2
    <2> HIDE DEF n
    <2>2. /\ Destruct(n, me, to) \in [Cells -> Int] /\ Destruct(n, me, to)[bm] = 0
          /\ (bt # bm => Destruct(n, me, to)[bt] = n[bt] + n[bm])
          /\ \A c \in Cells : c # bm /\ c # bt => Destruct(n, me, to)[c] = n[c]
      BY <1>3, <2>1, DestructCells
    <2> QED BY <2>2, Zenon DEF n
  <1>9. /\ v \in [Cells -> Int] /\ v[bm] = 0 /\ (bt # bm => v[bt] = world[bt] + world[bm])
        /\ \A c \in Cells : c # bm /\ c # bt => v[c] = world[c]
    BY <1>2, <1>3, DestructCells
  <1> HIDE DEF m, v
  <1>10. Runs(acct, u, world, world) /\ u \in State
    BY <1>2, <1>3, TouchCodeRuns DEF Runs
  <1>11. /\ k \in Map /\ (\A d \in Cells : d # cm => k[d] = acct.touched[d])
         /\ (acct.db[cm] = 0 => k = acct.touched)
         /\ (acct.db[cm] # 0 => k[cm] = (IF acct.touched[cm] = Absent THEN 0 ELSE acct.touched[cm]) + acct.db[cm])
    <2> DEFINE n == acct.db[cm]
               h == acct.touched
    <2>1. n \in Int /\ h \in Map
      BY <1>2, <1>7
    <2> HIDE DEF n, h, cm
    <2>2. /\ AppendCode(h, cm, n) \in Map
          /\ \A d \in Cells : d # cm => AppendCode(h, cm, n)[d] = h[d]
          /\ n = 0 => AppendCode(h, cm, n) = h
          /\ n # 0 => AppendCode(h, cm, n)[cm] = (IF h[cm] = Absent THEN 0 ELSE h[cm]) + n
      BY <1>7, <2>1, AppendCodeValue
    <2> QED BY <2>2, Zenon DEF n, h
  <1> HIDE DEF k, cm, bm, bt
  <1>12. u.db = acct.db /\ u.committed = acct.committed /\ u.touched = k
    BY <1>2, <1>11 DEF State
  <1>13. s \in State /\ s.db = m /\ s.committed = acct.committed /\ s.touched = k
    BY <1>2, <1>8, <1>11 DEF State
  <1> HIDE DEF u, s
  <1>14. /\ t \in State /\ t.db = m /\ t.committed = acct.committed
         /\ t.touched = [[k EXCEPT ![bm] = m[bm]] EXCEPT ![bt] = m[bt]]
    <2> DEFINE r == Touch(s, bm)
    <2>1. /\ r \in State /\ r.db = m /\ r.committed = acct.committed
          /\ r.touched = [k EXCEPT ![bm] = m[bm]]
      BY <1>7, <1>13, TouchFacts
    <2> HIDE DEF r
    <2>2. /\ Touch(r, bt) \in State /\ Touch(r, bt).db = r.db /\ Touch(r, bt).committed = r.committed
          /\ Touch(r, bt).touched = [r.touched EXCEPT ![bt] = r.db[bt]]
      BY <1>7, <2>1, TouchFacts
    <2>3. t = Touch(r, bt)
      BY DEF r
    <2> HIDE DEF t
    <2> QED BY <2>1, <2>2, <2>3
  <1> HIDE DEF t
  <1>15. /\ t.touched[bm] # Absent /\ t.touched[bt] # Absent
         /\ \A c \in Cells : c # bm /\ c # bt => t.touched[c] = k[c]
    <2>1. m[bm] # Absent /\ m[bt] # Absent
      BY <1>7, <1>8, EvmAssumption
    <2>2. DOMAIN k = Cells
      BY <1>11 DEF Map
    <2> QED BY <1>7, <1>14, <2>1, <2>2
  <1>16. \A c \in Cells : t.touched[c] = Absent => k[c] = Absent
    BY <1>15
  <1>17. \A c \in Codes : t.touched[c] = k[c] /\ t.db[c] = acct.db[c] /\ c \in Cells
    BY <1>7, <1>8, <1>14, <1>15, PlainFacts
  <1>18. Kept(u) /\ Onward(acct, u)
    BY <1>2, <1>10, RunsKept, RunsOnward
  <1>19. Kept(t)
    <2>1. ASSUME NEW c \in Codes PROVE KeptCode(t, c)
      <3>1. KeptCode(u, c)
        BY <1>18 DEF Kept
      <3>2. t.touched[c] = u.touched[c] /\ t.db[c] = u.db[c] /\ t.committed[c] = u.committed[c]
        BY <1>12, <1>14, <1>17
      <3> QED BY <3>1, <3>2, Zenon DEF KeptCode
    <2>2. ASSUME NEW c \in Cells, t.touched[c] = Absent
          PROVE  u.touched[c] = Absent /\ t.committed[c] = u.committed[c]
      BY <1>12, <1>14, <1>16, <2>2
    <2> QED BY <1>18, <2>1, <2>2, SlotFacts DEF Kept
  <1>20. Onward(acct, t)
    BY <1>12, <1>14, <1>16, <1>17, <1>18 DEF Onward
  <1>21. CodeLives(acct.db, t.db)
    BY <1>17 DEF CodeLives
  <1>22. lost \subseteq lost' /\ now \subseteq lost' /\ gone \subseteq gone'
    BY <1>1
  <1>23. ASSUME NEW c \in Cells, c \notin lost', c # bm, c # bt
         PROVE  CellOK(t.db, t.touched, v, c)
    <2>1. CellOK(acct.db, acct.touched, world, c)
      BY <1>2, <1>22, <1>23 DEF Follows
    <2>2. t.touched[c] = u.touched[c] /\ t.committed[c] = u.committed[c] /\ t.db[c] = u.db[c] /\ v[c] = world[c]
      BY <1>8, <1>9, <1>12, <1>14, <1>15, <1>23
    <2>3. c \notin Overwritten(acct, t) \cup Unread(t)
      BY <1>22, <1>23 DEF Losses
    <2>4. c \notin Overwritten(acct, u) \cup Unread(u)
      BY <2>2, <2>3 DEF Overwritten, Unread
    <2>5. CellOK(u.db, u.touched, world, c)
      BY <1>2, <1>10, <2>1, <2>4, RunsCell
    <2> QED BY <2>2, <2>5, Zenon DEF CellOK, Lag
  <1>24. ASSUME NEW c \in {bm, bt}, c \notin now
         PROVE  world[c] = acct.db[c]
    <2>1. c \in Cells /\ c \notin Codes /\ c \in Others /\ t.touched[c] # Absent
      BY <1>7, <1>15
    <2>2. CellOK(acct.db, acct.touched, world, c)
      BY <1>2, <1>24, <2>1 DEF Follows
    <2>3. ~ (t.committed[c] = Absent /\ Chain[c] # 0)
      BY <1>24, <2>1 DEF Losses, Unread
    <2>4. acct.touched[c] = Absent => Chain[c] = 0
      BY <1>2, <1>14, <2>1, <2>3 DEF Kept
    <2>5. Lag(world, acct.db, c) = 0
      BY <2>1, <2>2, <2>4 DEF CellOK
    <2>6. world[c] \in Int /\ acct.db[c] \in Int
      BY <1>2, <2>1
    <2> QED BY <2>5, <2>6 DEF Lag
  <1>25. ASSUME NEW c \in {bm, bt}, c \notin lost'
         PROVE  v[c] = m[c]
    <2>1. CASE c = bm
      BY <1>8, <1>9, <2>1
    <2>2. CASE c # bm
      <3>1. c = bt /\ bt # bm /\ bm \notin now /\ bt \notin now
        BY <1>1, <1>22, <1>25, <2>2
      <3>2. world[bm] = acct.db[bm] /\ world[bt] = acct.db[bt]
        BY <1>24, <3>1
      <3> QED BY <1>8, <1>9, <3>1, <3>2
    <2> QED BY <2>1, <2>2
  <1>26. ASSUME NEW c \in {bm, bt}, c \notin lost'
         PROVE  CellOK(t.db, t.touched, v, c)
    <2>1. c \in Cells /\ c \notin Codes /\ t.touched[c] # Absent
      BY <1>7, <1>15
    <2>2. v[c] = m[c] /\ m[c] \in Int
      BY <1>8, <1>25, <1>26, <2>1
    <2>3. Lag(v, t.db, c) = 0
      BY <1>14, <2>2 DEF Lag
    <2> QED BY <2>1, <2>3 DEF CellOK
  <1>27. Follows(t.db, t.touched, v, lost')
    BY <1>23, <1>26 DEF Follows
  <1>28. Unwritten(t, frames, lost')
    <2> HIDE DEF now
    <2> QED BY <1>22 DEF now, Unwritten, Losses, Unfetched
  <1>29. GoneOK(gone, t, lost')
    BY <1>2, <1>14, <1>20, <1>22, OnwardGone
  <1>30. cm \notin lost' => IF t.touched[cm] = Absent THEN Chain[cm] = 0 ELSE t.touched[cm] # t.committed[cm]
    <2> SUFFICES ASSUME cm \notin lost'
                 PROVE  IF t.touched[cm] = Absent THEN Chain[cm] = 0 ELSE t.touched[cm] # t.committed[cm]
      OBVIOUS
    <2>1. t.touched[cm] = k[cm] /\ t.committed[cm] = acct.committed[cm] /\ KeptCode(acct, cm)
      BY <1>2, <1>7, <1>14, <1>17 DEF Kept
    <2>2. /\ acct.db[cm] \in Int
          /\ acct.touched[cm] # Absent => acct.touched[cm] \in Int
          /\ acct.committed[cm] # Absent => acct.committed[cm] \in Int
          /\ Absent \notin Int
      BY <1>2, <1>7, StateFacts
    <2>3. CASE acct.db[cm] # 0
      <3>1. acct.touched[cm] \in Int /\ acct.touched[cm] # Absent /\ acct.db[cm] > 0
        BY <2>1, <2>2, <2>3 DEF KeptCode
      <3>2. k[cm] = acct.touched[cm] + acct.db[cm]
        BY <1>11, <2>3, <3>1
      <3>3. k[cm] \in Int /\ k[cm] > acct.touched[cm] /\ k[cm] # Absent
        BY <2>2, <3>1, <3>2
      <3>4. acct.committed[cm] # Absent => acct.touched[cm] >= acct.committed[cm]
        BY <2>1, <3>1 DEF KeptCode
      <3>5. k[cm] # acct.committed[cm]
        <4>1. CASE acct.committed[cm] = Absent
          BY <3>3, <4>1
        <4>2. CASE acct.committed[cm] # Absent
          BY <2>2, <3>1, <3>3, <3>4, <4>2
        <4> QED BY <4>1, <4>2
      <3> QED BY <2>1, <3>3, <3>5
    <2>4. CASE acct.db[cm] = 0
      <3>1. Chain[cm] = 0 /\ k[cm] = acct.touched[cm]
        BY <1>4, <1>5, <1>11, <2>4
      <3>2. ASSUME acct.touched[cm] # Absent PROVE FALSE
        <4>1. CellOK(acct.db, acct.touched, world, cm)
          BY <1>2, <1>7, <1>22 DEF Follows
        <4>2. acct.touched[cm] = Chain[cm]
          BY <1>7, <2>4, <3>2, <4>1 DEF CellOK
        <4>3. acct.touched[cm] > 0
          BY <2>1, <3>2 DEF KeptCode
        <4> QED BY <3>1, <4>2, <4>3
      <3> QED BY <2>1, <3>1, <3>2
    <2> QED BY <2>3, <2>4
  <1>31. GoneOK(gone', t, lost')
    BY <1>1, <1>29, <1>30 DEF GoneOK, cm
  <1>32. StackOK(frames, t, gone', lost')
    BY <1>2, <1>14, <1>20, <1>21, <1>22, OnwardStack
  <1>33. StackOK(frames', t, gone', lost')
    <2>1. me \in gone'
      BY <1>1
    <2> QED BY <1>1, <1>2, <1>3, <1>6, <1>32, <2>1, StopStack
  <1>34. Constructing(frames') = Constructing(frames)
    BY <1>1, <1>2, <1>3, StopConstructing
  <1>35. Unwritten(t, frames', lost')
    BY <1>28, <1>34 DEF Unwritten
  <1> QED BY <1>1, <1>19, <1>27, <1>31, <1>33, <1>35 DEF FaithInv, Linked

(***************************************************************************)
(* The end of a frame.                                                      *)
(***************************************************************************)
\* What the hook after an instruction and the end of a transaction do to the AccountState.
Marks(s, t) ==
    /\ t \in State /\ t.db = s.db /\ t.committed = s.committed
    /\ \A c \in Plain : t.touched[c] = s.touched[c] \/ (c \notin Slots /\ t.touched[c] # Absent)

\* The code of d as it is in the StateDB is appended.
Appends(s, t, d) ==
    \A c \in Codes : t.touched[c] =
        IF c # d \/ s.db[d] = 0 THEN s.touched[c]
        ELSE (IF s.touched[d] = Absent THEN 0 ELSE s.touched[d]) + s.db[d]

LEMMA MarksTrans ==
  ASSUME NEW s, NEW t, NEW u, Marks(s, t), Marks(t, u)
  PROVE  Marks(s, u)
  BY DEF Marks

LEMMA MarksTouch ==
  ASSUME NEW s \in State, NEW c \in Others \ Codes
  PROVE  Marks(s, Touch(s, c)) /\ SameCodes(s.touched, Touch(s, c).touched)
  <1> DEFINE t == Touch(s, c)
  <1>1. c \in Cells /\ c \notin Slots /\ c \notin Codes
    BY SlotFacts DEF Others
  <1>2. /\ t \in State /\ t.db = s.db /\ t.committed = s.committed
        /\ t.touched = [s.touched EXCEPT ![c] = s.db[c]]
    BY <1>1, TouchFacts
  <1>3. s.touched \in Map /\ s.db[c] # Absent
    BY <1>1, StateFacts DEF State
  <1> HIDE DEF t
  <1>4. t.touched[c] # Absent /\ \A d \in Cells : d # c => t.touched[d] = s.touched[d]
    BY <1>1, <1>2, <1>3 DEF Map
  <1>5. Marks(s, t)
    BY <1>1, <1>2, <1>4, PlainFacts DEF Marks
  <1>6. SameCodes(s.touched, t.touched)
    BY <1>1, <1>4, PlainFacts DEF SameCodes
  <1> QED BY <1>5, <1>6 DEF t

LEMMA MarksBoth ==
  ASSUME NEW s \in State, NEW c \in Others \ Codes, NEW d \in Others \ Codes
  PROVE  LET t == Touch(Touch(s, c), d) IN Marks(s, t) /\ SameCodes(s.touched, t.touched)
  <1> DEFINE r == Touch(s, c)
             t == Touch(r, d)
  <1>1. Marks(s, r) /\ SameCodes(s.touched, r.touched)
    BY MarksTouch
  <1>2. r \in State
    BY <1>1 DEF Marks
  <1> HIDE DEF r
  <1>3. Marks(r, t) /\ SameCodes(r.touched, t.touched)
    BY <1>2, MarksTouch
  <1> HIDE DEF t
  <1>4. Marks(s, t) /\ SameCodes(s.touched, t.touched)
    BY <1>1, <1>3, MarksTrans DEF SameCodes
  <1> QED BY <1>4 DEF t, r

LEMMA MarksCode ==
  ASSUME NEW s \in State, NEW a \in Accounts
  PROVE  LET t == [s EXCEPT !.touched = AppendCode(@, Code(a), s.db[Code(a)])]
         IN  Marks(s, t) /\ Appends(s, t, Code(a))
  <1> DEFINE d == Code(a)
             n == s.db[d]
             k == AppendCode(s.touched, d, n)
             t == [s EXCEPT !.touched = k]
  <1>1. d \in Codes /\ d \in Cells
    BY AccountCells, PlainFacts
  <1>2. s.touched \in Map /\ n \in Int
    BY <1>1 DEF State
  <1> HIDE DEF d, n
  <1>3. /\ k \in Map /\ \A c \in Cells : c # d => k[c] = s.touched[c]
        /\ n = 0 => k = s.touched
        /\ n # 0 => k[d] = (IF s.touched[d] = Absent THEN 0 ELSE s.touched[d]) + n
    BY <1>1, <1>2, AppendCodeValue
  <1> HIDE DEF k
  <1>4. t \in State /\ t.db = s.db /\ t.committed = s.committed /\ t.touched = k
    BY <1>3, NewTouched DEF State
  <1> HIDE DEF t
  <1>5. Marks(s, t)
    BY <1>1, <1>3, <1>4, PlainFacts DEF Marks
  <1>6. ASSUME NEW c \in Codes
        PROVE  k[c] = IF c # d \/ n = 0 THEN s.touched[c]
                      ELSE (IF s.touched[d] = Absent THEN 0 ELSE s.touched[d]) + n
    <2>1. CASE c # d
      BY <1>3, <2>1, PlainFacts
    <2>2. CASE n = 0
      BY <1>3, <2>2
    <2>3. CASE c = d /\ n # 0
      BY <1>3, <2>3
    <2> QED BY <2>1, <2>2, <2>3
  <1>7. Appends(s, t, d)
    BY <1>4, <1>6, Zenon DEF Appends, n
  <1> QED BY <1>5, <1>7, Zenon DEF t, k, n, d

LEMMA AppendsSame ==
  ASSUME NEW s, NEW t, NEW u, NEW d \in Codes, Marks(s, t), Marks(t, u)
  PROVE  /\ SameCodes(s.touched, t.touched) /\ Appends(t, u, d) => Appends(s, u, d)
         /\ Appends(s, t, d) /\ SameCodes(t.touched, u.touched) => Appends(s, u, d)
  <1>1. t.db = s.db
    BY DEF Marks
  <1> QED BY <1>1, Zenon DEF Appends, SameCodes

LEMMA AfterCallMarks ==
  ASSUME NEW s \in State, NEW f, f.from \in Accounts, f.to \in Accounts,
         f.kind \in CallKinds \cup CreateKinds
  PROVE  /\ Marks(s, AfterCall(s, f))
         /\ f.kind \notin CreateKinds => SameCodes(s.touched, AfterCall(s, f).touched)
         /\ f.kind \in CreateKinds => Appends(s, AfterCall(s, f), Code(f.to))
  <1> DEFINE balances(t) == Touch(Touch(t, Balance(f.from)), Balance(f.to))
             nonces(t) == Touch(Touch(t, Nonce(f.from)), Nonce(f.to))
             code(t) == [t EXCEPT !.touched = AppendCode(@, Code(f.to), t.db[Code(f.to)])]
             u == AfterCall(s, f)
  <1>1. /\ Balance(f.from) \in Others \ Codes /\ Nonce(f.from) \in Others \ Codes
        /\ Balance(f.to) \in Others \ Codes /\ Nonce(f.to) \in Others \ Codes /\ Code(f.to) \in Codes
    BY AccountCells
  <1>2. ASSUME NEW t \in State
        PROVE  /\ balances(t) \in State /\ Marks(t, balances(t)) /\ SameCodes(t.touched, balances(t).touched)
               /\ nonces(t) \in State /\ Marks(t, nonces(t)) /\ SameCodes(t.touched, nonces(t).touched)
               /\ code(t) \in State /\ Marks(t, code(t)) /\ Appends(t, code(t), Code(f.to))
    <2>1. Marks(t, balances(t)) /\ SameCodes(t.touched, balances(t).touched)
      BY <1>1, MarksBoth
    <2>2. Marks(t, nonces(t)) /\ SameCodes(t.touched, nonces(t).touched)
      BY <1>1, MarksBoth
    <2>3. Marks(t, code(t)) /\ Appends(t, code(t), Code(f.to))
      BY MarksCode
    <2> HIDE DEF balances, nonces, code
    <2> QED BY <2>1, <2>2, <2>3 DEF Marks
  <1>3. CASE f.kind \in {"CALL", "CALLCODE"}
    <2>1. u = nonces(balances(s))
      BY <1>3, Zenon DEF AfterCall
    <2> HIDE DEF u, balances, nonces, code
    <2> DEFINE b == balances(s)
    <2>2. b \in State /\ Marks(s, b) /\ SameCodes(s.touched, b.touched)
      BY <1>2
    <2> HIDE DEF b
    <2>3. Marks(b, nonces(b)) /\ SameCodes(b.touched, nonces(b).touched)
      BY <1>2, <2>2
    <2>4. u = nonces(b)
      BY <2>1 DEF b
    <2>5. Marks(s, u) /\ SameCodes(s.touched, u.touched)
      BY <2>2, <2>3, <2>4, MarksTrans DEF SameCodes
    <2>6. f.kind \notin CreateKinds
      BY <1>3 DEF CreateKinds
    <2> QED BY <2>5, <2>6 DEF u
  <1>4. CASE f.kind = "CREATE"
    <2>1. u = code(nonces(balances(s)))
      BY <1>4, Zenon DEF AfterCall
    <2> HIDE DEF u, balances, nonces, code
    <2> DEFINE b == balances(s)
               n == nonces(b)
    <2>2. b \in State /\ Marks(s, b) /\ SameCodes(s.touched, b.touched)
      BY <1>2
    <2> HIDE DEF b
    <2>3. n \in State /\ Marks(b, n) /\ SameCodes(b.touched, n.touched)
      BY <1>2, <2>2
    <2> HIDE DEF n
    <2>4. Marks(n, code(n)) /\ Appends(n, code(n), Code(f.to))
      BY <1>2, <2>3
    <2>5. u = code(n)
      BY <2>1 DEF b, n
    <2>6. Marks(s, n) /\ SameCodes(s.touched, n.touched)
      BY <2>2, <2>3, MarksTrans DEF SameCodes
    <2>7. Marks(s, u) /\ Appends(s, u, Code(f.to))
      BY <1>1, <2>4, <2>5, <2>6, MarksTrans, AppendsSame
    <2>8. f.kind \in CreateKinds
      BY <1>4 DEF CreateKinds
    <2> QED BY <2>7, <2>8 DEF u
  <1>5. CASE f.kind = "CREATE2"
    <2>1. u = nonces(code(s))
      BY <1>5, Zenon DEF AfterCall
    <2> HIDE DEF u, balances, nonces, code
    <2> DEFINE b == code(s)
    <2>2. b \in State /\ Marks(s, b) /\ Appends(s, b, Code(f.to))
      BY <1>2
    <2> HIDE DEF b
    <2>3. Marks(b, nonces(b)) /\ SameCodes(b.touched, nonces(b).touched)
      BY <1>2, <2>2
    <2>4. u = nonces(b)
      BY <2>1 DEF b
    <2>5. Marks(s, u) /\ Appends(s, u, Code(f.to))
      BY <1>1, <2>2, <2>3, <2>4, MarksTrans, AppendsSame
    <2>6. f.kind \in CreateKinds
      BY <1>5 DEF CreateKinds
    <2> QED BY <2>5, <2>6 DEF u
  <1>6. CASE f.kind \in {"DELEGATECALL", "STATICCALL"}
    <2>1. f.kind \notin {"CALL", "CALLCODE"} /\ f.kind # "CREATE" /\ f.kind # "CREATE2"
          /\ f.kind \notin CreateKinds
      BY <1>6 DEF CreateKinds
    <2>2. u = s
      BY <2>1, Zenon DEF AfterCall
    <2> HIDE DEF u
    <2>3. Marks(s, s) /\ SameCodes(s.touched, s.touched)
      BY DEF Marks, SameCodes
    <2> QED BY <2>1, <2>2, <2>3 DEF u
  <1> QED BY <1>3, <1>4, <1>5, <1>6 DEF CallKinds, CreateKinds

\* The frames below the one that ends.
LEMMA StackPop ==
  ASSUME NEW fr \in Seq(Frame), Len(fr) > 1, NEW s \in State, NEW t \in State, NEW G, NEW H, NEW L, NEW M,
         L \subseteq M, Kept(s), Onward(s, t), StackOK(fr, s, G, L),
         \A j \in 1..(Len(fr) - 1) : Live(fr[j], t.db)
  PROVE  StackOK(SubSeq(fr, 1, Len(fr) - 1), t, H, M)
  <1> DEFINE n == Len(fr)
             gr == SubSeq(fr, 1, n - 1)
  <1>1. n \in Nat /\ n > 1 /\ DOMAIN fr = 1..n
    OBVIOUS
  <1>2. /\ Len(gr) = n - 1 /\ DOMAIN gr = 1..(n - 1) /\ gr # <<>>
        /\ \A i \in 1..(n - 1) : gr[i] = fr[i]
    <2>1. gr \in Seq(Frame) /\ Len(gr) = n - 1
      BY ButLast
    <2>2. \A i \in 1..(n - 1) : gr[i] = fr[i]
      BY <1>1
    <2> HIDE DEF n, gr
    <2>3. DOMAIN gr = 1..(n - 1) /\ gr # <<>>
      BY <1>1, <2>1
    <2> QED BY <2>1, <2>2, <2>3
  <1> HIDE DEF n, gr
  <1>3. ASSUME NEW i \in DOMAIN gr PROVE FrameOK(gr[i], t, M)
    <2> DEFINE f == fr[i]
    <2>1. i \in DOMAIN fr /\ i \in 1..(n - 1) /\ gr[i] = f
      BY <1>1, <1>2
    <2>2. f \in Frame /\ FrameOK(f, s, L) /\ Live(f, t.db)
      BY <2>1 DEF StackOK, n
    <2> HIDE DEF f
    <2>3. f.gone \in SUBSET Accounts
      BY <2>2 DEF Frame
    <2>4. Saved(f, t, M) /\ GoneOK(f.gone, t, M)
      BY <2>2, <2>3, OnwardSaved, OnwardGone DEF FrameOK
    <2> QED BY <2>1, <2>2, <2>4 DEF FrameOK
  <1>4. ASSUME NEW i \in DOMAIN gr, NEW j \in DOMAIN gr, j < i
        PROVE  gr[j].runs /\ Live(gr[j], gr[i].db)
    <2>1. i \in DOMAIN fr /\ j \in DOMAIN fr /\ gr[i] = fr[i] /\ gr[j] = fr[j]
      BY <1>1, <1>2
    <2> QED BY <1>4, <2>1 DEF StackOK
  <1>5. gr[1] = fr[1] /\ fr # <<>>
    BY <1>1, <1>2 DEF n
  <1>6. gr[Len(gr)].runs
    <2>1. n \in DOMAIN fr /\ n - 1 \in DOMAIN fr /\ n - 1 < n /\ gr[Len(gr)] = fr[n - 1]
      BY <1>1, <1>2
    <2> QED BY <2>1 DEF StackOK
  <1>7. gr[1].kind # "CREATE2" /\ \A c \in Cells \ M : gr[1].touched[c] = Absent => gr[1].db[c] = 0
    BY <1>5 DEF StackOK
  <1>8. StackOK(gr, t, H, M)
    BY <1>3, <1>4, <1>6, <1>7 DEF StackOK
  <1> QED BY <1>8 DEF n, gr

\* The code that a failed call gives back, if CheckAndSetCode would put back no other.
LEMMA RestoredCode ==
  ASSUME NEW f \in Frame, NEW s \in State, NEW t \in State, NEW L, Saved(f, s, L), Kept(s),
         NEW c \in Codes, c \notin L, c \notin Revived(t), t.db[c] = f.db[c], t.committed[c] = s.committed[c],
         s.touched[c] # Absent => t.touched[c] # Absent,
         f.db[c] = 0 /\ s.touched[c] # Absent => t.touched[c] = s.touched[c]
  PROVE  CellOK(f.db, s.touched, f.world, c)
  <1>1. f.db \in [Cells -> Int] /\ f.world \in [Cells -> Int] /\ f.touched \in Map /\ c \in Cells
    BY PlainFacts DEF Frame
  <1>2. CellOK(f.db, f.touched, f.world, c) /\ (f.touched[c] # Absent => s.touched[c] # Absent)
        /\ (f.touched[c] = Absent => s.committed[c] \in {Absent, Chain[c]})
    BY <1>1 DEF Saved, Follows
  <1>3. SavedCode(f, s, c) /\ KeptCode(s, c)
    BY DEF Saved, Kept
  <1>4. CASE s.touched[c] = Absent
    <2>1. f.world[c] = Chain[c]
      BY <1>2, <1>4 DEF CellOK
    <2> QED BY <1>4, <2>1 DEF CellOK
  <1>5. CASE f.db[c] # 0
    <2>1. f.touched[c] # Absent /\ s.touched[c] # Absent
      BY <1>2, <1>3, <1>5 DEF SavedCode
    <2>2. f.world[c] = f.db[c]
      BY <1>2, <1>5, <2>1 DEF CellOK
    <2> QED BY <1>5, <2>1, <2>2 DEF CellOK
  <1>6. CASE s.touched[c] # Absent /\ f.db[c] = 0
    <2>1. /\ f.world[c] = Chain[c] /\ (f.touched[c] # Absent => f.touched[c] = Chain[c])
      BY <1>2, <1>6 DEF CellOK
    <2>2. t.touched[c] = t.committed[c]
      BY <1>6 DEF Revived
    <2>3. s.touched[c] = s.committed[c] /\ s.committed[c] # Absent /\ s.touched[c] \in Int
      BY <1>1, <1>6, <2>2, StateFacts
    <2>4. s.touched[c] = Chain[c]
      <3>1. CASE f.touched[c] = Absent
        BY <1>2, <2>3, <3>1
      <3>2. CASE f.touched[c] # Absent
        <4>1. s.touched[c] >= f.touched[c] /\ f.touched[c] >= s.committed[c] /\ f.touched[c] \in Int
          BY <1>1, <1>3, <2>3, <3>2 DEF SavedCode, Map
        <4> QED BY <2>1, <2>3, <3>2, <4>1
      <3> QED BY <3>1, <3>2
    <2> QED BY <1>6, <2>1, <2>4 DEF CellOK
  <1> QED BY <1>4, <1>5, <1>6

\* A failed call gives back what it found, if what was fetched in it can be fetched again.
LEMMA RestoredCell ==
  ASSUME NEW f \in Frame, NEW s \in State, NEW t, NEW L, Saved(f, s, L), Kept(s),
         Runs([s EXCEPT !.db = f.db], t, f.world, f.world), t.db = f.db, t.committed = s.committed,
         NEW c \in Cells, c \notin L, c \notin Revived(t), c \notin Unfetch(t, f)
  PROVE  CellOK(f.db, s.touched, f.world, c)
  <1> DEFINE r == [s EXCEPT !.db = f.db]
  <1>1. f.db \in [Cells -> Int] /\ f.world \in [Cells -> Int] /\ f.touched \in Map
    BY DEF Frame
  <1>2. r \in State /\ r.db = f.db /\ r.touched = s.touched /\ r.committed = s.committed
    BY <1>1, NewDb
  <1> HIDE DEF r
  <1>3. Runs(r, t, f.world, f.world) /\ t \in State
    BY DEF Runs, r
  <1>4. CellOK(f.db, f.touched, f.world, c) /\ (f.touched[c] # Absent => s.touched[c] # Absent)
        /\ (f.touched[c] = Absent => s.committed[c] \in {Absent, Chain[c]})
    BY DEF Saved, Follows
  <1>5. s.touched[c] # Absent => t.touched[c] # Absent
    BY <1>2, <1>3, RunsTouched
  <1>6. CASE c \in Plain
    <2>1. c \notin Codes
      BY <1>6, PlainFacts
    <2>2. Lag(f.world, f.db, c) = IF f.touched[c] = Absent THEN Chain[c] ELSE 0
      BY <1>4, <2>1 DEF CellOK
    <2>3. f.touched[c] = Absent /\ s.touched[c] # Absent => Chain[c] = 0
      BY <1>5, <2>1 DEF Unfetch
    <2> QED BY <1>4, <2>1, <2>2, <2>3 DEF CellOK
  <1>7. CASE c \in Codes
    <2>1. KeptCode(s, c) /\ RunsCode(r, t, c)
      BY <1>3, <1>7 DEF Kept, Runs
    <2>2. ASSUME f.db[c] = 0, s.touched[c] # Absent PROVE t.touched[c] = s.touched[c]
      <3>1. s.touched[c] > 0 /\ s.touched[c] \in Int
        BY <2>1, <2>2, StateFacts DEF KeptCode
      <3>2. s.touched[c] # 0 /\ t.db[c] = 0 /\ r.db[c] = 0 /\ r.touched[c] = s.touched[c]
        BY <1>2, <2>2, <3>1
      <3> QED BY <2>1, <2>2, <3>2, Zenon DEF RunsCode
    <2> QED BY <1>3, <1>5, <1>7, <2>2, RestoredCode
  <1> QED BY <1>6, <1>7, PlainFacts

LEMMA FaithFail ==
  ASSUME Inv, FaithInv, NEW s \in State, Kept(s), Onward(acct, s), Leave(s, FALSE)
  PROVE  FaithInv'
  <1> DEFINE f == Top
             r == [s EXCEPT !.db = f.db]
             t == AfterCall(r, f)
  <1>1. /\ phase = "tx" /\ Len(frames) > 1 /\ acct' = t
        /\ world' = f.world /\ frames' = Rest /\ gone' = f.gone
        /\ lost' = lost \cup Losses(acct, t, Rest) \cup Revived(t) \cup Unfetch(t, f)
        /\ phase' = phase
    <2>1. Left(FALSE, f, s.db, f.db) = f.db /\ Left(FALSE, f, world, f.world) = f.world
      BY Zenon DEF Left
    <2> QED BY <2>1, Zenon DEF Leave
  <1>2. /\ Kept(acct) /\ StackOK(frames, acct, gone, lost)
        /\ acct \in State /\ frames \in Seq(Frame)
    BY <1>1, RunningLinked
  <1>3. /\ Len(frames) \in Nat /\ f = frames[Len(frames)] /\ f \in Frame
        /\ Len(frames) \in DOMAIN frames /\ Rest = SubSeq(frames, 1, Len(frames) - 1)
    BY <1>1, <1>2, TypeFacts DEF Inv, Top, Rest
  <1>4. FrameOK(f, acct, lost)
    BY <1>2, <1>3 DEF StackOK
  <1>5. \A j \in 1..(Len(frames) - 1) : Live(frames[j], f.db)
    <2> SUFFICES ASSUME NEW j \in 1..(Len(frames) - 1) PROVE Live(frames[j], f.db)
      OBVIOUS
    <2>1. j \in DOMAIN frames /\ j < Len(frames)
      BY <1>2, <1>3
    <2> QED BY <1>2, <1>3, <2>1 DEF StackOK
  <1> HIDE DEF f
  <1>6. /\ f.db \in [Cells -> Int] /\ f.world \in [Cells -> Int] /\ f.gone \in SUBSET Accounts
        /\ f.from \in Accounts /\ f.to \in Accounts /\ f.kind \in CallKinds \cup CreateKinds
    BY <1>3 DEF Frame
  <1>7. Saved(f, s, lost) /\ GoneOK(f.gone, acct, lost)
    BY <1>2, <1>3, <1>4, OnwardSaved DEF FrameOK
  <1>8. r \in State /\ r.db = f.db /\ r.touched = s.touched /\ r.committed = s.committed
    BY <1>6, NewDb
  <1>9. Kept(r)
    <2>1. ASSUME NEW c \in Codes PROVE KeptCode(r, c)
      <3>1. SavedCode(f, s, c) /\ KeptCode(s, c) /\ (f.touched[c] # Absent => s.touched[c] # Absent)
        BY <1>7, PlainFacts DEF Saved, Kept
      <3> QED BY <1>8, <3>1, Zenon DEF SavedCode, KeptCode
    <2> HIDE DEF r
    <2> QED BY <1>8, <2>1 DEF Kept
  <1>10. Onward(acct, r)
    <2> HIDE DEF r
    <2> QED BY <1>8 DEF Onward
  <1>11. Runs(r, t, f.world, f.world)
    <2> HIDE DEF r
    <2> QED BY <1>6, <1>8, <1>9, AfterCallRuns
  <1>12. Marks(r, t)
    <2> HIDE DEF r
    <2> QED BY <1>6, <1>8, AfterCallMarks
  <1>13. t \in State /\ t.db = f.db /\ t.committed = s.committed
    BY <1>8, <1>12 DEF Marks
  <1>14. Kept(t) /\ Onward(r, t)
    <2> HIDE DEF r, t
    <2> QED BY <1>8, <1>9, <1>11, RunsKept, RunsOnward
  <1>15. Onward(acct, t)
    <2> HIDE DEF r, t
    <2> QED BY <1>2, <1>8, <1>10, <1>13, <1>14, OnwardTouch
  <1> HIDE DEF t
  <1>16. lost \subseteq lost'
    BY <1>1
  <1>17. ASSUME NEW c \in Cells \ lost' PROVE CellOK(t.db, t.touched, f.world, c)
    <2>1. c \notin lost /\ c \notin Unread(t) /\ c \notin Revived(t) /\ c \notin Unfetch(t, f)
      BY <1>1 DEF Losses
    <2>2. CellOK(f.db, s.touched, f.world, c)
      BY <1>3, <1>7, <1>11, <1>13, <2>1, RestoredCell
    <2> HIDE DEF r
    <2>3. CellOK(r.db, r.touched, f.world, c)
      BY <1>8, <2>2
    <2>4. c \notin Overwritten(r, t)
      <3> SUFFICES ASSUME r.touched[c] = Absent, t.touched[c] # Absent, t.committed[c] # Absent
                   PROVE  FALSE
        BY DEF Overwritten
      <3>1. c \notin Slots
        BY <1>12, PlainFacts DEF Marks
      <3>2. r.committed[c] = Absent
        BY <1>9, <3>1 DEF Kept, Others
      <3> QED BY <1>8, <1>13, <3>2
    <2> QED BY <1>6, <1>8, <1>9, <1>11, <2>1, <2>3, <2>4, RunsCell
  <1>18. Follows(t.db, t.touched, f.world, lost')
    BY <1>17 DEF Follows
  <1>19. GoneOK(f.gone, t, lost')
    BY <1>2, <1>6, <1>7, <1>13, <1>15, <1>16, OnwardGone
  <1>20. Unwritten(t, Rest, lost')
    BY <1>1 DEF Unwritten, Losses, Unfetched
  <1>21. StackOK(Rest, t, f.gone, lost')
    BY <1>1, <1>2, <1>3, <1>5, <1>13, <1>15, <1>16, StackPop
  <1> QED BY <1>1, <1>14, <1>18, <1>19, <1>20, <1>21 DEF FaithInv, Linked

\* The cells that are not code, after a frame that ends without error.
LEMMA MarkedCell ==
  ASSUME NEW s \in State, NEW t \in State, NEW w, NEW v, NEW c \in Plain, Kept(s),
         CellOK(s.db, s.touched, w, c), t.db[c] = s.db[c], v[c] = w[c], t.committed[c] = s.committed[c],
         t.touched[c] = s.touched[c] \/ (c \notin Slots /\ t.touched[c] # Absent), c \notin Unread(t)
  PROVE  CellOK(t.db, t.touched, v, c)
  <1>1. c \in Cells /\ c \notin Codes
    BY PlainFacts
  <1>2. Lag(w, s.db, c) = IF s.touched[c] = Absent THEN Chain[c] ELSE 0
    BY <1>1 DEF CellOK
  <1>3. Lag(v, t.db, c) = Lag(w, s.db, c)
    BY DEF Lag
  <1>4. CASE t.touched[c] = s.touched[c]
    BY <1>1, <1>2, <1>3, <1>4 DEF CellOK
  <1>5. CASE c \notin Slots /\ t.touched[c] # Absent
    <2>1. ASSUME s.touched[c] = Absent PROVE Chain[c] = 0
      <3>1. t.committed[c] = Absent
        BY <1>1, <1>5, <2>1 DEF Kept, Others
      <3> QED BY <1>1, <1>5, <3>1 DEF Unread
    <2>2. Lag(v, t.db, c) = 0
      BY <1>2, <1>3, <2>1
    <2> QED BY <1>1, <1>5, <2>2 DEF CellOK
  <1> QED BY <1>4, <1>5

\* A creation that ends without error has appended the code that it deployed.
LEMMA Deployed ==
  ASSUME NEW s \in State, NEW w \in [Cells -> Int], NEW f \in Frame, NEW L, NEW G \in SUBSET Accounts,
         Kept(s), Follows(s.db, s.touched, w, L), GoneOK(G, s, L),
         f.kind \in CreateKinds, f.to \in Fresh, ~f.runs => f.to \in G,
         NEW r, r = [s EXCEPT !.db = Left(TRUE, f, s.db, f.db)],
         NEW t, Marks(r, t), Appends(r, t, Code(f.to))
  PROVE  /\ t \in State /\ Kept(t) /\ Onward(s, t) /\ CodeLives(s.db, t.db)
         /\ Left(TRUE, f, w, f.world) \in [Cells -> Int]
         /\ \A c \in Cells : c \notin L \cup Unread(t) \cup Revived(t)
                => CellOK(t.db, t.touched, Left(TRUE, f, w, f.world), c)
  <1> DEFINE d == Code(f.to)
             b == IF f.runs THEN 1 ELSE 0
             m == Left(TRUE, f, s.db, f.db)
             v == Left(TRUE, f, w, f.world)
  <1>1. f.to \in Accounts /\ s.db \in [Cells -> Int]
    BY EvmAssumption DEF State
  <1>2. d \in Codes /\ d \in Cells /\ d \in Others /\ Chain[d] = 0
    BY <1>1, AccountCells, PlainFacts, StateAssumption
  <1>3. m = [s.db EXCEPT ![d] = b] /\ v = [w EXCEPT ![d] = b]
    BY Zenon DEF Left, Put
  <1>4. b \in {0, 1} /\ (b = 0 => ~f.runs)
    OBVIOUS
  <1> HIDE DEF d, b, m, v
  <1>5. /\ m \in [Cells -> Int] /\ m[d] = b /\ \A c \in Cells : c # d => m[c] = s.db[c]
    BY <1>1, <1>2, <1>3, <1>4
  <1>6. /\ v \in [Cells -> Int] /\ v[d] = b /\ \A c \in Cells : c # d => v[c] = w[c]
    BY <1>2, <1>3, <1>4
  <1>7. r \in State /\ r.db = m /\ r.touched = s.touched /\ r.committed = s.committed
    BY <1>5, NewDb DEF m
  <1>8. /\ t \in State /\ t.db = m /\ t.committed = s.committed
        /\ \A c \in Plain : t.touched[c] = s.touched[c] \/ (c \notin Slots /\ t.touched[c] # Absent)
    BY <1>7 DEF Marks
  <1>9. \A c \in Codes : c # d => t.touched[c] = s.touched[c] /\ t.db[c] = s.db[c] /\ t.committed[c] = s.committed[c]
                                  /\ v[c] = w[c]
    BY <1>5, <1>6, <1>7, <1>8, PlainFacts DEF Appends, d
  <1>10. t.touched[d] = IF b = 0 THEN s.touched[d] ELSE (IF s.touched[d] = Absent THEN 0 ELSE s.touched[d]) + b
    BY <1>2, <1>5, <1>7 DEF Appends, d
  <1>11. /\ KeptCode(s, d) /\ (s.touched[d] = Absent => s.committed[d] = Absent)
         /\ s.db[d] \in Int /\ (s.touched[d] # Absent => s.touched[d] \in Int)
         /\ (s.committed[d] # Absent => s.committed[d] \in Int) /\ Absent \notin Int
    BY <1>2, StateFacts DEF Kept
  <1>12. /\ b = 1 => t.touched[d] \in Int /\ t.touched[d] > 0
         /\ s.touched[d] # Absent => t.touched[d] \in Int /\ t.touched[d] >= s.touched[d] /\ s.touched[d] > 0
         /\ b = 0 => t.touched[d] = s.touched[d]
    <2>1. CASE b = 0
      BY <1>10, <1>11, <2>1 DEF KeptCode
    <2>2. CASE b = 1 /\ s.touched[d] = Absent
      BY <1>10, <2>2
    <2>3. CASE b = 1 /\ s.touched[d] # Absent
      BY <1>10, <1>11, <2>3 DEF KeptCode
    <2> QED BY <1>4, <2>1, <2>2, <2>3
  <1>13. Kept(t)
    <2>1. ASSUME NEW c \in Codes PROVE KeptCode(t, c)
      <3>1. CASE c # d
        <4>1. KeptCode(s, c)
          BY DEF Kept
        <4> QED BY <1>9, <3>1, <4>1, Zenon DEF KeptCode
      <3>2. CASE c = d
        <4>1. t.db[d] >= 0 /\ t.db[d] = b /\ t.committed[d] = s.committed[d]
          BY <1>4, <1>5, <1>8
        <4>2. t.touched[d] = Absent => b = 0
          BY <1>4, <1>11, <1>12
        <4>3. ASSUME t.touched[d] # Absent
              PROVE  t.touched[d] > 0 /\ (t.committed[d] # Absent => t.touched[d] >= t.committed[d])
          <5>1. CASE s.touched[d] = Absent
            BY <1>4, <1>11, <1>12, <4>1, <4>3, <5>1
          <5>2. CASE s.touched[d] # Absent
            <6>1. s.touched[d] \in Int /\ t.touched[d] \in Int /\ t.touched[d] >= s.touched[d] /\ s.touched[d] > 0
              BY <1>11, <1>12, <5>2
            <6>2. s.committed[d] # Absent => s.committed[d] \in Int /\ s.touched[d] >= s.committed[d]
              BY <1>11, <5>2 DEF KeptCode
            <6> QED BY <4>1, <6>1, <6>2
          <5> QED BY <5>1, <5>2
        <4> QED BY <3>2, <4>1, <4>2, <4>3 DEF KeptCode
      <3> QED BY <3>1, <3>2
    <2>2. ASSUME NEW c \in Cells, t.touched[c] = Absent
          PROVE  s.touched[c] = Absent /\ t.committed[c] = s.committed[c]
      <3>1. CASE c \in Plain
        BY <1>8, <2>2, <3>1
      <3>2. CASE c \in Codes /\ c # d
        BY <1>9, <2>2, <3>2
      <3>3. CASE c = d
        BY <1>8, <1>11, <1>12, <2>2, <3>3
      <3> QED BY <3>1, <3>2, <3>3, PlainFacts
    <2> QED BY <2>1, <2>2, SlotFacts DEF Kept
  <1>14. Onward(s, t)
    <2>1. ASSUME NEW c \in Codes, s.touched[c] # Absent
          PROVE  t.touched[c] # Absent /\ t.touched[c] >= s.touched[c]
      <3>1. CASE c # d
        <4>1. s.touched[c] \in Int /\ t.touched[c] = s.touched[c]
          BY <1>9, <2>1, <3>1, StateFacts, PlainFacts
        <4> QED BY <2>1, <4>1
      <3>2. CASE c = d
        BY <1>11, <1>12, <2>1, <3>2
      <3> QED BY <3>1, <3>2
    <2>2. ASSUME NEW c \in Plain, s.touched[c] # Absent PROVE t.touched[c] # Absent
      BY <1>8, <2>2
    <2> QED BY <1>8, <2>1, <2>2, PlainFacts DEF Onward
  <1>15. CodeLives(s.db, t.db)
    BY <1>2, <1>9 DEF CodeLives
  <1>16. GoneOK(G, t, L)
    BY <1>8, <1>14, OnwardGone
  <1>17. ASSUME NEW c \in Cells, c \notin L, c \notin Unread(t), c \notin Revived(t)
         PROVE  CellOK(t.db, t.touched, v, c)
    <2>1. CellOK(s.db, s.touched, w, c)
      BY <1>17 DEF Follows
    <2>2. CASE c \in Plain
      <3>1. c # d
        BY <1>2, <2>2, PlainFacts
      <3>2. t.db[c] = s.db[c] /\ v[c] = w[c] /\ t.committed[c] = s.committed[c]
        BY <1>5, <1>6, <1>8, <3>1
      <3> QED BY <1>8, <1>17, <2>1, <2>2, <3>2, MarkedCell
    <2>3. CASE c \in Codes /\ c # d
      BY <1>9, <2>1, <2>3, Zenon DEF CellOK
    <2>4. CASE c = d /\ b = 1
      <3>1. t.touched[d] # Absent /\ t.db[d] = 1 /\ v[d] = 1
        BY <1>5, <1>6, <1>8, <1>11, <1>12, <2>4
      <3> QED BY <1>2, <2>4, <3>1 DEF CellOK
    <2>5. CASE c = d /\ b = 0
      <3>1. t.db[d] = 0 /\ v[d] = Chain[d] /\ f.to \in G
        BY <1>2, <1>4, <1>5, <1>6, <1>8, <2>5
      <3>2. t.touched[d] # Absent => t.touched[d] # t.committed[d]
        BY <1>16, <1>17, <2>5, <3>1 DEF GoneOK, d
      <3>3. t.touched[d] = Absent
        BY <1>2, <1>17, <2>5, <3>1, <3>2 DEF Revived
      <3> QED BY <1>2, <2>5, <3>1, <3>3 DEF CellOK
    <2> QED BY <1>4, <2>2, <2>3, <2>4, <2>5, PlainFacts
  <1> HIDE DEF v
  <1>18. \A c \in Cells : c \notin L \cup Unread(t) \cup Revived(t) => CellOK(t.db, t.touched, v, c)
    BY <1>17
  <1> QED BY <1>6, <1>8, <1>13, <1>14, <1>15, <1>18 DEF v

\* Any other frame leaves code alone.
LEMMA Marked ==
  ASSUME NEW s \in State, NEW w, NEW L, Kept(s), Follows(s.db, s.touched, w, L),
         NEW t, Marks(s, t), SameCodes(s.touched, t.touched)
  PROVE  /\ t \in State /\ Kept(t) /\ Onward(s, t) /\ CodeLives(s.db, t.db)
         /\ \A c \in Cells : c \notin L \cup Unread(t) => CellOK(t.db, t.touched, w, c)
  <1>1. /\ t \in State /\ t.db = s.db /\ t.committed = s.committed
        /\ \A c \in Plain : t.touched[c] = s.touched[c] \/ (c \notin Slots /\ t.touched[c] # Absent)
        /\ \A c \in Codes : t.touched[c] = s.touched[c]
    BY DEF Marks, SameCodes
  <1>2. \A c \in Cells : s.touched[c] # Absent => t.touched[c] # Absent
    BY <1>1, PlainFacts
  <1>3. Kept(t)
    <2>1. ASSUME NEW c \in Codes PROVE KeptCode(t, c)
      <3>1. KeptCode(s, c)
        BY DEF Kept
      <3> QED BY <1>1, <3>1, Zenon DEF KeptCode
    <2> QED BY <1>1, <1>2, <2>1, SlotFacts DEF Kept
  <1>4. Onward(s, t)
    <2>1. ASSUME NEW c \in Codes, s.touched[c] # Absent PROVE t.touched[c] >= s.touched[c]
      <3>1. s.touched[c] \in Int /\ t.touched[c] = s.touched[c]
        BY <1>1, <2>1, StateFacts, PlainFacts
      <3> QED BY <3>1
    <2> QED BY <1>1, <1>2, <2>1 DEF Onward
  <1>5. CodeLives(s.db, t.db)
    BY <1>1 DEF CodeLives
  <1>6. ASSUME NEW c \in Cells, c \notin L, c \notin Unread(t) PROVE CellOK(t.db, t.touched, w, c)
    <2>1. CellOK(s.db, s.touched, w, c)
      BY <1>6 DEF Follows
    <2>2. CASE c \in Plain
      BY <1>1, <1>6, <2>1, <2>2, MarkedCell
    <2>3. CASE c \in Codes
      BY <1>1, <2>1, <2>3, Zenon DEF CellOK
    <2> QED BY <2>2, <2>3, PlainFacts
  <1> QED BY <1>1, <1>3, <1>4, <1>5, <1>6

LEMMA FaithReturn ==
  ASSUME Inv, FaithInv, Leave(acct, TRUE)
  PROVE  FaithInv'
  <1> DEFINE f == Top
             r == [acct EXCEPT !.db = Left(TRUE, f, acct.db, f.db)]
             t == AfterCall(r, f)
             v == Left(TRUE, f, world, f.world)
  <1>1. /\ phase = "tx" /\ Len(frames) > 1 /\ acct' = t
        /\ world' = v /\ frames' = Rest /\ gone' = gone
        /\ lost' = lost \cup Losses(acct, t, Rest) \cup Revived(t) /\ phase' = phase
    BY Zenon DEF Leave
  <1>2. /\ Kept(acct) /\ StackOK(frames, acct, gone, lost) /\ GoneOK(gone, acct, lost)
        /\ Follows(acct.db, acct.touched, world, lost) /\ world \in [Cells -> Int]
        /\ acct \in State /\ frames \in Seq(Frame) /\ gone \in SUBSET Accounts
    BY <1>1, RunningLinked
  <1>3. /\ Len(frames) \in Nat /\ f = frames[Len(frames)] /\ f \in Frame /\ frames # <<>>
        /\ Len(frames) \in DOMAIN frames /\ Rest = SubSeq(frames, 1, Len(frames) - 1)
    BY <1>1, <1>2, TypeFacts DEF Inv, Top, Rest
  <1>4. /\ f.kind \in CreateKinds => f.to \in Fresh
        /\ f.kind \in CreateKinds /\ ~f.runs => f.to \in gone
    BY <1>2, <1>3 DEF StackOK, FrameOK
  <1> HIDE DEF f
  <1>5. /\ f.from \in Accounts /\ f.to \in Accounts /\ f.kind \in CallKinds \cup CreateKinds
        /\ f.db \in [Cells -> Int] /\ acct.db \in [Cells -> Int]
    BY <1>2, <1>3 DEF Frame, State
  <1>6. r \in State
    <2>1. Left(TRUE, f, acct.db, f.db) \in [Cells -> Int]
      BY <1>3, <1>5, LeftFacts
    <2> QED BY <1>2, <2>1, NewDb
  <1>7. /\ Marks(r, t) /\ (f.kind \notin CreateKinds => SameCodes(r.touched, t.touched))
        /\ (f.kind \in CreateKinds => Appends(r, t, Code(f.to)))
    <2> HIDE DEF r
    <2> QED BY <1>5, <1>6, AfterCallMarks
  <1> HIDE DEF t
  <1>8. /\ t \in State /\ Kept(t) /\ Onward(acct, t) /\ CodeLives(acct.db, t.db)
        /\ \A c \in Cells : c \notin lost \cup Unread(t) \cup Revived(t) => CellOK(t.db, t.touched, v, c)
    <2>1. CASE f.kind \in CreateKinds
      BY <1>2, <1>3, <1>4, <1>7, <2>1, Deployed
    <2>2. CASE f.kind \notin CreateKinds
      <3>1. Left(TRUE, f, acct.db, f.db) = acct.db /\ v = world
        BY <2>2, Zenon DEF Left
      <3>2. r = acct
        BY <1>2, <3>1 DEF State
      <3> HIDE DEF r, v
      <3> QED BY <1>2, <1>7, <2>2, <3>1, <3>2, Marked
    <2> QED BY <2>1, <2>2
  <1> HIDE DEF v
  <1>9. lost \subseteq lost' /\ Unread(t) \subseteq lost' /\ Revived(t) \subseteq lost'
    BY <1>1 DEF Losses
  <1>10. Follows(t.db, t.touched, v, lost')
    BY <1>8, <1>9 DEF Follows
  <1>11. GoneOK(gone, t, lost')
    BY <1>2, <1>8, <1>9, OnwardGone
  <1>12. Unwritten(t, Rest, lost')
    BY <1>1 DEF Unwritten, Losses, Unfetched
  <1>13. ASSUME NEW j \in 1..(Len(frames) - 1) PROVE Live(frames[j], t.db)
    <2>1. j \in DOMAIN frames
      BY <1>2, <1>3
    <2>2. frames[j] \in Frame /\ Live(frames[j], acct.db)
      BY <1>2, <2>1 DEF StackOK, FrameOK
    <2> QED BY <1>8, <2>2, OnwardLive
  <1>14. StackOK(Rest, t, gone, lost')
    BY <1>1, <1>2, <1>3, <1>8, <1>9, <1>13, StackPop
  <1> QED BY <1>1, <1>8, <1>10, <1>11, <1>12, <1>14 DEF FaithInv, Linked

LEMMA FaithEndCall ==
  ASSUME Inv, FaithInv, NEW ok \in BOOLEAN, EndCall(ok)
  PROVE  FaithInv'
  <1>1. Leave(acct, ok) /\ phase = "tx"
    BY DEF EndCall
  <1>2. CASE ok
    <2>1. Leave(acct, TRUE)
      BY <1>1, <1>2
    <2> QED BY <2>1, FaithReturn
  <1>3. CASE ~ok
    <2>1. Leave(acct, FALSE)
      BY <1>1, <1>3
    <2>2. acct \in State /\ Kept(acct)
      BY <1>1, RunningLinked
    <2>3. Onward(acct, acct)
      BY <2>2, RunsSelf, RunsOnward
    <2> QED BY <2>1, <2>2, <2>3, FaithFail
  <1> QED BY <1>2, <1>3

LEMMA FaithCallProtected ==
  ASSUME Inv, FaithInv, NEW to \in Accounts, CallProtected(to)
  PROVE  FaithInv'
  <1> DEFINE s == SetCodeBalanceNonce(acct, to)
  <1>1. Leave(s, FALSE) /\ phase = "tx"
    BY DEF CallProtected, Running
  <1>2. acct \in State /\ Kept(acct) /\ world \in [Cells -> Int]
    BY <1>1, RunningLinked
  <1>3. Runs(acct, s, world, world)
    BY <1>2, SetCodeBalanceNonceRuns
  <1> HIDE DEF s
  <1>4. s \in State /\ Kept(s) /\ Onward(acct, s)
    BY <1>2, <1>3, RunsKept, RunsOnward DEF Runs
  <1> QED BY <1>1, <1>4, FaithFail

LEMMA FaithSstoreProtected ==
  ASSUME Inv, FaithInv, NEW k \in Keys, SstoreProtected(k)
  PROVE  FaithInv'
  <1> DEFINE c == Storage(Top.self, k)
             s == SstoreHook(acct, c)
  <1>1. Leave(s, FALSE) /\ phase = "tx" /\ Running
    BY DEF SstoreProtected, Running
  <1>2. acct \in State /\ Kept(acct) /\ world \in [Cells -> Int]
    BY <1>1, RunningLinked
  <1>3. c \in Slots /\ c \in Cells /\ c \notin Codes
    BY <1>1, RunningFacts, CellFacts, SlotFacts
  <1> HIDE DEF c
  <1>4. s = acct \/ (s = Fetch(acct, c) /\ acct.touched[c] = Absent)
    BY DEF SstoreHook
  <1>5. s \in State /\ Kept(s) /\ Onward(acct, s)
    <2> HIDE DEF s
    <2>1. CASE s = acct
      BY <1>2, <2>1, RunsSelf, RunsOnward
    <2>2. CASE s = Fetch(acct, c) /\ acct.touched[c] = Absent
      <3>1. Chain[c] \in Int /\ acct.db \in [Cells -> Int] /\ acct.committed \in Map
        BY <1>2, <1>3, ChainFacts DEF State
      <3>2. /\ s \in State /\ s.touched = acct.touched
            /\ s.db = [acct.db EXCEPT ![c] = Chain[c]]
            /\ s.committed = [acct.committed EXCEPT ![c] = Chain[c]]
        <4>1. [acct.committed EXCEPT ![c] = Chain[c]] \in Map /\ [acct.db EXCEPT ![c] = Chain[c]] \in [Cells -> Int]
          BY <3>1 DEF Map
        <4> QED BY <1>2, <2>2, <4>1 DEF Fetch, State
      <3>3. /\ s.committed[c] = Chain[c]
            /\ \A d \in Cells : d # c => s.db[d] = acct.db[d] /\ s.committed[d] = acct.committed[d]
        BY <1>3, <3>1, <3>2 DEF Map
      <3>4. \A d \in Codes : d # c
        BY <1>3
      <3>5. ASSUME NEW d \in Codes PROVE KeptCode(s, d)
        <4>1. KeptCode(acct, d) /\ s.db[d] = acct.db[d] /\ s.committed[d] = acct.committed[d]
          BY <1>2, <3>3, <3>4, PlainFacts DEF Kept
        <4> QED BY <3>2, <4>1, Zenon DEF KeptCode
      <3>6. Kept(s)
        <4>1. ASSUME NEW d \in Others, s.touched[d] = Absent PROVE s.committed[d] = Absent
          <5>1. d \in Cells /\ d # c
            BY <1>3, SlotFacts DEF Others
          <5> QED BY <1>2, <3>2, <3>3, <4>1, <5>1 DEF Kept
        <4>2. ASSUME NEW d \in Cells, s.touched[d] = Absent PROVE s.committed[d] \in {Absent, Chain[d]}
          BY <1>2, <3>2, <3>3, <4>2 DEF Kept
        <4> QED BY <3>5, <4>1, <4>2 DEF Kept
      <3>7. Onward(acct, s)
        <4>1. ASSUME NEW d \in Codes
              PROVE  /\ acct.touched[d] # Absent => s.touched[d] >= acct.touched[d]
                     /\ s.committed[d] = acct.committed[d]
          <5>1. acct.touched[d] # Absent => acct.touched[d] \in Int
            BY <1>2, StateFacts, PlainFacts
          <5> QED BY <3>2, <3>3, <3>4, <5>1, PlainFacts
        <4>2. ASSUME NEW d \in Cells
              PROVE  \/ s.committed[d] = acct.committed[d]
                     \/ acct.touched[d] = Absent /\ s.committed[d] = Chain[d]
          BY <2>2, <3>3
        <4> QED BY <3>2, <4>1, <4>2 DEF Onward
      <3> QED BY <3>2, <3>6, <3>7
    <2> QED BY <1>4, <2>1, <2>2
  <1> QED BY <1>1, <1>5, FaithFail

(***************************************************************************)
(* The end of a transaction.                                                *)
(***************************************************************************)
LEMMA ReturnedMarks ==
  ASSUME Inv, FaithInv, phase = "tx", Len(frames) = 1, NEW ok \in BOOLEAN
  PROVE  LET r == [acct EXCEPT !.db = Left(ok, Top, acct.db, Top.db)]
         IN  /\ r \in State /\ r.touched = acct.touched /\ r.committed = acct.committed
             /\ r.db = Left(ok, Top, acct.db, Top.db)
             /\ Marks(r, Returned(ok))
             /\ Top.kind \notin CreateKinds => SameCodes(r.touched, Returned(ok).touched)
             /\ Top.kind \in CreateKinds => Appends(r, Returned(ok), Code(Top.to))
  <1> DEFINE f == Top
             m == Left(ok, f, acct.db, f.db)
             r == [acct EXCEPT !.db = m]
             u == [r EXCEPT !.touched = AppendCode(@, Code(f.to), r.db[Code(f.to)])]
  <1>1. Returned(ok) = IF f.kind = "CREATE" THEN u ELSE r
    BY Zenon DEF Returned
  <1>2. acct \in State /\ f \in Frame /\ f = frames[1] /\ frames # <<>> /\ StackOK(frames, acct, gone, lost)
    BY TypeFacts, RunningLinked DEF Inv, TypeOK
  <1>3. f.kind # "CREATE2"
    BY <1>2 DEF StackOK
  <1> HIDE DEF f
  <1>4. /\ f.db \in [Cells -> Int] /\ f.to \in Accounts /\ acct.db \in [Cells -> Int]
        /\ f.kind \in CallKinds \cup CreateKinds
    BY <1>2 DEF Frame, State
  <1>5. m \in [Cells -> Int]
    BY <1>2, <1>4, LeftFacts
  <1> HIDE DEF m
  <1>6. r \in State /\ r.touched = acct.touched /\ r.committed = acct.committed /\ r.db = m
    BY <1>2, <1>5, NewDb
  <1> HIDE DEF r
  <1>7. Marks(r, u) /\ Appends(r, u, Code(f.to))
    BY <1>4, <1>6, MarksCode
  <1>8. Marks(r, r) /\ SameCodes(r.touched, r.touched)
    BY <1>6 DEF Marks, SameCodes
  <1>9. f.kind \in CreateKinds <=> f.kind = "CREATE"
    BY <1>3 DEF CreateKinds
  <1>10. /\ Marks(r, Returned(ok))
         /\ f.kind \notin CreateKinds => SameCodes(r.touched, Returned(ok).touched)
         /\ f.kind \in CreateKinds => Appends(r, Returned(ok), Code(f.to))
    <2> HIDE DEF u
    <2> QED BY <1>1, <1>7, <1>8, <1>9
  <1> QED BY <1>6, <1>10 DEF r, m, f

\* The accounts that TransitionDbTrace touches at the end.
LEMMA FinalMarks ==
  ASSUME NEW s \in State, NEW a \in Accounts, NEW b \in Accounts
  PROVE  LET t == Touch(Touch(Touch(Touch(s, Balance(a)), Nonce(a)), Balance(b)), Nonce(b))
         IN  Marks(s, t) /\ SameCodes(s.touched, t.touched)
  <1> DEFINE r == Touch(Touch(s, Balance(a)), Nonce(a))
             t == Touch(Touch(r, Balance(b)), Nonce(b))
  <1>1. /\ Balance(a) \in Others \ Codes /\ Nonce(a) \in Others \ Codes
        /\ Balance(b) \in Others \ Codes /\ Nonce(b) \in Others \ Codes
    BY AccountCells
  <1>2. Marks(s, r) /\ SameCodes(s.touched, r.touched)
    BY <1>1, MarksBoth
  <1>3. r \in State
    BY <1>2 DEF Marks
  <1> HIDE DEF r
  <1>4. Marks(r, t) /\ SameCodes(r.touched, t.touched)
    BY <1>1, <1>3, MarksBoth
  <1> HIDE DEF t
  <1>5. Marks(s, t) /\ SameCodes(s.touched, t.touched)
    BY <1>2, <1>4, MarksTrans DEF SameCodes
  <1> QED BY <1>5 DEF r, t

LEMMA EndOk ==
  ASSUME Inv, FaithInv, phase = "tx", Len(frames) = 1,
         NEW t, Marks(Returned(TRUE), t), SameCodes(Returned(TRUE).touched, t.touched)
  PROVE  /\ t \in State /\ Kept(t) /\ GoneOK(gone, t, lost)
         /\ \A c \in Cells : c \notin lost \cup Unread(t) \cup Revived(t)
                => CellOK(t.db, t.touched, Left(TRUE, Top, world, Top.world), c)
  <1> DEFINE f == Top
             m == Left(TRUE, f, acct.db, f.db)
             r == [acct EXCEPT !.db = m]
             s == Returned(TRUE)
             v == Left(TRUE, f, world, f.world)
  <1>1. /\ r \in State /\ r.touched = acct.touched /\ r.committed = acct.committed /\ r.db = m
        /\ Marks(r, s) /\ (f.kind \notin CreateKinds => SameCodes(r.touched, s.touched))
        /\ (f.kind \in CreateKinds => Appends(r, s, Code(f.to)))
    <2>1. TRUE \in BOOLEAN
      OBVIOUS
    <2> QED BY <2>1, ReturnedMarks, Zenon
  <1>2. /\ Kept(acct) /\ Follows(acct.db, acct.touched, world, lost) /\ GoneOK(gone, acct, lost)
        /\ StackOK(frames, acct, gone, lost) /\ acct \in State /\ frames \in Seq(Frame)
        /\ gone \in SUBSET Accounts /\ world \in [Cells -> Int]
    BY RunningLinked
  <1>3. f \in Frame /\ f = frames[1] /\ frames # <<>> /\ 1 \in DOMAIN frames
    BY <1>2, TypeFacts DEF Inv, TypeOK
  <1>4. /\ f.kind \in CreateKinds => f.to \in Fresh
        /\ f.kind \in CreateKinds /\ ~f.runs => f.to \in gone
    BY <1>2, <1>3 DEF StackOK, FrameOK
  <1> HIDE DEF f, s, r
  <1>5. Marks(r, t)
    BY <1>1, MarksTrans DEF s
  <1>6. f.to \in Accounts /\ SameCodes(s.touched, t.touched) /\ Marks(s, t)
    BY <1>3 DEF Frame, s
  <1>7. CASE f.kind \in CreateKinds
    <2>1. Code(f.to) \in Codes
      BY <1>6, AccountCells
    <2>2. Appends(r, t, Code(f.to))
      BY <1>1, <1>6, <1>7, <2>1, AppendsSame
    <2>3. r = [acct EXCEPT !.db = Left(TRUE, f, acct.db, f.db)]
      BY DEF r
    <2> HIDE DEF m, v
    <2>4. /\ t \in State /\ Kept(t) /\ Onward(acct, t)
          /\ \A c \in Cells : c \notin lost \cup Unread(t) \cup Revived(t) => CellOK(t.db, t.touched, v, c)
      BY <1>2, <1>3, <1>4, <1>5, <1>7, <2>2, <2>3, Deployed DEF v
    <2>5. GoneOK(gone, t, lost)
      BY <1>2, <2>4, OnwardGone
    <2> QED BY <2>4, <2>5 DEF v, f
  <1>8. CASE f.kind \notin CreateKinds
    <2>1. m = acct.db /\ v = world
      BY <1>8, Zenon DEF Left
    <2>2. r = acct
      BY <1>2, <2>1 DEF State, r
    <2> HIDE DEF m, v
    <2>3. SameCodes(acct.touched, t.touched) /\ Marks(acct, t)
      BY <1>1, <1>5, <1>6, <1>8, <2>2 DEF SameCodes
    <2>4. /\ t \in State /\ Kept(t) /\ Onward(acct, t)
          /\ \A c \in Cells : c \notin lost \cup Unread(t) => CellOK(t.db, t.touched, world, c)
      BY <1>2, <2>3, Marked
    <2>5. GoneOK(gone, t, lost)
      BY <1>2, <2>4, OnwardGone
    <2> QED BY <2>1, <2>4, <2>5 DEF v, f
  <1> QED BY <1>7, <1>8

LEMMA EndFail ==
  ASSUME Inv, FaithInv, phase = "tx", Len(frames) = 1, NEW t,
         Marks(RevertAccountState(Returned(FALSE), Top.touched), t),
         SameCodes(RevertAccountState(Returned(FALSE), Top.touched).touched, t.touched)
  PROVE  /\ t \in State /\ Kept(t)
         /\ \A c \in Cells : c \notin lost \cup Unread(t) \cup Revived(t) \cup Stale(Top)
                => CellOK(t.db, t.touched, Top.world, c)
  <1> DEFINE f == Top
             r == [acct EXCEPT !.db = f.db]
             p == Returned(FALSE)
             s == RevertAccountState(p, f.touched)
             back(c) == IF f.touched[c] # Absent THEN f.touched[c]
                        ELSE IF p.committed[c] # Absent THEN p.committed[c] ELSE 0
  <1>1. /\ r \in State /\ r.touched = acct.touched /\ r.committed = acct.committed /\ r.db = f.db
        /\ Marks(r, p) /\ (f.kind \notin CreateKinds => SameCodes(r.touched, p.touched))
        /\ (f.kind \in CreateKinds => Appends(r, p, Code(f.to)))
    <2>1. FALSE \in BOOLEAN
      OBVIOUS
    <2>2. Left(FALSE, f, acct.db, f.db) = f.db
      BY Zenon DEF Left
    <2> QED BY <2>1, <2>2, ReturnedMarks, Zenon
  <1>2. /\ Kept(acct) /\ StackOK(frames, acct, gone, lost) /\ acct \in State /\ frames \in Seq(Frame)
    BY RunningLinked
  <1>3. f \in Frame /\ f = frames[1] /\ frames # <<>> /\ 1 \in DOMAIN frames
    BY <1>2, TypeFacts DEF Inv, TypeOK
  <1>4. Saved(f, acct, lost) /\ \A c \in Cells \ lost : f.touched[c] = Absent => f.db[c] = 0
    BY <1>2, <1>3 DEF StackOK, FrameOK
  <1> HIDE DEF f, r, p
  <1>5. /\ f.db \in [Cells -> Int] /\ f.world \in [Cells -> Int] /\ f.touched \in Map /\ f.to \in Accounts
    BY <1>3 DEF Frame
  <1>6. p \in State /\ p.db = f.db /\ p.committed = acct.committed
    BY <1>1 DEF Marks
  <1>7. /\ s \in State /\ s.committed = p.committed
        /\ \A c \in Cells : IF p.touched[c] = Absent \/ c \in Codes
                              THEN s.touched[c] = p.touched[c] /\ s.db[c] = p.db[c]
                              ELSE s.touched[c] = back(c) /\ s.db[c] = back(c)
    BY <1>5, <1>6, RevertFacts, Zenon
  <1>8. Marks(s, t) /\ SameCodes(s.touched, t.touched)
    BY Zenon DEF p, f
  <1> HIDE DEF s, back
  <1>9. t \in State /\ t.db = s.db /\ t.committed = acct.committed
    BY <1>6, <1>7, <1>8 DEF Marks
  <1>10. ASSUME NEW c \in Codes
         PROVE  /\ c \in Cells /\ s.db[c] = f.db[c] /\ s.touched[c] = p.touched[c] /\ t.touched[c] = s.touched[c]
                /\ f.db[c] = 0 => p.touched[c] = acct.touched[c]
                /\ acct.touched[c] # Absent => /\ p.touched[c] # Absent /\ p.touched[c] \in Int
                                               /\ p.touched[c] >= acct.touched[c]
    <2>1. c \in Cells
      BY PlainFacts
    <2>2. s.db[c] = f.db[c] /\ s.touched[c] = p.touched[c] /\ t.touched[c] = s.touched[c]
      BY <1>6, <1>7, <1>8, <2>1 DEF SameCodes
    <2>3. KeptCode(acct, c) /\ SavedCode(f, acct, c) /\ f.db[c] \in Int /\ Absent \notin Int
          /\ (acct.touched[c] # Absent => acct.touched[c] \in Int)
      BY <1>2, <1>4, <1>5, <2>1, StateFacts DEF Kept, Saved
    <2>4. p.touched[c] = acct.touched[c] \/
            (f.db[c] # 0 /\ p.touched[c] = (IF acct.touched[c] = Absent THEN 0 ELSE acct.touched[c]) + f.db[c])
      <3>1. CASE f.kind \notin CreateKinds
        BY <1>1, <3>1 DEF SameCodes
      <3>2. CASE f.kind \in CreateKinds
        <4>1. p.touched[c] =
                IF c # Code(f.to) \/ r.db[Code(f.to)] = 0 THEN r.touched[c]
                ELSE (IF r.touched[Code(f.to)] = Absent THEN 0 ELSE r.touched[Code(f.to)]) + r.db[Code(f.to)]
          BY <1>1, <3>2 DEF Appends
        <4> QED BY <1>1, <4>1
      <3> QED BY <3>1, <3>2
    <2>5. f.db[c] = 0 => p.touched[c] = acct.touched[c]
      BY <2>4
    <2>6. ASSUME acct.touched[c] # Absent
          PROVE  p.touched[c] # Absent /\ p.touched[c] \in Int /\ p.touched[c] >= acct.touched[c]
      <3>1. CASE p.touched[c] = acct.touched[c]
        BY <2>3, <2>6, <3>1
      <3>2. CASE p.touched[c] = acct.touched[c] + f.db[c]
        <4>1. f.db[c] >= 0
          BY <2>3 DEF SavedCode
        <4> QED BY <2>3, <2>6, <3>2, <4>1
      <3> QED BY <2>4, <2>6, <3>1, <3>2
    <2> QED BY <2>1, <2>2, <2>5, <2>6
  <1>11. ASSUME NEW c \in Plain
         PROVE  /\ c \in Cells /\ c \notin Codes
                /\ p.touched[c] = Absent => acct.touched[c] = Absent
                /\ p.touched[c] = acct.touched[c] \/ (c \notin Slots /\ p.touched[c] # Absent)
                /\ t.touched[c] = s.touched[c] \/ (c \notin Slots /\ t.touched[c] # Absent)
                /\ back(c) \in Int /\ back(c) # Absent
    <2>1. c \in Cells /\ c \notin Codes
      BY PlainFacts
    <2>2. /\ p.touched[c] = acct.touched[c] \/ (c \notin Slots /\ p.touched[c] # Absent)
          /\ t.touched[c] = s.touched[c] \/ (c \notin Slots /\ t.touched[c] # Absent)
      BY <1>1, <1>8 DEF Marks
    <2>3. back(c) \in Int /\ Absent \notin Int
      BY <1>5, <1>6, <2>1, StateFacts DEF back, Map
    <2> QED BY <2>1, <2>2, <2>3
  <1>12. ASSUME NEW c \in Codes
         PROVE  KeptCode(s, c) /\ (s.touched[c] = Absent => acct.touched[c] = Absent)
    <2>1. /\ c \in Cells /\ s.db[c] = f.db[c] /\ s.touched[c] = p.touched[c]
          /\ f.db[c] = 0 => p.touched[c] = acct.touched[c]
          /\ acct.touched[c] # Absent => /\ p.touched[c] # Absent /\ p.touched[c] \in Int
                                         /\ p.touched[c] >= acct.touched[c]
      BY <1>10
    <2>2. KeptCode(acct, c) /\ SavedCode(f, acct, c) /\ (f.touched[c] # Absent => acct.touched[c] # Absent)
      BY <1>2, <1>4, <2>1 DEF Kept, Saved
    <2>3. CASE acct.touched[c] = Absent
      <3>1. f.db[c] = 0 /\ s.db[c] >= 0
        BY <2>1, <2>2, <2>3 DEF SavedCode
      <3>2. s.touched[c] = Absent
        BY <2>1, <2>3, <3>1
      <3> QED BY <2>1, <2>3, <3>1, <3>2 DEF KeptCode
    <2>4. CASE acct.touched[c] # Absent
      <3>1. /\ acct.touched[c] \in Int /\ acct.touched[c] > 0
            /\ acct.committed[c] # Absent => acct.committed[c] \in Int /\ acct.touched[c] >= acct.committed[c]
        BY <1>2, <2>1, <2>2, <2>4, StateFacts DEF KeptCode
      <3>2. s.touched[c] \in Int /\ s.touched[c] # Absent /\ s.touched[c] > 0
        BY <2>1, <2>4, <3>1
      <3>3. s.committed[c] # Absent => s.touched[c] >= s.committed[c]
        BY <1>6, <1>7, <2>1, <2>4, <3>1
      <3>4. s.db[c] >= 0
        BY <2>1, <2>2 DEF SavedCode
      <3> QED BY <3>2, <3>3, <3>4 DEF KeptCode
    <2> QED BY <2>3, <2>4
  <1>13. Kept(s)
    <2>1. ASSUME NEW c \in Cells, s.touched[c] = Absent
          PROVE  acct.touched[c] = Absent /\ s.committed[c] = acct.committed[c]
      <3>1. CASE c \in Plain
        <4>1. p.touched[c] = Absent
          BY <1>7, <1>11, <2>1, <3>1
        <4> QED BY <1>6, <1>7, <1>11, <3>1, <4>1
      <3> QED BY <1>6, <1>7, <1>12, <2>1, <3>1, PlainFacts
    <2> QED BY <1>2, <1>12, <2>1, SlotFacts DEF Kept
  <1>14. Kept(t)
    <2>1. Follows(s.db, s.touched, f.world, Cells)
      BY DEF Follows
    <2> QED BY <1>7, <1>8, <1>13, <2>1, Marked
  <1>15. ASSUME NEW c \in Plain, c \notin lost, c \notin Unread(t), c \notin Stale(f)
         PROVE  CellOK(t.db, t.touched, f.world, c)
    <2>1. /\ c \in Cells /\ c \notin Codes
          /\ p.touched[c] = Absent => acct.touched[c] = Absent
          /\ p.touched[c] = acct.touched[c] \/ (c \notin Slots /\ p.touched[c] # Absent)
          /\ t.touched[c] = s.touched[c] \/ (c \notin Slots /\ t.touched[c] # Absent)
          /\ back(c) \in Int /\ back(c) # Absent
      BY <1>11
    <2>2. /\ Lag(f.world, f.db, c) = (IF f.touched[c] = Absent THEN Chain[c] ELSE 0)
          /\ f.touched[c] # Absent => acct.touched[c] # Absent
          /\ f.touched[c] = Absent => acct.committed[c] \in {Absent, Chain[c]} /\ f.db[c] = 0
      BY <1>4, <1>15, <2>1 DEF Saved, Follows, CellOK
    <2>3. f.world[c] \in Int /\ f.db[c] \in Int /\ Chain[c] \in Int
      BY <1>5, <2>1, ChainFacts
    <2>4. CellOK(s.db, s.touched, f.world, c)
      <3>1. CASE p.touched[c] = Absent
        <4>1. s.touched[c] = Absent /\ s.db[c] = f.db[c] /\ f.touched[c] = Absent
          BY <1>6, <1>7, <2>1, <2>2, <3>1
        <4>2. Lag(f.world, s.db, c) = Chain[c]
          BY <2>2, <4>1 DEF Lag
        <4> QED BY <2>1, <4>1, <4>2 DEF CellOK
      <3>2. CASE p.touched[c] # Absent
        <4>1. s.touched[c] = back(c) /\ s.db[c] = back(c) /\ s.touched[c] # Absent /\ t.touched[c] # Absent
          BY <1>7, <2>1, <3>2
        <4>2. back(c) = f.world[c]
          <5>1. CASE f.touched[c] # Absent
            <6>1. back(c) = f.touched[c] /\ f.touched[c] = f.db[c] /\ f.world[c] - f.db[c] = 0
              BY <1>15, <2>1, <2>2, <5>1 DEF back, Stale, Lag
            <6> QED BY <2>3, <6>1
          <5>2. CASE f.touched[c] = Absent
            <6>1. f.world[c] = Chain[c]
              BY <2>2, <2>3, <5>2 DEF Lag
            <6>2. CASE acct.committed[c] = Absent
              <7>1. Chain[c] = 0
                BY <1>9, <1>15, <2>1, <4>1, <6>2 DEF Unread
              <7> QED BY <1>6, <5>2, <6>1, <6>2, <7>1 DEF back
            <6>3. CASE acct.committed[c] # Absent
              <7>1. acct.committed[c] = Chain[c]
                BY <2>2, <5>2, <6>3
              <7> QED BY <1>6, <5>2, <6>1, <6>3, <7>1 DEF back
            <6> QED BY <6>2, <6>3
          <5> QED BY <5>1, <5>2
        <4>3. Lag(f.world, s.db, c) = 0
          BY <2>3, <4>1, <4>2 DEF Lag
        <4> QED BY <2>1, <4>1, <4>3 DEF CellOK
      <3> QED BY <3>1, <3>2
    <2>5. t.db[c] = s.db[c] /\ t.committed[c] = s.committed[c]
      BY <1>6, <1>7, <1>9
    <2> QED BY <1>7, <1>9, <1>13, <1>15, <2>1, <2>4, <2>5, MarkedCell
  <1>16. ASSUME NEW c \in Codes, c \notin lost, c \notin Revived(t)
         PROVE  CellOK(t.db, t.touched, f.world, c)
    <2>1. /\ c \in Cells /\ t.db[c] = f.db[c] /\ t.touched[c] = p.touched[c]
          /\ f.db[c] = 0 => p.touched[c] = acct.touched[c]
          /\ acct.touched[c] # Absent => p.touched[c] # Absent
      BY <1>9, <1>10
    <2>2. CellOK(f.db, acct.touched, f.world, c)
      BY <1>2, <1>3, <1>4, <1>9, <1>16, <2>1, RestoredCode
    <2>3. CASE f.db[c] = 0
      BY <2>1, <2>2, <2>3, Zenon DEF CellOK
    <2>4. CASE f.db[c] # 0
      <3>1. acct.touched[c] # Absent
        BY <1>4, <2>1, <2>4 DEF Saved, SavedCode
      <3>2. f.world[c] = f.db[c]
        BY <1>16, <2>2, <2>4, <3>1 DEF CellOK
      <3> QED BY <1>16, <2>1, <2>4, <3>1, <3>2 DEF CellOK
    <2> QED BY <2>3, <2>4
  <1>17. \A c \in Cells : c \notin lost \cup Unread(t) \cup Revived(t) \cup Stale(f)
                => CellOK(t.db, t.touched, f.world, c)
    BY <1>15, <1>16, PlainFacts
  <1> QED BY <1>9, <1>14, <1>17 DEF f

\* Refund and fee, and the accounts that disappear.
Settle(h, a, used, dead) ==
    Erase(Add(Add(h, Balance(a), GasLimit - used), Balance(Coinbase), used), dead)

Settles(m, n, w, y, k, dead) ==
    /\ n \in [Cells -> Int] /\ y \in [Cells -> Int]
    /\ \A c \in Codes : c[2] \notin dead => n[c] = m[c]
    /\ \A c \in Cells : c[2] \in dead => n[c] = 0 /\ y[c] = 0
    /\ \A c \in Cells : c[2] \notin dead /\ CellOK(m, k, w, c) => CellOK(n, k, y, c)

LEMMA SettledCells ==
  ASSUME NEW m \in [Cells -> Int], NEW w \in [Cells -> Int], NEW k, NEW a \in Accounts,
         NEW used \in 1..GasLimit, NEW dead
  PROVE  Settles(m, Settle(m, a, used, dead), w, Settle(w, a, used, dead), k, dead)
  <1> DEFINE b == Balance(a)
             e == Balance(Coinbase)
             x == GasLimit - used
             m1 == Add(m, b, x)
             m2 == Add(m1, e, used)
             w1 == Add(w, b, x)
             w2 == Add(w1, e, used)
             n == Erase(m2, dead)
             y == Erase(w2, dead)
  <1>1. b \in Plain /\ e \in Plain /\ x \in Int /\ used \in Int
    BY AccountCells, StateAssumption
  <1> HIDE DEF b, e, x
  <1>2. Shifted(m, m1, w, w1) /\ m1 \in [Cells -> Int] /\ w1 \in [Cells -> Int]
    BY <1>1, AddShifted
  <1> HIDE DEF m1, w1
  <1>3. Shifted(m1, m2, w1, w2) /\ m2 \in [Cells -> Int] /\ w2 \in [Cells -> Int]
    BY <1>1, <1>2, AddShifted
  <1> HIDE DEF m2, w2
  <1>4. Shifted(m, m2, w, w2)
    BY <1>2, <1>3, ShiftedTrans
  <1>5. n \in [Cells -> Int] /\ y \in [Cells -> Int]
    BY <1>3, EraseFacts
  <1>6. \A c \in Cells : IF c[2] \in dead THEN n[c] = 0 /\ y[c] = 0 ELSE n[c] = m2[c] /\ y[c] = w2[c]
    BY DEF Erase
  <1> HIDE DEF n, y
  <1>7. \A c \in Codes : c[2] \notin dead => n[c] = m[c]
    BY <1>4, <1>6, PlainFacts DEF Shifted
  <1>8. ASSUME NEW c \in Cells, c[2] \notin dead, CellOK(m, k, w, c)
        PROVE  CellOK(n, k, y, c)
    <2>1. CellOK(m2, k, w2, c)
      BY <1>4, <1>8, ShiftedCell
    <2>2. n[c] = m2[c] /\ y[c] = w2[c]
      BY <1>6, <1>8
    <2> QED BY <2>1, <2>2, Zenon DEF CellOK, Lag
  <1>9. Settles(m, n, w, y, k, dead)
    BY <1>5, <1>6, <1>7, <1>8 DEF Settles
  <1> QED BY <1>9, Zenon DEF Settle, n, y, m2, w2, m1, w1, b, e, x

LEMMA CodeCell ==
  ASSUME NEW c \in Codes
  PROVE  c[2] \in Accounts /\ c = Code(c[2])
  BY DEF Codes, Code

\* The states after the settlement and after the commit.
SettledFrom(s, t, a, used, dead) == t = [s EXCEPT !.db = Settle(s.db, a, used, dead)]
CommittedFrom(t, q) == q = [t EXCEPT !.committed = t.touched]

\* The settlement of a transaction whose cells correspond, and the commit.
LEMMA FaithSettled ==
  ASSUME NEW s \in State, NEW w \in [Cells -> Int], NEW a \in Accounts, NEW used \in 1..GasLimit,
         NEW dead \in SUBSET Accounts, NEW t, NEW v, NEW q, NEW L, NEW o,
         SettledFrom(s, t, a, used, dead), v = Settle(w, a, used, dead), CommittedFrom(t, q),
         Kept(s), GoneOK(dead, s, L), Follows(s.db, s.touched, w, L),
         Losses(o, t, <<>>) \subseteq L, Revived(t) \subseteq L, Refetched(t, dead) \subseteq L
  PROVE  Linked(q, v, <<>>, {}, L)
  <1> DEFINE m == Settle(s.db, a, used, dead)
  <1>1. s.db \in [Cells -> Int]
    BY DEF State
  <1>2. /\ m \in [Cells -> Int] /\ v \in [Cells -> Int]
        /\ \A c \in Codes : c[2] \notin dead => m[c] = s.db[c]
        /\ \A c \in Cells : c[2] \in dead => m[c] = 0 /\ v[c] = 0
        /\ \A c \in Cells : c[2] \notin dead /\ CellOK(s.db, s.touched, w, c) => CellOK(m, s.touched, v, c)
    <2>1. Settles(s.db, m, w, v, s.touched, dead)
      BY <1>1, SettledCells
    <2> HIDE DEF m
    <2> QED BY <2>1, Zenon DEF Settles
  <1>3. t = [s EXCEPT !.db = m]
    BY Zenon DEF SettledFrom
  <1> HIDE DEF m
  <1>4. t \in State /\ t.db = m /\ t.touched = s.touched /\ t.committed = s.committed
    <2>1. m \in [Cells -> Int]
      BY <1>2
    <2> DEFINE n == [s EXCEPT !.db = m]
    <2>2. n \in State /\ n.db = m /\ n.touched = s.touched /\ n.committed = s.committed
      BY <2>1, NewDb
    <2>3. t = n
      BY <1>3
    <2> HIDE DEF n
    <2> QED BY <2>2, <2>3, Zenon
  <1>5. q \in State /\ q.db = m /\ q.touched = s.touched /\ q.committed = s.touched
    BY <1>4 DEF State, CommittedFrom
  <1>6. ASSUME NEW c \in Codes
        PROVE  KeptCode(q, c)
    <2>1. KeptCode(s, c) /\ c \in Cells /\ (m[c] = 0 \/ m[c] = s.db[c]) /\ m[c] \in Int
      BY <1>2, PlainFacts DEF Kept
    <2>2. q.touched[c] # Absent => q.touched[c] \in Int
      BY <1>5, <2>1, StateFacts
    <2>3. q.db[c] >= 0 /\ (q.touched[c] = Absent => q.db[c] = 0)
      BY <1>5, <2>1 DEF KeptCode
    <2>4. q.touched[c] # Absent => q.touched[c] > 0 /\ (q.committed[c] # Absent => q.touched[c] >= q.committed[c])
      BY <1>5, <2>1, <2>2 DEF KeptCode
    <2> QED BY <2>3, <2>4 DEF KeptCode
  <1>7. Kept(q)
    BY <1>5, <1>6 DEF Kept
  <1>8. ASSUME NEW c \in Cells \ L PROVE CellOK(q.db, q.touched, v, c)
    <2>1. CASE c[2] \notin dead
      <3>1. CellOK(s.db, s.touched, w, c)
        BY DEF Follows
      <3> QED BY <1>2, <1>5, <2>1, <3>1
    <2>2. CASE c[2] \in dead
      <3>1. m[c] = 0 /\ v[c] = 0 /\ s.touched[c] # Absent
        BY <1>2, <1>4, <2>2 DEF Refetched
      <3>2. CASE c \notin Codes
        <4>1. Lag(v, q.db, c) = 0
          BY <1>5, <3>1 DEF Lag
        <4> QED BY <1>5, <3>1, <3>2, <4>1 DEF CellOK
      <3>3. CASE c \in Codes
        <4>1. s.touched[c] # s.committed[c]
          BY <2>2, <3>1, <3>3, CodeCell DEF GoneOK
        <4>2. c \in Revived(t)
          BY <1>4, <3>1, <3>3, <4>1 DEF Revived
        <4> QED BY <4>2
      <3> QED BY <3>2, <3>3
    <2> QED BY <2>1, <2>2
  <1>9. Follows(q.db, q.touched, v, L)
    BY <1>8 DEF Follows
  <1>10. GoneOK({}, q, L) /\ StackOK(<<>>, q, {}, L)
    BY DEF GoneOK, StackOK
  <1>11. Unwritten(q, <<>>, L)
    BY <1>4, <1>5 DEF Unwritten, Losses, Unfetched
  <1> QED BY <1>7, <1>9, <1>10, <1>11 DEF Linked

LEMMA FaithEndTx ==
  ASSUME Inv, FaithInv, NEW ok \in BOOLEAN, NEW used \in 1..GasLimit, EndTx(ok, used)
  PROVE  FaithInv'
  <1> DEFINE f  == Top
             s1 == Returned(ok)
             s2 == IF ok THEN s1 ELSE RevertAccountState(s1, f.touched)
             s3 == Touch(Touch(Touch(Touch(s2, Balance(f.from)), Nonce(f.from)),
                               Balance(f.to)), Nonce(f.to))
             dead == IF ok THEN gone ELSE {}
             settled(m) == Settle(m, f.from, used, dead)
             s4 == [s3 EXCEPT !.db = settled(s3.db)]
             w  == Left(ok, f, world, f.world)
  <1>1. /\ phase = "tx" /\ Len(frames) = 1
        /\ acct' = [s4 EXCEPT !.committed = s4.touched] /\ world' = settled(w)
        /\ frames' = <<>> /\ gone' = {} /\ phase' = "idle"
    BY Zenon DEF EndTx, Settle
  <1>2. lost' = lost \cup Losses(acct, s4, <<>>) \cup Revived(s4)
                     \cup Refetched(s4, dead) \cup (IF ok THEN {} ELSE Stale(f))
    BY Zenon DEF EndTx, Settle
  <1>3. f \in Frame /\ acct \in State /\ world \in [Cells -> Int] /\ gone \in SUBSET Accounts
    BY <1>1, RunningLinked, TypeFacts DEF Inv
  <1>4. s1 \in State
    BY <1>1, ReturnedFacts
  <1> HIDE DEF f, s1
  <1>5. /\ f.from \in Accounts /\ f.to \in Accounts /\ f.world \in [Cells -> Int]
        /\ f.touched \in Map
    BY <1>3 DEF Frame
  <1>6. s2 \in State
    <2>1. RevertAccountState(s1, f.touched) \in State
      BY <1>4, <1>5, RevertFacts, Zenon
    <2> QED BY <1>4, <2>1
  <1>7. w \in [Cells -> Int]
    <2>1. f \in Frame /\ world \in [Cells -> Int] /\ f.world \in [Cells -> Int]
      BY <1>3, <1>5
    <2> QED BY <2>1, LeftFacts, Zenon
  <1> HIDE DEF s2
  <1>8. Marks(s2, s3) /\ SameCodes(s2.touched, s3.touched)
    BY <1>5, <1>6, FinalMarks
  <1> HIDE DEF s3
  <1>9. s3 \in State /\ s3.db \in [Cells -> Int]
    BY <1>8 DEF Marks, State
  <1>10. dead \in SUBSET Accounts
    BY <1>3
  <1>11. /\ settled(s3.db) \in [Cells -> Int]
         /\ \A c \in Codes : s3.db[c] = 0 => settled(s3.db)[c] = 0
    <2> HIDE DEF dead
    <2>1. /\ settled(s3.db) \in [Cells -> Int]
          /\ \A c \in Codes : c[2] \notin dead => settled(s3.db)[c] = s3.db[c]
          /\ \A c \in Cells : c[2] \in dead => settled(s3.db)[c] = 0
      <3>1. Settles(s3.db, settled(s3.db), s3.db, settled(s3.db), s3.touched, dead)
        BY <1>5, <1>9, SettledCells
      <3> HIDE DEF settled
      <3> QED BY <3>1 DEF Settles
    <2> HIDE DEF settled
    <2> QED BY <2>1, PlainFacts
  <1>12. s4.touched = s3.touched /\ s4.committed = s3.committed /\ s4.db = settled(s3.db)
    <2> HIDE DEF settled
    <2> QED BY <1>9, <1>11, NewDb
  <1>13. Unread(s3) \subseteq lost' /\ Revived(s3) \subseteq lost' /\ lost \subseteq lost'
    <2> HIDE DEF s4, settled
    <2>1. Unread(s3) = Unread(s4)
      BY <1>12 DEF Unread
    <2>2. Revived(s3) \subseteq Revived(s4)
      BY <1>11, <1>12 DEF Revived
    <2> QED BY <1>2, <2>1, <2>2 DEF Losses
  <1>14. /\ Kept(s3) /\ GoneOK(dead, s3, lost')
         /\ \A c \in Cells : c \notin lost' => CellOK(s3.db, s3.touched, w, c)
    <2> HIDE DEF s4, settled
    <2>1. CASE ok
      <3>1. s2 = Returned(TRUE) /\ w = Left(TRUE, Top, world, Top.world) /\ dead = gone
        BY <2>1 DEF s2, s1, f
      <3> HIDE DEF w, dead
      <3>2. /\ Kept(s3) /\ GoneOK(gone, s3, lost)
            /\ \A c \in Cells : c \notin lost \cup Unread(s3) \cup Revived(s3) => CellOK(s3.db, s3.touched, w, c)
        BY <1>1, <1>8, <3>1, EndOk
      <3> QED BY <1>13, <3>1, <3>2 DEF GoneOK
    <2>2. CASE ~ok
      <3>1. s2 = RevertAccountState(Returned(FALSE), Top.touched) /\ w = Top.world /\ dead = {}
        <4>1. Left(FALSE, f, world, f.world) = f.world
          BY Zenon DEF Left
        <4> QED BY <2>2, <4>1 DEF s2, s1, f
      <3>2. Stale(Top) \subseteq lost'
        BY <1>2, <2>2 DEF f
      <3> HIDE DEF w, dead
      <3>3. /\ Kept(s3)
            /\ \A c \in Cells : c \notin lost \cup Unread(s3) \cup Revived(s3) \cup Stale(Top)
                   => CellOK(s3.db, s3.touched, w, c)
        BY <1>1, <1>8, <3>1, EndFail
      <3> QED BY <1>13, <3>1, <3>2, <3>3 DEF GoneOK
    <2> QED BY <2>1, <2>2
  <1>15. /\ Losses(acct, s4, <<>>) \subseteq lost' /\ Revived(s4) \subseteq lost'
         /\ Refetched(s4, dead) \subseteq lost'
    <2> HIDE DEF s4, dead
    <2> QED BY <1>2
  <1> DEFINE q == [s4 EXCEPT !.committed = s4.touched]
             v == settled(w)
  <1>16. Linked(q, v, <<>>, {}, lost')
    <2>1. SettledFrom(s3, s4, f.from, used, dead) /\ v = Settle(w, f.from, used, dead)
      BY Zenon DEF SettledFrom
    <2>3. CommittedFrom(s4, q)
      BY Zenon DEF CommittedFrom
    <2> HIDE DEF s4, settled, q, v, w, dead
    <2>4. Follows(s3.db, s3.touched, w, lost')
      BY <1>14 DEF Follows
    <2>5. Kept(s3) /\ GoneOK(dead, s3, lost')
      BY <1>14
    <2>6. f.from \in Accounts /\ w \in [Cells -> Int] /\ s3 \in State
      BY <1>5, <1>7, <1>9
    <2> QED BY <1>10, <1>15, <2>1, <2>3, <2>4, <2>5, <2>6, FaithSettled, Zenon
  <1> HIDE DEF q, v
  <1>17. acct' = q /\ world' = v
    BY <1>1, Zenon DEF q, v
  <1> QED BY <1>1, <1>16, <1>17 DEF FaithInv

LEMMA FaithInit == Init => FaithInv
  <1> SUFFICES ASSUME Init PROVE FaithInv
    OBVIOUS
  <1> DEFINE none == [c \in Cells |-> Absent]
             zero == [c \in Cells |-> 0]
  <1>1. /\ acct = [db |-> zero, touched |-> none, committed |-> none]
        /\ frames = <<>> /\ gone = {} /\ world = Chain /\ lost = {}
    BY DEF Init
  <1>2. acct.db = zero /\ acct.touched = none /\ acct.committed = none
    BY <1>1
  <1>3. \A c \in Cells : acct.db[c] = 0 /\ acct.touched[c] = Absent /\ acct.committed[c] = Absent
    BY <1>2
  <1> HIDE DEF none, zero
  <1>4. Kept(acct)
    BY <1>3, PlainFacts, SlotFacts DEF Kept, KeptCode
  <1>5. ASSUME NEW c \in Cells PROVE CellOK(acct.db, acct.touched, world, c)
    <2>1. Chain[c] \in Int
      BY StateAssumption
    <2>2. Lag(world, acct.db, c) = Chain[c]
      BY <1>1, <1>3, <2>1 DEF Lag
    <2> QED BY <1>1, <1>3, <2>2 DEF CellOK
  <1>6. Follows(acct.db, acct.touched, world, lost) /\ Unwritten(acct, frames, lost)
    BY <1>3, <1>5 DEF Follows, Unwritten
  <1>7. GoneOK(gone, acct, lost) /\ StackOK(frames, acct, gone, lost)
    BY <1>1 DEF GoneOK, StackOK
  <1> QED BY <1>4, <1>6, <1>7 DEF FaithInv, Linked

LEMMA FaithNext ==
  ASSUME Inv, FaithInv, [Next]_vars
  PROVE  FaithInv'
  <1>1. CASE Begin
    <2>1. ASSUME NEW from \in Senders, NEW v \in Amounts, BeginRejected(from, v)
          PROVE  FaithInv'
      BY <2>1 DEF BeginRejected, FaithInv
    <2> QED BY <1>1, <2>1, FaithBeginCall, FaithBeginCreate DEF Begin
  <1>2. CASE Instruction
    BY <1>2, FaithSload, FaithSstoreProtected, FaithSstore, FaithReadBalance, FaithReadCode,
       FaithSelfdestruct, FaithCallProtected, FaithCall, FaithCreateContract DEF Instruction
  <1>3. CASE End
    <2>1. CASE TxPanics
      BY <2>1 DEF TxPanics, FaithInv
    <2> QED BY <1>3, <2>1, FaithEndCall, FaithEndTx DEF End
  <1>4. CASE UNCHANGED vars
    BY <1>4 DEF vars, FaithInv
  <1> QED BY <1>1, <1>2, <1>3, <1>4 DEF Next

(***************************************************************************)
(* Every step of the replay, through failed calls, self-destructions and    *)
(* constructors too, keeps the correspondence of all cells that met no      *)
(* loss: for the state now and, so that a failing call can go back to it,   *)
(* for the state saved by each call of the stack.                           *)
(***************************************************************************)
THEOREM CellsFollowChain == Spec => []FaithInv
  <1>1. Init => FaithInv
    BY FaithInit
  <1>2. Inv /\ FaithInv /\ [Next]_vars => FaithInv'
    BY FaithNext
  <1> QED BY <1>1, <1>2, InductiveInvariant, PTL DEF Spec

LEMMA SeenUntouched ==
  ASSUME acct \in State, NEW c \in Cells, acct.touched[c] = Absent
  PROVE  Seen(c) = Chain[c]
  <1> DEFINE t == Fetch(acct, c)
             d == [acct.db EXCEPT ![c] = Chain[c]]
  <1>1. t \in State /\ t.db = d /\ d \in [Cells -> Int] /\ d[c] = Chain[c]
    <2>1. t \in State /\ t.db = d
      BY FetchFacts
    <2>2. acct.db \in [Cells -> Int] /\ Chain[c] \in Int
      BY StateAssumption DEF State
    <2> QED BY <2>1, <2>2
  <1>2. Touch(t, c).db[c] = Chain[c]
    <2> HIDE DEF t, d
    <2> QED BY <1>1, TouchFacts
  <1>3. SloadHook(acct, c).db[c] = Chain[c] /\ CheckAndSet(acct, c).db[c] = Chain[c]
    BY <1>2, Zenon DEF SloadHook, CheckAndSet
  <1>4. CheckAndSetCode(acct, c).db[c] = Chain[c]
    <2> DEFINE p == AppendCode(acct.touched, c, Chain[c])
               q == AppendCode(acct.committed, c, Chain[c])
    <2>1. CheckAndSetCode(acct, c) = [acct EXCEPT !.db = d, !.touched = p, !.committed = q]
      BY DEF CheckAndSetCode
    <2> HIDE DEF p, q, d
    <2>2. [acct EXCEPT !.db = d, !.touched = p, !.committed = q].db = d
      BY DEF State
    <2> QED BY <1>1, <2>1, <2>2
  <1> QED BY <1>3, <1>4, Zenon DEF Seen

LEMMA SeenTouched ==
  ASSUME acct \in State, NEW c \in Cells, acct.touched[c] # Absent
  PROVE  Seen(c) = IF c \in Codes /\ acct.db[c] = 0 THEN acct.touched[c] ELSE acct.db[c]
  <1>1. SloadHook(acct, c).db[c] = acct.db[c]
    BY DEF SloadHook
  <1>2. CheckAndSet(acct, c).db[c] = acct.db[c]
    <2>1. CheckAndSet(acct, c) = Touch(acct, c)
      BY Zenon DEF CheckAndSet
    <2> QED BY <2>1, TouchFacts
  <1>3. CheckAndSetCode(acct, c).db[c] = IF acct.db[c] = 0 THEN acct.touched[c] ELSE acct.db[c]
    <2>1. CASE acct.db[c] = 0
      <3>1. CheckAndSetCode(acct, c) = [acct EXCEPT !.db[c] = acct.touched[c]]
        BY <2>1 DEF CheckAndSetCode
      <3> QED BY <2>1, <3>1 DEF State
    <2>2. CASE acct.db[c] # 0
      BY <2>2 DEF CheckAndSetCode
    <2> QED BY <2>1, <2>2
  <1>4. c \in Codes => c \notin Slots
    BY SlotFacts
  <1> QED BY <1>1, <1>2, <1>3, <1>4, Zenon DEF Seen

(***************************************************************************)
(* What a contract reads next, through the hook of its instruction, is the  *)
(* state of the chain, for all cells but the lost ones and those of         *)
(* accounts under construction: for any chain at the node, any number of    *)
(* transactions and any nesting of calls, failed and self-destructing ones  *)
(* included.                                                                *)
(***************************************************************************)
THEOREM ReplayIsFaithful == Spec => []Faithful
  <1>1. Inv /\ FaithInv => Faithful
    <2> SUFFICES ASSUME Inv, FaithInv, phase \in {"idle", "tx"},
                        NEW c \in Cells, c \notin lost, c \notin Building
                 PROVE  Seen(c) = world[c]
      BY Zenon DEF Faithful
    <2>1. acct \in State /\ world \in [Cells -> Int]
      BY TypeFacts DEF Inv
    <2>2. acct.db[c] \in Int /\ world[c] \in Int /\ Chain[c] \in Int
      BY <2>1, StateFacts, StateAssumption
    <2>3. CellOK(acct.db, acct.touched, world, c) /\ Unwritten(acct, frames, lost)
      BY DEF FaithInv, Linked, Follows
    <2>4. CASE acct.touched[c] = Absent
      <3>1. Seen(c) = Chain[c]
        BY <2>1, <2>4, SeenUntouched
      <3>2. c \in Codes => world[c] = Chain[c]
        BY <2>3, <2>4 DEF CellOK
      <3>3. CASE c \notin Codes
        <4>1. c[2] \notin Constructing(frames)
          BY DEF Building
        <4>2. acct.db[c] = 0
          BY <2>3, <2>4, <4>1 DEF Unwritten
        <4>3. world[c] - acct.db[c] = Chain[c]
          BY <2>3, <2>4, <3>3 DEF CellOK, Lag
        <4> QED BY <2>2, <3>1, <4>2, <4>3
      <3> QED BY <3>1, <3>2, <3>3
    <2>5. CASE acct.touched[c] # Absent
      <3>1. Seen(c) = IF c \in Codes /\ acct.db[c] = 0 THEN acct.touched[c] ELSE acct.db[c]
        BY <2>1, <2>5, SeenTouched
      <3>2. CASE c \in Codes
        BY <2>3, <2>5, <3>1, <3>2 DEF CellOK
      <3>3. CASE c \notin Codes
        <4>1. world[c] - acct.db[c] = 0
          BY <2>3, <2>5, <3>3 DEF CellOK, Lag
        <4> QED BY <2>2, <3>1, <3>3, <4>1
      <3> QED BY <3>2, <3>3
    <2> QED BY <2>4, <2>5
  <1> QED BY <1>1, InductiveInvariant, CellsFollowChain, PTL
=============================================================================
