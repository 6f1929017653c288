------------------------ MODULE StateJournal_proofs ------------------------
(***************************************************************************)
(* Proofs about the StateDB, for all addresses, slots and values, every      *)
(* alloc and any number of operations, snapshots, reverts and transactions.  *)
(***************************************************************************)
EXTENDS StateJournal, WellFoundedInduction, FiniteSetTheorems, TLAPS

(***************************************************************************)
(* Induction over the natural numbers, stated for sets of numbers.          *)
(***************************************************************************)
\* Every set of numbers that is not empty has a least element.
LEMMA NatMinimum ==
  ASSUME NEW T \in SUBSET Nat, T # {}
  PROVE  \E x \in T : \A y \in T : x <= y
  <1>1. IsWellFoundedOn({p \in Nat \X Nat : p[1] < p[2]}, Nat)
    BY NatLessThanWellFounded, Zenon DEF OpToRel
  <1>2. PICK x \in T : \A y \in T : ~ (<<y, x>> \in {p \in Nat \X Nat : p[1] < p[2]})
    BY <1>1, WFMin, Zenon
  <1>3. ASSUME NEW y \in T PROVE x <= y
    <2>1. x \in Nat /\ y \in Nat /\ <<y, x>> \in Nat \X Nat
      OBVIOUS
    <2>2. ~ (<<y, x>>[1] < <<y, x>>[2])
      BY <1>2, <2>1, Zenon
    <2> QED BY <2>1, <2>2
  <1> QED BY <1>3

\* A set of numbers that holds 0 and the successor of each of its elements holds them all.
LEMMA SetInduction ==
  ASSUME NEW T \in SUBSET Nat, 0 \in T, \A n \in T : n + 1 \in T
  PROVE  T = Nat
  <1> SUFFICES ASSUME Nat \ T # {} PROVE FALSE
    OBVIOUS
  <1>1. PICK x \in Nat \ T : \A y \in Nat \ T : x <= y
    BY NatMinimum
  <1>2. x # 0 /\ x - 1 \in Nat /\ x - 1 \in T
    BY <1>1
  <1> QED BY <1>1, <1>2

(***************************************************************************)
(* revert, entry by entry.                                                  *)
(***************************************************************************)
Undoing(s, n, u) ==
    u = [i \in n..Len(s.entries) |-> IF i = Len(s.entries) THEN s ELSE undoLast(u[i + 1])]

\* The function that revert defines exists: it is built backwards from the length of the journal.
LEMMA UndoingExists ==
  ASSUME NEW s, Len(s.entries) \in Nat, NEW n \in 0..Len(s.entries)
  PROVE  \E u : Undoing(s, n, u)
  <1> DEFINE N == Len(s.entries)
             T == {d \in Nat : d <= N => \E u : Undoing(s, N - d, u)}
  <1>1. 0 \in T
    <2> DEFINE u == [i \in N..N |-> s]
    <2>1. u = [i \in N..N |-> IF i = N THEN s ELSE undoLast(u[i + 1])]
      OBVIOUS
    <2>2. N - 0 = N
      OBVIOUS
    <2>3. Undoing(s, N - 0, u)
      BY <2>1, <2>2, Zenon DEF Undoing
    <2> QED BY <2>3
  <1>2. ASSUME NEW d \in T PROVE d + 1 \in T
    <2> SUFFICES ASSUME d + 1 <= N PROVE \E u : Undoing(s, N - (d + 1), u)
      OBVIOUS
    <2>1. d \in Nat /\ d <= N
      OBVIOUS
    <2>2. PICK v : Undoing(s, N - d, v)
      BY <2>1
    <2> DEFINE m == N - (d + 1)
               u == [i \in m..N |-> IF i = m THEN undoLast(v[m + 1]) ELSE v[i]]
    <2>3. m \in Nat /\ m < N /\ N - d = m + 1
      BY <2>1
    <2>4. \A i \in (m + 1)..N : v[i] = IF i = N THEN s ELSE undoLast(v[i + 1])
      BY <2>2, <2>3, Zenon DEF Undoing
    <2> HIDE DEF m
    <2>5. \A i \in m..N : u[i] = IF i = N THEN s ELSE undoLast(u[i + 1])
      <3> TAKE i \in m..N
      <3>1. CASE i = m
        BY <2>3, <3>1
      <3>2. CASE i # m /\ i # N
        <4>1. i \in (m + 1)..N /\ i + 1 \in m..N /\ i + 1 # m
          BY <2>3, <3>2
        <4>2. u[i] = v[i] /\ u[i + 1] = v[i + 1]
          BY <3>2, <4>1, Zenon
        <4> HIDE DEF u
        <4> QED BY <2>4, <3>2, <4>1, <4>2
      <3>3. CASE i = N
        <4>1. i \in (m + 1)..N /\ i # m
          BY <2>3, <3>3
        <4> QED BY <2>4, <3>3, <4>1
      <3> QED BY <3>1, <3>2, <3>3
    <2>6. u = [i \in m..N |-> IF i = N THEN s ELSE undoLast(u[i + 1])]
      BY <2>5
    <2> HIDE DEF u
    <2>7. Undoing(s, m, u)
      BY <2>6, Zenon DEF Undoing
    <2> QED BY <2>7 DEF m
  <1> HIDE DEF T
  <1>3. T = Nat
    <2>1. T \in SUBSET Nat
      BY DEF T
    <2> QED BY <1>1, <1>2, <2>1, SetInduction
  <1>4. N - n \in Nat /\ N - n <= N /\ N - (N - n) = n
    OBVIOUS
  <1> QED BY <1>3, <1>4 DEF T

\* What it gives at a length does not depend on how far down it is defined.
LEMMA UndoingUnique ==
  ASSUME NEW s, Len(s.entries) \in Nat, NEW n \in 0..Len(s.entries), NEW m \in 0..n,
         NEW u, Undoing(s, n, u), NEW v, Undoing(s, m, v)
  PROVE  u[n] = v[n]
  <1> DEFINE N == Len(s.entries)
             T == {d \in Nat : d <= N - n => u[N - d] = v[N - d]}
  <1>1. /\ \A i \in n..N : u[i] = IF i = N THEN s ELSE undoLast(u[i + 1])
        /\ \A i \in m..N : v[i] = IF i = N THEN s ELSE undoLast(v[i + 1])
    BY Zenon DEF Undoing
  <1>2. 0 \in T
    <2>1. N \in n..N /\ N \in m..N /\ N - 0 = N
      OBVIOUS
    <2> QED BY <1>1, <2>1
  <1>3. ASSUME NEW d \in T PROVE d + 1 \in T
    <2> SUFFICES ASSUME d + 1 <= N - n PROVE u[N - (d + 1)] = v[N - (d + 1)]
      OBVIOUS
    <2> DEFINE i == N - (d + 1)
    <2>1. d \in Nat /\ u[N - d] = v[N - d]
      OBVIOUS
    <2>2. i \in n..N /\ i \in m..N /\ i # N /\ i + 1 = N - d
      BY <2>1
    <2> HIDE DEF i
    <2>3. u[i] = undoLast(u[i + 1]) /\ v[i] = undoLast(v[i + 1])
      BY <1>1, <2>2
    <2> QED BY <2>1, <2>2, <2>3 DEF i
  <1> HIDE DEF T
  <1>4. T = Nat
    <2>1. T \in SUBSET Nat
      BY DEF T
    <2> QED BY <1>2, <1>3, <2>1, SetInduction
  <1>5. N - n \in T /\ N - (N - n) = n
    BY <1>4
  <1> QED BY <1>5 DEF T

\* revert is that function, read at any length it reaches.
LEMMA RevertIsUndoing ==
  ASSUME NEW s, Len(s.entries) \in Nat, NEW n \in 0..Len(s.entries), NEW m \in 0..n,
         NEW v, Undoing(s, m, v)
  PROVE  revert(s, n) = v[n]
  <1> DEFINE u == CHOOSE h : h = [i \in n..Len(s.entries) |->
                        IF i = Len(s.entries) THEN s ELSE undoLast(h[i + 1])]
  <1>1. revert(s, n) = u[n]
    BY Zenon DEF revert
  <1>2. \E h : h = [i \in n..Len(s.entries) |->
                        IF i = Len(s.entries) THEN s ELSE undoLast(h[i + 1])]
    BY UndoingExists, Zenon DEF Undoing
  <1>3. u = [i \in n..Len(s.entries) |-> IF i = Len(s.entries) THEN s ELSE undoLast(u[i + 1])]
    BY <1>2, Zenon
  <1> HIDE DEF u
  <1>4. Undoing(s, n, u)
    BY <1>3, Zenon DEF Undoing
  <1> QED BY <1>1, <1>4, UndoingUnique

\* To revert to the present length does nothing.
LEMMA RevertNothing ==
  ASSUME NEW s, Len(s.entries) \in Nat
  PROVE  revert(s, Len(s.entries)) = s
  <1> DEFINE N == Len(s.entries)
  <1>1. N \in 0..N /\ N \in N..N
    OBVIOUS
  <1>2. PICK v : Undoing(s, N, v)
    BY <1>1, UndoingExists
  <1>3. v[N] = s
    BY <1>1, <1>2, Zenon DEF Undoing
  <1> QED BY <1>1, <1>2, <1>3, RevertIsUndoing

\* A revert ends with the undoing of one entry.
LEMMA RevertOne ==
  ASSUME NEW s, Len(s.entries) \in Nat, NEW n \in Nat, n < Len(s.entries)
  PROVE  revert(s, n) = undoLast(revert(s, n + 1))
  <1> DEFINE N == Len(s.entries)
  <1>1. n \in 0..N /\ n + 1 \in 0..N /\ n \in 0..(n + 1) /\ n \in 0..n /\ n \in n..N /\ n # N
    OBVIOUS
  <1>2. PICK v : Undoing(s, n, v)
    BY <1>1, UndoingExists
  <1>3. revert(s, n) = v[n] /\ revert(s, n + 1) = v[n + 1]
    BY <1>1, <1>2, RevertIsUndoing
  <1>4. v[n] = undoLast(v[n + 1])
    BY <1>1, <1>2, Zenon DEF Undoing
  <1> QED BY <1>3, <1>4

\* A set of states that is closed under undoing is closed under reverting.
LEMMA RevertKeeps ==
  ASSUME NEW G, NEW s \in G,
         \A t \in G : /\ Len(t.entries) \in Nat
                      /\ Len(t.entries) > 0 => /\ undoLast(t) \in G
                                               /\ Len(undoLast(t).entries) = Len(t.entries) - 1
  PROVE  \A n \in 0..Len(s.entries) : revert(s, n) \in G /\ Len(revert(s, n).entries) = n
  <1> DEFINE N == Len(s.entries)
             Good(n) == revert(s, n) \in G /\ Len(revert(s, n).entries) = n
             T == {d \in Nat : d <= N => Good(N - d)}
  <1>0. N \in Nat
    OBVIOUS
  <1>1. 0 \in T
    <2>1. revert(s, N) = s /\ N - 0 = N
      BY <1>0, RevertNothing
    <2> QED BY <2>1
  <1>2. ASSUME NEW d \in T PROVE d + 1 \in T
    <2> SUFFICES ASSUME d + 1 <= N PROVE Good(N - (d + 1))
      OBVIOUS
    <2> DEFINE n == N - (d + 1)
    <2>1. d \in Nat /\ Good(N - d)
      BY <1>0
    <2>2. n \in Nat /\ n < N /\ n + 1 = N - d
      BY <1>0, <2>1
    <2> HIDE DEF n
    <2>3. revert(s, n) = undoLast(revert(s, n + 1))
      BY <1>0, <2>2, RevertOne
    <2>4. revert(s, n + 1) \in G /\ Len(revert(s, n + 1).entries) = n + 1
      BY <2>1, <2>2
    <2>5. Good(n)
      BY <2>2, <2>3, <2>4
    <2> QED BY <2>5 DEF n
  <1> HIDE DEF T
  <1>3. T = Nat
    <2>1. T \in SUBSET Nat
      BY DEF T
    <2> QED BY <1>1, <1>2, <2>1, SetInduction
  <1>4. ASSUME NEW n \in 0..N PROVE Good(n)
    <2>1. N - n \in T /\ N - n <= N /\ N - (N - n) = n
      BY <1>0, <1>3
    <2> QED BY <2>1 DEF T
  <1> QED BY <1>4

\* To revert, the last entry may be undone first.
LEMMA RevertFirst ==
  ASSUME NEW s, Len(s.entries) \in Nat, Len(s.entries) > 0,
         Len(undoLast(s).entries) = Len(s.entries) - 1,
         NEW n \in 0..(Len(s.entries) - 1)
  PROVE  revert(s, n) = revert(undoLast(s), n)
  <1> DEFINE M == Len(s.entries) - 1
             r == undoLast(s)
             T == {d \in Nat : d <= M => revert(s, M - d) = revert(r, M - d)}
  <1>1. M \in Nat /\ Len(r.entries) = M /\ Len(s.entries) = M + 1
    OBVIOUS
  <1> HIDE DEF M, r
  <1>2. 0 \in T
    <2>1. revert(s, M + 1) = s /\ revert(s, M) = undoLast(revert(s, M + 1))
      BY <1>1, RevertNothing, RevertOne
    <2>2. revert(r, M) = r /\ M - 0 = M
      BY <1>1, RevertNothing
    <2> QED BY <2>1, <2>2 DEF r
  <1>3. ASSUME NEW d \in T PROVE d + 1 \in T
    <2> SUFFICES ASSUME d + 1 <= M PROVE revert(s, M - (d + 1)) = revert(r, M - (d + 1))
      OBVIOUS
    <2> DEFINE k == M - (d + 1)
    <2>1. d \in Nat /\ revert(s, M - d) = revert(r, M - d)
      BY <1>1
    <2>2. k \in Nat /\ k < M /\ k < M + 1 /\ k + 1 = M - d
      BY <1>1, <2>1
    <2> HIDE DEF k
    <2>3. revert(s, k) = undoLast(revert(s, k + 1)) /\ revert(r, k) = undoLast(revert(r, k + 1))
      BY <1>1, <2>2, RevertOne
    <2> QED BY <2>1, <2>2, <2>3 DEF k
  <1> HIDE DEF T
  <1>4. T = Nat
    <2>1. T \in SUBSET Nat
      BY DEF T
    <2> QED BY <1>2, <1>3, <2>1, SetInduction
  <1>5. M - n \in T /\ M - n <= M /\ M - (M - n) = n
    BY <1>1, <1>4 DEF M
  <1> QED BY <1>5 DEF T, r

(***************************************************************************)
(* Types of a StateDB and of the entries of its journal.                    *)
(***************************************************************************)
Entry ==
    [change : {"create", "touch", "listAddress"}, account : Addrs]
    \cup [change : {"reset"}, account : Addrs, prev : Object, prevdestruct : BOOLEAN]
    \cup [change : {"selfDestruct"}, account : Addrs, prev : BOOLEAN, prevbalance : Nat]
    \cup [change : {"balance", "nonce"}, account : Addrs, prev : Nat]
    \cup [change : {"code"}, account : Addrs, prev : {0, 1}]
    \cup [change : {"storage", "transient"}, account : Addrs, key : Slots, prev : Values]
    \cup [change : {"refund"}, prev : Nat]
    \cup [change : {"log"}]
    \cup [change : {"listSlot"}, account : Addrs, key : Slots]

AccessList == [addresses : [Addrs -> Nat \cup {Nil}], slots : Seq(SUBSET Slots)]

DB == [disk : [Addrs -> Account \cup {Nil}], objects : [Addrs -> Object \cup {Nil}],
       destruct : SUBSET Addrs, refund : Nat, logs : Int,
       transient : [Addrs -> [Slots -> Values]], access : AccessList,
       entries : Seq(Entry), dirties : [Addrs -> Int]]

\* Changes of an object that is there.
ObjectChanges == {"selfDestruct", "balance", "nonce", "code", "storage"}

\* Each kind of entry has what its revert needs.
LEMMA EntryFacts ==
  ASSUME NEW e \in Entry
  PROVE  /\ e.change \in AccountChanges \cup {"refund", "log", "transient", "listAddress", "listSlot"}
         /\ e.change \notin {"refund", "log"} => e.account \in Addrs
         /\ e.change = "reset" => e.prev \in Object /\ e.prevdestruct \in BOOLEAN
         /\ e.change = "selfDestruct" => e.prev \in BOOLEAN /\ e.prevbalance \in Nat
         /\ e.change \in {"balance", "nonce", "refund"} => e.prev \in Nat
         /\ e.change = "code" => e.prev \in {0, 1}
         /\ e.change \in {"storage", "transient"} => e.prev \in Values
         /\ e.change \in {"storage", "transient", "listSlot"} => e.key \in Slots
  BY DEF Entry, AccountChanges

\* The fields of a StateDB.
LEMMA DBFacts ==
  ASSUME NEW s \in DB
  PROVE  /\ s.disk \in [Addrs -> Account \cup {Nil}] /\ s.objects \in [Addrs -> Object \cup {Nil}]
         /\ s.destruct \in SUBSET Addrs /\ s.refund \in Nat /\ s.logs \in Int
         /\ s.transient \in [Addrs -> [Slots -> Values]] /\ s.access \in AccessList
         /\ s.entries \in Seq(Entry) /\ s.dirties \in [Addrs -> Int]
         /\ Len(s.entries) \in Nat
  <1>1. /\ s.disk \in [Addrs -> Account \cup {Nil}] /\ s.objects \in [Addrs -> Object \cup {Nil}]
        /\ s.destruct \in SUBSET Addrs /\ s.refund \in Nat /\ s.logs \in Int
        /\ s.transient \in [Addrs -> [Slots -> Values]] /\ s.access \in AccessList
        /\ s.entries \in Seq(Entry) /\ s.dirties \in [Addrs -> Int]
    BY DEF DB
  <1> QED BY <1>1

\* Nil is no value, no number and no object.
LEMMA NilFacts == Nil \notin Values /\ Nil \notin Nat /\ Nil \notin Object /\ Zero \in Values
  BY JournalAssumption

\* The fields of a state object.
LEMMA ObjectFacts ==
  ASSUME NEW o \in Object
  PROVE  /\ o.balance \in Nat /\ o.nonce \in Nat /\ o.code \in {0, 1}
         /\ o.dirty \in [Slots -> Values \cup {Nil}] /\ o.pending \in [Slots -> Values \cup {Nil}]
         /\ o.origin \in [Slots -> Values \cup {Nil}]
         /\ o.selfDestructed \in BOOLEAN /\ o.deleted \in BOOLEAN /\ o.created \in BOOLEAN
         /\ o # Nil
  BY NilFacts DEF Object

(***************************************************************************)
(* One field of a StateDB at a time.                                        *)
(***************************************************************************)
LEMMA PutObject ==
  ASSUME NEW s \in DB, NEW a \in Addrs, NEW o \in Object \cup {Nil}
  PROVE  LET t == [s EXCEPT !.objects[a] = o]
         IN  /\ t \in DB /\ t.objects = [s.objects EXCEPT ![a] = o]
             /\ t.disk = s.disk /\ t.destruct = s.destruct /\ t.refund = s.refund /\ t.logs = s.logs
             /\ t.transient = s.transient /\ t.access = s.access /\ t.entries = s.entries
             /\ t.dirties = s.dirties
             /\ t.objects[a] = o /\ \A b \in Addrs : b # a => t.objects[b] = s.objects[b]
  <1> DEFINE m == [s.objects EXCEPT ![a] = o]
             t == [s EXCEPT !.objects = m]
  <1>1. [s EXCEPT !.objects[a] = o] = t
    BY Zenon
  <1>2. s.objects \in [Addrs -> Object \cup {Nil}]
    BY DBFacts
  <1>3. m \in [Addrs -> Object \cup {Nil}] /\ m[a] = o /\ \A b \in Addrs : b # a => m[b] = s.objects[b]
    BY <1>2
  <1> HIDE DEF m
  <1>4. /\ t \in DB /\ t.objects = m
        /\ t.disk = s.disk /\ t.destruct = s.destruct /\ t.refund = s.refund /\ t.logs = s.logs
        /\ t.transient = s.transient /\ t.access = s.access /\ t.entries = s.entries
        /\ t.dirties = s.dirties
    BY <1>3 DEF DB
  <1> HIDE DEF t
  <1>5. /\ t \in DB /\ t.objects = m
        /\ t.disk = s.disk /\ t.destruct = s.destruct /\ t.refund = s.refund /\ t.logs = s.logs
        /\ t.transient = s.transient /\ t.access = s.access /\ t.entries = s.entries
        /\ t.dirties = s.dirties
        /\ t.objects[a] = o /\ \A b \in Addrs : b # a => t.objects[b] = s.objects[b]
    BY <1>3, <1>4
  <1> QED BY <1>1, <1>5, Zenon DEF m

(***************************************************************************)
(* undo, by the kind of the entry.                                          *)
(***************************************************************************)
undoneObject(o, e) ==
    IF e.change = "selfDestruct" THEN [o EXCEPT !.selfDestructed = e.prev, !.balance = e.prevbalance]
    ELSE IF e.change = "storage" THEN [o EXCEPT !.dirty[e.key] = e.prev]
    ELSE [o EXCEPT ![e.change] = e.prev]

\* An undone change of an object leaves an object.
LEMMA UndoneObjectType ==
  ASSUME NEW o \in Object, NEW e \in Entry, e.change \in ObjectChanges
  PROVE  undoneObject(o, e) \in Object
  <1>1. CASE e.change = "selfDestruct"
    <2>1. e.prev \in BOOLEAN /\ e.prevbalance \in Nat
      BY <1>1, EntryFacts
    <2>2. ASSUME NEW p \in BOOLEAN, NEW q \in Nat
          PROVE  [o EXCEPT !.selfDestructed = p, !.balance = q] \in Object
      BY DEF Object
    <2> QED BY <1>1, <2>1, <2>2 DEF undoneObject
  <1>2. CASE e.change = "storage"
    <2>1. e.key \in Slots /\ e.prev \in Values
      BY <1>2, EntryFacts
    <2>2. [o EXCEPT !.dirty[e.key] = e.prev] \in Object
      BY <2>1 DEF Object
    <2> QED BY <1>2, <2>2 DEF undoneObject
  <1>3. CASE e.change \in {"balance", "nonce"}
    <2>1. e.prev \in Nat
      BY <1>3, EntryFacts
    <2>2. ASSUME NEW f \in {"balance", "nonce"}, NEW q \in Nat
          PROVE  [o EXCEPT ![f] = q] \in Object
      BY DEF Object
    <2> QED BY <1>3, <2>1, <2>2 DEF undoneObject
  <1>4. CASE e.change = "code"
    <2>1. e.prev \in {0, 1}
      BY <1>4, EntryFacts
    <2>2. ASSUME NEW q \in {0, 1}
          PROVE  [o EXCEPT !["code"] = q] \in Object
      BY DEF Object
    <2> QED BY <1>4, <2>1, <2>2 DEF undoneObject
  <1> QED BY <1>1, <1>2, <1>3, <1>4 DEF ObjectChanges

\* createObjectChange.revert deletes the object.
LEMMA UndoCreate ==
  ASSUME NEW s, NEW e, e.change = "create"
  PROVE  undo(s, e) = [s EXCEPT !.objects[e.account] = Nil]
  BY Zenon DEF undo

\* touchChange.revert is empty.
LEMMA UndoTouch ==
  ASSUME NEW s, NEW e, e.change = "touch"
  PROVE  undo(s, e) = s
  BY Zenon DEF undo

\* resetObjectChange.revert puts the object back and takes off the mark it set.
LEMMA UndoReset ==
  ASSUME NEW s \in DB, NEW e \in Entry, e.change = "reset"
  PROVE  LET t == undo(s, e)
         IN  /\ t \in DB /\ t.objects = [s.objects EXCEPT ![e.account] = e.prev]
             /\ t.destruct = IF e.prevdestruct THEN s.destruct ELSE s.destruct \ {e.account}
             /\ t.disk = s.disk /\ t.refund = s.refund /\ t.logs = s.logs
             /\ t.transient = s.transient /\ t.access = s.access /\ t.entries = s.entries
             /\ t.dirties = s.dirties
  <1> DEFINE m == [s.objects EXCEPT ![e.account] = e.prev]
             d == IF e.prevdestruct THEN s.destruct ELSE s.destruct \ {e.account}
             t == [s EXCEPT !.objects = m, !.destruct = d]
  <1>1. undo(s, e) = t
    BY Zenon DEF undo, undoReset
  <1>2. e.account \in Addrs /\ e.prev \in Object
    BY EntryFacts
  <1>3. m \in [Addrs -> Object \cup {Nil}] /\ d \in SUBSET Addrs
    BY <1>2, DBFacts
  <1> HIDE DEF m, d
  <1>4. /\ t \in DB /\ t.objects = m /\ t.destruct = d
        /\ t.disk = s.disk /\ t.refund = s.refund /\ t.logs = s.logs
        /\ t.transient = s.transient /\ t.access = s.access /\ t.entries = s.entries
        /\ t.dirties = s.dirties
    BY <1>3 DEF DB
  <1> HIDE DEF t
  <1> QED BY <1>1, <1>4, Zenon DEF m, d

\* The reverts that write one object.
LEMMA UndoObject ==
  ASSUME NEW s \in DB, NEW e \in Entry, e.change \in ObjectChanges, s.objects[e.account] # Nil
  PROVE  /\ undo(s, e) = [s EXCEPT !.objects[e.account] = undoneObject(s.objects[e.account], e)]
         /\ undoneObject(s.objects[e.account], e) \in Object
         /\ e.account \in Addrs /\ s.objects[e.account] \in Object
  <1> DEFINE a == e.account
             o == s.objects[a]
  <1>1. a \in Addrs /\ o \in Object
    BY EntryFacts, DBFacts DEF ObjectChanges
  <1>2. undoneObject(o, e) \in Object
    BY <1>1, UndoneObjectType
  <1>3. CASE e.change = "selfDestruct"
    <2>1. undo(s, e) = [s EXCEPT !.objects[e.account].selfDestructed = e.prev,
                                 !.objects[e.account].balance = e.prevbalance]
      BY <1>3, Zenon DEF undo
    <2>2. undoneObject(o, e) = [o EXCEPT !.selfDestructed = e.prev, !.balance = e.prevbalance]
      BY <1>3 DEF undoneObject
    <2> DEFINE p == [o EXCEPT !.selfDestructed = e.prev]
               q == [p EXCEPT !.balance = e.prevbalance]
               s1 == [s EXCEPT !.objects[a] = p]
               s2 == [s1 EXCEPT !.objects[a] = [s1.objects[a] EXCEPT !.balance = e.prevbalance]]
    <2>3. undo(s, e) = s2
      BY <2>1, Zenon
    <2>4. undoneObject(o, e) = q
      BY <2>2, Zenon
    <2>5. p \in Object
      <3>1. e.prev \in BOOLEAN
        BY <1>3, EntryFacts
      <3>2. ASSUME NEW y \in BOOLEAN PROVE [o EXCEPT !.selfDestructed = y] \in Object
        BY <1>1 DEF Object
      <3> QED BY <3>1, <3>2, Zenon
    <2>6. q \in Object
      BY <1>2, <2>4
    <2> HIDE DEF p
    <2>7. /\ s1 \in DB /\ s1.objects[a] = p /\ s1.objects = [s.objects EXCEPT ![a] = p]
          /\ s1.disk = s.disk /\ s1.destruct = s.destruct /\ s1.refund = s.refund
          /\ s1.logs = s.logs /\ s1.transient = s.transient /\ s1.access = s.access
          /\ s1.entries = s.entries /\ s1.dirties = s.dirties
      BY <1>1, <2>5, PutObject
    <2> HIDE DEF s1, q, a, o
    <2>8. s2 = [s1 EXCEPT !.objects[a] = q]
      BY <2>7, Zenon DEF q
    <2>9. [s1 EXCEPT !.objects[a] = q] = [s EXCEPT !.objects[a] = q]
      <3>1. [[s.objects EXCEPT ![a] = p] EXCEPT ![a] = q] = [s.objects EXCEPT ![a] = q]
        BY <1>1, DBFacts
      <3>2. [s1 EXCEPT !.objects[a] = q] = [s1 EXCEPT !.objects = [s.objects EXCEPT ![a] = q]]
        BY <2>7, <3>1, Zenon
      <3>3. ASSUME NEW m PROVE [s1 EXCEPT !.objects = m] = [s EXCEPT !.objects = m]
        BY <2>7 DEF DB
      <3> QED BY <3>2, <3>3, Zenon
    <2> QED BY <1>1, <2>3, <2>4, <2>6, <2>8, <2>9 DEF a, o
  <1>4. CASE e.change = "storage"
    <2>1. undo(s, e) = [s EXCEPT !.objects[e.account].dirty[e.key] = e.prev]
      BY <1>4, Zenon DEF undo
    <2>2. undoneObject(o, e) = [o EXCEPT !.dirty[e.key] = e.prev]
      BY <1>4 DEF undoneObject
    <2>3. undo(s, e) = [s EXCEPT !.objects[e.account] = undoneObject(o, e)]
      BY <2>1, <2>2, Zenon
    <2> QED BY <1>1, <1>2, <2>3
  <1>5. CASE e.change \in {"balance", "nonce", "code"}
    <2>1. undo(s, e) = [s EXCEPT !.objects[e.account][e.change] = e.prev]
      BY <1>5, Zenon DEF undo
    <2>2. undoneObject(o, e) = [o EXCEPT ![e.change] = e.prev]
      BY <1>5 DEF undoneObject
    <2>3. undo(s, e) = [s EXCEPT !.objects[e.account] = undoneObject(o, e)]
      BY <2>1, <2>2, Zenon
    <2> QED BY <1>1, <1>2, <2>3
  <1> QED BY <1>3, <1>4, <1>5 DEF ObjectChanges

undoneAccess(al, e) ==
    IF e.change = "listAddress" THEN [al EXCEPT !.addresses[e.account] = Nil]
    ELSE IF e.change = "listSlot" THEN unlistSlot(al, e.account, e.key)
    ELSE al

undoneTransient(m, e) ==
    IF e.change = "transient" THEN [m EXCEPT ![e.account][e.key] = e.prev] ELSE m

undoneRefund(n, e) == IF e.change = "refund" THEN e.prev ELSE n

undoneLogs(n, e) == IF e.change = "log" THEN n - 1 ELSE n

\* The fields of an access list.
LEMMA AccessFacts ==
  ASSUME NEW al \in AccessList
  PROVE  /\ al.addresses \in [Addrs -> Nat \cup {Nil}] /\ al.slots \in Seq(SUBSET Slots)
         /\ Len(al.slots) \in Nat
  BY DEF AccessList

\* What a cut leaves of a sequence.
LEMMA CutSeq ==
  ASSUME NEW S, NEW q \in Seq(S), NEW n \in Nat, n < Len(q)
  PROVE  /\ SubSeq(q, 1, n) \in Seq(S) /\ Len(SubSeq(q, 1, n)) = n
         /\ \A i \in 1..n : SubSeq(q, 1, n)[i] = q[i]
  OBVIOUS

\* DeleteSlot leaves an access list.
LEMMA UnlistType ==
  ASSUME NEW al \in AccessList, NEW a \in Addrs, NEW k, al.addresses[a] \in 1..Len(al.slots)
  PROVE  unlistSlot(al, a, k) \in AccessList
  <1> DEFINE idx == al.addresses[a]
             left == al.slots[idx] \ {k}
  <1>1. /\ al.addresses \in [Addrs -> Nat \cup {Nil}] /\ al.slots \in Seq(SUBSET Slots)
        /\ Len(al.slots) \in Nat
    BY AccessFacts
  <1>2. idx \in 1..Len(al.slots) /\ left \in SUBSET Slots
    BY <1>1
  <1> HIDE DEF idx, left
  <1>3. CASE left = {}
    <2>1. idx - 1 \in Nat /\ idx - 1 < Len(al.slots)
      BY <1>1, <1>2
    <2>2. SubSeq(al.slots, 1, idx - 1) \in Seq(SUBSET Slots)
      BY <1>1, <2>1, CutSeq
    <2>3. [al.addresses EXCEPT ![a] = NoSlots] \in [Addrs -> Nat \cup {Nil}]
      BY <1>1 DEF NoSlots
    <2>4. unlistSlot(al, a, k) = [addresses |-> [al.addresses EXCEPT ![a] = NoSlots],
                                  slots |-> SubSeq(al.slots, 1, idx - 1)]
      BY <1>3 DEF unlistSlot, idx, left
    <2> QED BY <2>2, <2>3, <2>4 DEF AccessList
  <1>4. CASE left # {}
    <2>1. unlistSlot(al, a, k) = [al EXCEPT !.slots[idx] = left]
      BY <1>4, Zenon DEF unlistSlot, idx, left
    <2>2. [al.slots EXCEPT ![idx] = left] \in Seq(SUBSET Slots)
      BY <1>1, <1>2
    <2>3. [al EXCEPT !.slots[idx] = left] = [al EXCEPT !.slots = [al.slots EXCEPT ![idx] = left]]
      BY Zenon
    <2>4. ASSUME NEW q \in Seq(SUBSET Slots) PROVE [al EXCEPT !.slots = q] \in AccessList
      BY DEF AccessList
    <2> QED BY <2>1, <2>2, <2>3, <2>4
  <1> QED BY <1>3, <1>4

Undoable(s, e) ==
    /\ e.change \in ObjectChanges => s.objects[e.account] # Nil
    /\ e.change = "listSlot" => s.access.addresses[e.account] \in 1..Len(s.access.slots)

\* The reverts that do not concern an account.
LEMMA UndoOther ==
  ASSUME NEW s \in DB, NEW e \in Entry, e.change \notin AccountChanges, Undoable(s, e)
  PROVE  LET t == undo(s, e)
         IN  /\ t \in DB /\ t.disk = s.disk /\ t.objects = s.objects /\ t.destruct = s.destruct
             /\ t.refund = undoneRefund(s.refund, e) /\ t.logs = undoneLogs(s.logs, e)
             /\ t.transient = undoneTransient(s.transient, e)
             /\ t.access = undoneAccess(s.access, e)
             /\ t.entries = s.entries /\ t.dirties = s.dirties
  <1> DEFINE t == undo(s, e)
  <1>1. CASE e.change = "refund"
    <2>1. t = [s EXCEPT !.refund = e.prev]
      BY <1>1, Zenon DEF undo
    <2>2. e.prev \in Nat
      BY <1>1, EntryFacts
    <2> HIDE DEF t
    <2>3. /\ t \in DB /\ t.disk = s.disk /\ t.objects = s.objects /\ t.destruct = s.destruct
          /\ t.refund = e.prev /\ t.logs = s.logs /\ t.transient = s.transient
          /\ t.access = s.access /\ t.entries = s.entries /\ t.dirties = s.dirties
      BY <2>1, <2>2 DEF DB
    <2> QED BY <1>1, <2>3 DEF undoneRefund, undoneLogs, undoneTransient, undoneAccess, t
  <1>2. CASE e.change = "log"
    <2>1. t = [s EXCEPT !.logs = s.logs - 1]
      BY <1>2, Zenon DEF undo
    <2>2. s.logs - 1 \in Int
      BY DBFacts
    <2> HIDE DEF t
    <2>3. /\ t \in DB /\ t.disk = s.disk /\ t.objects = s.objects /\ t.destruct = s.destruct
          /\ t.refund = s.refund /\ t.logs = s.logs - 1 /\ t.transient = s.transient
          /\ t.access = s.access /\ t.entries = s.entries /\ t.dirties = s.dirties
      BY <2>1, <2>2 DEF DB
    <2> QED BY <1>2, <2>3 DEF undoneRefund, undoneLogs, undoneTransient, undoneAccess, t
  <1>3. CASE e.change = "transient"
    <2> DEFINE m == [s.transient EXCEPT ![e.account][e.key] = e.prev]
    <2>1. t = [s EXCEPT !.transient = m]
      BY <1>3, Zenon DEF undo
    <2>2. e.account \in Addrs /\ e.key \in Slots /\ e.prev \in Values
      BY <1>3, EntryFacts
    <2>3. m \in [Addrs -> [Slots -> Values]]
      BY <2>2, DBFacts
    <2> HIDE DEF t, m
    <2>4. /\ t \in DB /\ t.disk = s.disk /\ t.objects = s.objects /\ t.destruct = s.destruct
          /\ t.refund = s.refund /\ t.logs = s.logs /\ t.transient = m
          /\ t.access = s.access /\ t.entries = s.entries /\ t.dirties = s.dirties
      BY <2>1, <2>3 DEF DB
    <2> QED BY <1>3, <2>4 DEF undoneRefund, undoneLogs, undoneTransient, undoneAccess, t, m
  <1>4. CASE e.change \in {"listAddress", "listSlot"}
    <2> DEFINE al == undoneAccess(s.access, e)
    <2>1. t = [s EXCEPT !.access = al]
      <3>1. CASE e.change = "listAddress"
        <4>1. t = [s EXCEPT !.access.addresses[e.account] = Nil]
          BY <3>1, Zenon DEF undo
        <4>2. al = [s.access EXCEPT !.addresses[e.account] = Nil]
          BY <3>1 DEF undoneAccess
        <4> QED BY <4>1, <4>2, Zenon
      <3>2. CASE e.change = "listSlot"
        <4>1. t = [s EXCEPT !.access = unlistSlot(s.access, e.account, e.key)]
          BY <3>2, Zenon DEF undo
        <4>2. al = unlistSlot(s.access, e.account, e.key)
          BY <3>2 DEF undoneAccess
        <4> QED BY <4>1, <4>2, Zenon
      <3> QED BY <1>4, <3>1, <3>2
    <2>2. e.account \in Addrs /\ s.access \in AccessList
      BY <1>4, EntryFacts, DBFacts
    <2>3. al \in AccessList
      <3>1. CASE e.change = "listAddress"
        <4>1. al = [s.access EXCEPT !.addresses[e.account] = Nil]
          BY <3>1 DEF undoneAccess
        <4>2. [s.access EXCEPT !.addresses[e.account] = Nil] \in AccessList
          BY <2>2 DEF AccessList
        <4> QED BY <4>1, <4>2
      <3>2. CASE e.change = "listSlot"
        <4>1. al = unlistSlot(s.access, e.account, e.key)
          BY <3>2 DEF undoneAccess
        <4>2. s.access.addresses[e.account] \in 1..Len(s.access.slots)
          BY <3>2 DEF Undoable
        <4> QED BY <2>2, <4>1, <4>2, UnlistType
      <3> QED BY <1>4, <3>1, <3>2
    <2> HIDE DEF t, al
    <2>4. /\ t \in DB /\ t.disk = s.disk /\ t.objects = s.objects /\ t.destruct = s.destruct
          /\ t.refund = s.refund /\ t.logs = s.logs /\ t.transient = s.transient
          /\ t.access = al /\ t.entries = s.entries /\ t.dirties = s.dirties
      BY <2>1, <2>3 DEF DB
    <2> QED BY <1>4, <2>4 DEF undoneRefund, undoneLogs, undoneTransient, al, t
  <1>5. e.change \in {"refund", "log", "transient", "listAddress", "listSlot"}
    BY EntryFacts
  <1> QED BY <1>1, <1>2, <1>3, <1>4, <1>5

undoneObjects(objects, e) ==
    IF e.change = "create" THEN [objects EXCEPT ![e.account] = Nil]
    ELSE IF e.change = "reset" THEN [objects EXCEPT ![e.account] = e.prev]
    ELSE IF e.change \in ObjectChanges
         THEN [objects EXCEPT ![e.account] = undoneObject(objects[e.account], e)]
    ELSE objects

undoneDestruct(d, e) == IF e.change = "reset" /\ ~e.prevdestruct THEN d \ {e.account} ELSE d

\* undo, field by field.
LEMMA UndoFacts ==
  ASSUME NEW s \in DB, NEW e \in Entry, Undoable(s, e)
  PROVE  LET t == undo(s, e)
         IN  /\ t \in DB /\ t.disk = s.disk
             /\ t.objects = undoneObjects(s.objects, e) /\ t.destruct = undoneDestruct(s.destruct, e)
             /\ t.refund = undoneRefund(s.refund, e) /\ t.logs = undoneLogs(s.logs, e)
             /\ t.transient = undoneTransient(s.transient, e)
             /\ t.access = undoneAccess(s.access, e)
             /\ t.entries = s.entries /\ t.dirties = s.dirties
  <1> DEFINE t == undo(s, e)
             a == e.account
  <1>0. ASSUME e.change \in AccountChanges
        PROVE  /\ undoneRefund(s.refund, e) = s.refund /\ undoneLogs(s.logs, e) = s.logs
               /\ undoneTransient(s.transient, e) = s.transient
               /\ undoneAccess(s.access, e) = s.access /\ a \in Addrs
    BY <1>0, EntryFacts DEF AccountChanges, undoneRefund, undoneLogs, undoneTransient, undoneAccess
  <1>1. CASE e.change = "create"
    <2>1. t = [s EXCEPT !.objects[a] = Nil]
      BY <1>1, UndoCreate
    <2>2. e.change \in AccountChanges
      BY <1>1 DEF AccountChanges
    <2>3. undoneObjects(s.objects, e) = [s.objects EXCEPT ![a] = Nil]
          /\ undoneDestruct(s.destruct, e) = s.destruct
      BY <1>1 DEF undoneObjects, undoneDestruct
    <2> HIDE DEF t, a
    <2>4. /\ t \in DB /\ t.objects = [s.objects EXCEPT ![a] = Nil] /\ t.disk = s.disk
          /\ t.destruct = s.destruct /\ t.refund = s.refund /\ t.logs = s.logs
          /\ t.transient = s.transient /\ t.access = s.access /\ t.entries = s.entries
          /\ t.dirties = s.dirties
      BY <1>0, <2>1, <2>2, PutObject
    <2> QED BY <1>0, <2>2, <2>3, <2>4 DEF t
  <1>2. CASE e.change = "reset"
    <2>1. e.change \in AccountChanges
      BY <1>2 DEF AccountChanges
    <2>2. /\ undoneObjects(s.objects, e) = [s.objects EXCEPT ![a] = e.prev]
          /\ undoneDestruct(s.destruct, e) = IF e.prevdestruct THEN s.destruct ELSE s.destruct \ {a}
      BY <1>2 DEF undoneObjects, undoneDestruct
    <2>3. /\ t \in DB /\ t.objects = [s.objects EXCEPT ![a] = e.prev] /\ t.disk = s.disk
          /\ t.destruct = IF e.prevdestruct THEN s.destruct ELSE s.destruct \ {a}
          /\ t.refund = s.refund /\ t.logs = s.logs
          /\ t.transient = s.transient /\ t.access = s.access /\ t.entries = s.entries
          /\ t.dirties = s.dirties
      BY <1>2, UndoReset, Zenon
    <2> QED BY <1>0, <2>1, <2>2, <2>3
  <1>3. CASE e.change \in ObjectChanges
    <2> DEFINE o == undoneObject(s.objects[a], e)
    <2>1. e.change \in AccountChanges
      BY <1>3 DEF AccountChanges, ObjectChanges
    <2>2. undoneObjects(s.objects, e) = [s.objects EXCEPT ![a] = o]
          /\ undoneDestruct(s.destruct, e) = s.destruct
      BY <1>3 DEF undoneObjects, undoneDestruct, ObjectChanges
    <2>3. t = [s EXCEPT !.objects[a] = o] /\ o \in Object
      <3>1. s.objects[a] # Nil
        BY <1>3 DEF Undoable
      <3> QED BY <1>3, <3>1, UndoObject
    <2> HIDE DEF t, a, o
    <2>4. /\ t \in DB /\ t.objects = [s.objects EXCEPT ![a] = o] /\ t.disk = s.disk
          /\ t.destruct = s.destruct /\ t.refund = s.refund /\ t.logs = s.logs
          /\ t.transient = s.transient /\ t.access = s.access /\ t.entries = s.entries
          /\ t.dirties = s.dirties
      BY <1>0, <2>1, <2>3, PutObject
    <2> QED BY <1>0, <2>1, <2>2, <2>4 DEF t
  <1>4. CASE e.change = "touch"
    <2>1. e.change \in AccountChanges
      BY <1>4 DEF AccountChanges
    <2>2. undoneObjects(s.objects, e) = s.objects /\ undoneDestruct(s.destruct, e) = s.destruct
      BY <1>4 DEF undoneObjects, undoneDestruct, ObjectChanges
    <2>3. t = s
      BY <1>4, UndoTouch
    <2> QED BY <1>0, <2>1, <2>2, <2>3
  <1>5. CASE e.change \notin AccountChanges
    <2>1. undoneObjects(s.objects, e) = s.objects /\ undoneDestruct(s.destruct, e) = s.destruct
      BY <1>5 DEF undoneObjects, undoneDestruct, ObjectChanges, AccountChanges
    <2>2. /\ t \in DB /\ t.disk = s.disk /\ t.objects = s.objects /\ t.destruct = s.destruct
          /\ t.refund = undoneRefund(s.refund, e) /\ t.logs = undoneLogs(s.logs, e)
          /\ t.transient = undoneTransient(s.transient, e)
          /\ t.access = undoneAccess(s.access, e)
          /\ t.entries = s.entries /\ t.dirties = s.dirties
      BY <1>5, UndoOther, Zenon
    <2> QED BY <2>1, <2>2
  <1> QED BY <1>1, <1>2, <1>3, <1>4, <1>5 DEF AccountChanges, ObjectChanges

undoneDirties(m, e) ==
    IF e.change \in AccountChanges THEN [m EXCEPT ![e.account] = @ - 1] ELSE m

Last(q) == q[Len(q)]

\* undoLast, field by field: it also takes the entry off and counts its change back.
LEMMA UndoLastFacts ==
  ASSUME NEW s \in DB, Len(s.entries) > 0, Undoable(s, Last(s.entries))
  PROVE  LET r == undoLast(s)
             e == Last(s.entries)
         IN  /\ e \in Entry
             /\ r \in DB /\ r.disk = s.disk
             /\ r.objects = undoneObjects(s.objects, e) /\ r.destruct = undoneDestruct(s.destruct, e)
             /\ r.refund = undoneRefund(s.refund, e) /\ r.logs = undoneLogs(s.logs, e)
             /\ r.transient = undoneTransient(s.transient, e)
             /\ r.access = undoneAccess(s.access, e)
             /\ r.dirties = undoneDirties(s.dirties, e)
             /\ r.entries = SubSeq(s.entries, 1, Len(s.entries) - 1)
             /\ Len(r.entries) = Len(s.entries) - 1
             /\ \A i \in 1..(Len(s.entries) - 1) : r.entries[i] = s.entries[i]
  <1> DEFINE e == Last(s.entries)
             t == undo(s, e)
             q == SubSeq(s.entries, 1, Len(s.entries) - 1)
             d == undoneDirties(s.dirties, e)
             r == undoLast(s)
  <1>1. s.entries \in Seq(Entry) /\ Len(s.entries) \in Nat /\ s.dirties \in [Addrs -> Int]
    BY DBFacts
  <1>2. e \in Entry
    BY <1>1 DEF Last
  <1>3. /\ t \in DB /\ t.disk = s.disk
        /\ t.objects = undoneObjects(s.objects, e) /\ t.destruct = undoneDestruct(s.destruct, e)
        /\ t.refund = undoneRefund(s.refund, e) /\ t.logs = undoneLogs(s.logs, e)
        /\ t.transient = undoneTransient(s.transient, e)
        /\ t.access = undoneAccess(s.access, e)
        /\ t.entries = s.entries /\ t.dirties = s.dirties
    BY <1>2, UndoFacts, Zenon
  <1>4. Len(s.entries) - 1 \in Nat /\ Len(s.entries) - 1 < Len(s.entries)
    BY <1>1
  <1>5. q \in Seq(Entry) /\ Len(q) = Len(s.entries) - 1 /\ \A i \in 1..(Len(s.entries) - 1) : q[i] = s.entries[i]
    BY <1>1, <1>4, CutSeq
  <1>6. d \in [Addrs -> Int]
    <2>1. CASE e.change \in AccountChanges
      <3>1. e.account \in Addrs
        BY <1>2, <2>1, EntryFacts DEF AccountChanges
      <3> QED BY <1>1, <2>1, <3>1 DEF undoneDirties
    <2>2. CASE e.change \notin AccountChanges
      BY <1>1, <2>2 DEF undoneDirties
    <2> QED BY <2>1, <2>2
  <1> DEFINE v == [t EXCEPT !.entries = q]
  <1>7. r = IF e.change \in AccountChanges
            THEN [v EXCEPT !.dirties[e.account] = v.dirties[e.account] - 1] ELSE v
    <2>1. v = [t EXCEPT !.entries = SubSeq(t.entries, 1, Len(t.entries) - 1)]
      BY <1>3, Zenon
    <2> QED BY <2>1, Zenon DEF undoLast, Last
  <1>71. /\ v \in DB /\ v.disk = t.disk /\ v.objects = t.objects /\ v.destruct = t.destruct
         /\ v.refund = t.refund /\ v.logs = t.logs /\ v.transient = t.transient
         /\ v.access = t.access /\ v.dirties = t.dirties /\ v.entries = q
    <2> HIDE DEF t, q
    <2> QED BY <1>3, <1>5 DEF DB
  <1>72. r = [v EXCEPT !.dirties = d]
    <2> HIDE DEF v, t, r
    <2>1. CASE e.change \in AccountChanges
      <3>1. d = [v.dirties EXCEPT ![e.account] = v.dirties[e.account] - 1]
        BY <1>3, <1>71, <2>1 DEF undoneDirties
      <3> QED BY <1>7, <2>1, <3>1, Zenon
    <2>2. CASE e.change \notin AccountChanges
      <3>1. d = v.dirties
        BY <1>3, <1>71, <2>2 DEF undoneDirties
      <3>2. v = [v EXCEPT !.dirties = v.dirties]
        BY <1>71 DEF DB
      <3> QED BY <1>7, <2>2, <3>1, <3>2
    <2> QED BY <2>1, <2>2
  <1> HIDE DEF v, t, q, d, r, e
  <1>8. /\ r \in DB /\ r.disk = t.disk /\ r.objects = t.objects /\ r.destruct = t.destruct
        /\ r.refund = t.refund /\ r.logs = t.logs /\ r.transient = t.transient
        /\ r.access = t.access /\ r.dirties = d /\ r.entries = q
    <2>1. /\ r \in DB /\ r.disk = v.disk /\ r.objects = v.objects /\ r.destruct = v.destruct
          /\ r.refund = v.refund /\ r.logs = v.logs /\ r.transient = v.transient
          /\ r.access = v.access /\ r.dirties = d /\ r.entries = v.entries
      BY <1>6, <1>71, <1>72 DEF DB
    <2> QED BY <1>71, <2>1
  <1>9. /\ r.disk = s.disk
        /\ r.objects = undoneObjects(s.objects, e) /\ r.destruct = undoneDestruct(s.destruct, e)
        /\ r.refund = undoneRefund(s.refund, e) /\ r.logs = undoneLogs(s.logs, e)
        /\ r.transient = undoneTransient(s.transient, e)
        /\ r.access = undoneAccess(s.access, e)
    BY <1>3, <1>8
  <1> QED BY <1>2, <1>5, <1>8, <1>9, Zenon DEF q, d, r, e

(***************************************************************************)
(* Access list and journal.  The table has no holes (Table); what a revert  *)
(* will take from the list is on it (AddrsListed, SlotsListed); and of two  *)
(* addresses the one with the earlier position has a slot that was listed   *)
(* before all slots of the other (Ordered), so that DeleteSlot, when it     *)
(* takes the last slot of an address, finds it at the end of the table.     *)
(***************************************************************************)
AddrAt(q, i, a) == i \in 1..Len(q) /\ q[i].change = "listAddress" /\ q[i].account = a

SlotAt(q, i, a, k) ==
    i \in 1..Len(q) /\ q[i].change = "listSlot" /\ q[i].account = a /\ q[i].key = k

HasSlots(al, a) == al.addresses[a] \notin {Nil, NoSlots}

SlotsOf(al, a) == al.slots[al.addresses[a]]

Table(al) ==
    /\ \A a \in Addrs : HasSlots(al, a) => al.addresses[a] \in 1..Len(al.slots)
    /\ \A i \in 1..Len(al.slots) : al.slots[i] # {} /\ \E a \in Addrs : al.addresses[a] = i
    /\ \A a, b \in Addrs : HasSlots(al, a) /\ al.addresses[a] = al.addresses[b] => a = b

SlotsListed(al, q) ==
    \A i \in Nat, a \in Addrs, k \in Slots :
        SlotAt(q, i, a, k) => /\ HasSlots(al, a) /\ k \in SlotsOf(al, a)
                              /\ \A j \in Nat : SlotAt(q, j, a, k) => j = i

AddrsListed(al, q) ==
    \A i \in Nat, a \in Addrs :
        AddrAt(q, i, a) => /\ al.addresses[a] # Nil
                           /\ \A j \in Nat : AddrAt(q, j, a) => j = i
                           /\ HasSlots(al, a) => \A k \in SlotsOf(al, a) :
                                 \E j \in Nat : j > i /\ SlotAt(q, j, a, k)

Ordered(al, q) ==
    \A a, b \in Addrs :
        HasSlots(al, a) /\ HasSlots(al, b) /\ al.addresses[a] < al.addresses[b] =>
            \E k \in SlotsOf(al, a) : \A i \in Nat : SlotAt(q, i, a, k) =>
                \A l \in SlotsOf(al, b) : \E j \in Nat : j > i /\ SlotAt(q, j, b, l)

Listed(al, q) == Table(al) /\ SlotsListed(al, q) /\ AddrsListed(al, q) /\ Ordered(al, q)

ListChanges == {"listAddress", "listSlot"}

\* Journals with the same list entries at the same positions.
LEMMA ListedSame ==
  ASSUME NEW al, NEW q, NEW r, Listed(al, q),
         \A i \in Nat, a \in Addrs : AddrAt(r, i, a) <=> AddrAt(q, i, a),
         \A i \in Nat, a \in Addrs, k \in Slots : SlotAt(r, i, a, k) <=> SlotAt(q, i, a, k),
         al \in AccessList
  PROVE  Listed(al, r)
  <1>1. \A a \in Addrs : HasSlots(al, a) => SlotsOf(al, a) \subseteq Slots
    <2> TAKE a \in Addrs
    <2> HAVE HasSlots(al, a)
    <2>1. al.addresses[a] \in 1..Len(al.slots) /\ al.slots \in Seq(SUBSET Slots)
      BY AccessFacts DEF Listed, Table
    <2> QED BY <2>1 DEF SlotsOf
  <1>2. SlotsListed(al, r)
    BY DEF Listed, SlotsListed
  <1>3. AddrsListed(al, r)
    BY <1>1 DEF Listed, AddrsListed
  <1>4. Ordered(al, r)
    BY <1>1 DEF Listed, Ordered
  <1> QED BY <1>2, <1>3, <1>4 DEF Listed

\* What append leaves of a journal.
LEMMA AppendFacts ==
  ASSUME NEW q \in Seq(Entry), NEW e \in Entry
  PROVE  /\ Append(q, e) \in Seq(Entry) /\ Len(Append(q, e)) = Len(q) + 1 /\ Len(q) \in Nat
         /\ Append(q, e)[Len(q) + 1] = e
         /\ \A i \in 1..Len(q) : Append(q, e)[i] = q[i]
         /\ Last(Append(q, e)) = e
         /\ SubSeq(Append(q, e), 1, Len(q)) = q
  <1>1. /\ Append(q, e) \in Seq(Entry) /\ Len(Append(q, e)) = Len(q) + 1 /\ Len(q) \in Nat
        /\ Append(q, e)[Len(q) + 1] = e
        /\ \A i \in 1..Len(q) : Append(q, e)[i] = q[i]
    OBVIOUS
  <1> DEFINE r == Append(q, e)
  <1> HIDE DEF r
  <1>2. SubSeq(r, 1, Len(q)) \in Seq(Entry) /\ Len(SubSeq(r, 1, Len(q))) = Len(q)
        /\ \A i \in 1..Len(q) : SubSeq(r, 1, Len(q))[i] = r[i]
    <2>1. r \in Seq(Entry) /\ Len(q) \in Nat /\ Len(q) < Len(r)
      BY <1>1 DEF r
    <2> QED BY <2>1, CutSeq
  <1>3. \A i \in 1..Len(q) : SubSeq(r, 1, Len(q))[i] = q[i]
    BY <1>1, <1>2 DEF r
  <1> DEFINE u == SubSeq(r, 1, Len(q))
  <1>4. u \in Seq(Entry) /\ Len(u) = Len(q) /\ \A i \in 1..Len(q) : u[i] = q[i]
    BY <1>2, <1>3
  <1> HIDE DEF u
  <1>5. u = q
    BY <1>4
  <1> QED BY <1>1, <1>5 DEF u, r, Last

\* The list entries of a longer journal.
LEMMA AppendAt ==
  ASSUME NEW q \in Seq(Entry), NEW e \in Entry, NEW i \in Nat, NEW a \in Addrs
  PROVE  /\ AddrAt(Append(q, e), i, a) <=>
              AddrAt(q, i, a) \/ (i = Len(q) + 1 /\ e.change = "listAddress" /\ e.account = a)
         /\ \A k \in Slots : SlotAt(Append(q, e), i, a, k) <=>
              SlotAt(q, i, a, k) \/ (i = Len(q) + 1 /\ e.change = "listSlot" /\ e.account = a /\ e.key = k)
  <1> DEFINE r == Append(q, e)
  <1>1. Len(r) = Len(q) + 1 /\ Len(q) \in Nat /\ r[Len(q) + 1] = e
        /\ \A j \in 1..Len(q) : r[j] = q[j]
    BY AppendFacts
  <1> HIDE DEF r
  <1>2. CASE i = Len(q) + 1
    <2>1. i \in 1..Len(r) /\ i \notin 1..Len(q) /\ r[i] = e
      BY <1>1, <1>2
    <2> QED BY <1>2, <2>1 DEF AddrAt, SlotAt, r
  <1>3. CASE i # Len(q) + 1
    <2>1. (i \in 1..Len(r) <=> i \in 1..Len(q)) /\ (i \in 1..Len(q) => r[i] = q[i])
      BY <1>1, <1>3
    <2> QED BY <1>3, <2>1 DEF AddrAt, SlotAt, r
  <1> QED BY <1>2, <1>3

\* The list entries of a shorter journal.
LEMMA CutAt ==
  ASSUME NEW q \in Seq(Entry), Len(q) > 0, NEW r, Len(r) = Len(q) - 1,
         \A i \in 1..(Len(q) - 1) : r[i] = q[i],
         NEW i \in Nat, NEW a \in Addrs
  PROVE  /\ AddrAt(r, i, a) <=> AddrAt(q, i, a) /\ i # Len(q)
         /\ \A k \in Slots : SlotAt(r, i, a, k) <=> SlotAt(q, i, a, k) /\ i # Len(q)
  <1>1. Len(q) \in Nat /\ (i \in 1..Len(r) <=> i \in 1..Len(q) /\ i # Len(q))
    <2>1. Len(q) \in Nat
      OBVIOUS
    <2> QED BY <2>1
  <1>2. i \in 1..Len(r) => r[i] = q[i]
    BY <1>1
  <1> QED BY <1>1, <1>2 DEF AddrAt, SlotAt

\* The slots of an address that has some.
LEMMA TableFacts ==
  ASSUME NEW al \in AccessList, Table(al), NEW a \in Addrs, HasSlots(al, a)
  PROVE  /\ al.addresses[a] \in 1..Len(al.slots) /\ al.addresses[a] \in Nat
         /\ SlotsOf(al, a) \in SUBSET Slots /\ SlotsOf(al, a) # {}
  <1>1. al.slots \in Seq(SUBSET Slots) /\ Len(al.slots) \in Nat /\ al.addresses[a] \in 1..Len(al.slots)
    BY AccessFacts DEF Table
  <1>2. SlotsOf(al, a) # {}
    BY <1>1 DEF Table, SlotsOf
  <1> QED BY <1>1, <1>2 DEF SlotsOf

\* The table after a slot of a is taken from it; the last one is at the end of the table.
LEMMA UnlistFacts ==
  ASSUME NEW al \in AccessList, Table(al), NEW a \in Addrs, HasSlots(al, a), NEW k,
         SlotsOf(al, a) \ {k} = {} => al.addresses[a] = Len(al.slots)
  PROVE  LET u == unlistSlot(al, a, k)
         IN  /\ u \in AccessList /\ Table(u)
             /\ \A b \in Addrs : b # a => /\ u.addresses[b] = al.addresses[b]
                                          /\ HasSlots(al, b) => SlotsOf(u, b) = SlotsOf(al, b)
             /\ SlotsOf(al, a) \ {k} = {} => u.addresses[a] = NoSlots
             /\ SlotsOf(al, a) \ {k} # {} => /\ u.addresses[a] = al.addresses[a]
                                             /\ SlotsOf(u, a) = SlotsOf(al, a) \ {k}
  <1> DEFINE idx == al.addresses[a]
             left == SlotsOf(al, a) \ {k}
             u == unlistSlot(al, a, k)
             N == Len(al.slots)
  <1>1. /\ al.addresses \in [Addrs -> Nat \cup {Nil}] /\ al.slots \in Seq(SUBSET Slots) /\ N \in Nat
        /\ idx \in 1..N /\ left \in SUBSET Slots
    BY AccessFacts, TableFacts
  <1>2. u \in AccessList
    BY <1>1, UnlistType
  <1>3. CASE left = {}
    <2> DEFINE q == SubSeq(al.slots, 1, idx - 1)
               m == [al.addresses EXCEPT ![a] = NoSlots]
    <2>1. u = [addresses |-> m, slots |-> q]
      BY <1>3 DEF unlistSlot, SlotsOf
    <2>2. idx = N /\ idx - 1 \in Nat /\ idx - 1 < N
      BY <1>1, <1>3
    <2>3. Len(q) = idx - 1 /\ \A i \in 1..(idx - 1) : q[i] = al.slots[i]
      BY <1>1, <2>2, CutSeq
    <2>4. m[a] = NoSlots /\ \A b \in Addrs : b # a => m[b] = al.addresses[b]
      BY <1>1
    <2> HIDE DEF m, q, u, left
    <2>5. u.addresses = m /\ u.slots = q
      BY <2>1
    <2>6. ASSUME NEW b \in Addrs, b # a, HasSlots(al, b)
          PROVE  /\ HasSlots(u, b) /\ u.addresses[b] = al.addresses[b]
                 /\ u.addresses[b] \in 1..Len(u.slots) /\ SlotsOf(u, b) = SlotsOf(al, b)
      <3>1. al.addresses[b] \in 1..N /\ al.addresses[b] # idx
        BY <2>6, TableFacts DEF Table
      <3>2. al.addresses[b] \in 1..(idx - 1)
        BY <1>1, <2>2, <3>1
      <3> QED BY <2>3, <2>4, <2>5, <2>6, <3>2 DEF HasSlots, SlotsOf
    <2>7. \A b \in Addrs : HasSlots(u, b) => b # a /\ HasSlots(al, b)
      BY <2>4, <2>5 DEF HasSlots
    <2>8. \A i \in 1..Len(u.slots) : u.slots[i] # {} /\ \E b \in Addrs : u.addresses[b] = i
      <3> TAKE i \in 1..Len(u.slots)
      <3>1. i \in 1..(idx - 1) /\ i \in 1..N /\ i # idx
        BY <1>1, <2>2, <2>3, <2>5
      <3>2. al.slots[i] # {} /\ \E b \in Addrs : al.addresses[b] = i
        BY <3>1 DEF Table
      <3> QED BY <2>3, <2>4, <2>5, <3>1, <3>2
    <2>9. \A b, c \in Addrs : HasSlots(u, b) /\ u.addresses[b] = u.addresses[c] => b = c
      <3> SUFFICES ASSUME NEW b \in Addrs, NEW c \in Addrs, HasSlots(u, b),
                          u.addresses[b] = u.addresses[c]
                   PROVE  b = c
        OBVIOUS
      <3>1. HasSlots(u, c)
        BY DEF HasSlots
      <3>2. HasSlots(al, b) /\ al.addresses[b] = al.addresses[c]
        BY <2>6, <2>7, <3>1
      <3> QED BY <3>2 DEF Table
    <2>10. Table(u)
      BY <2>6, <2>7, <2>8, <2>9 DEF Table
    <2>11. \A b \in Addrs : b # a => /\ u.addresses[b] = al.addresses[b]
                                     /\ HasSlots(al, b) => SlotsOf(u, b) = SlotsOf(al, b)
      BY <2>4, <2>5, <2>6
    <2>12. u.addresses[a] = NoSlots
      BY <2>4, <2>5
    <2> QED BY <1>2, <1>3, <2>10, <2>11, <2>12, Zenon DEF u, left
  <1>4. CASE left # {}
    <2> DEFINE q == [al.slots EXCEPT ![idx] = left]
    <2>1. u = [al EXCEPT !.slots = q]
      BY <1>4, Zenon DEF unlistSlot, SlotsOf
    <2>2. u.addresses = al.addresses /\ u.slots = q
      BY <2>1 DEF AccessList
    <2>3. /\ Len(q) = N /\ q[idx] = left
          /\ \A i \in 1..N : i # idx => q[i] = al.slots[i]
      BY <1>1
    <2> HIDE DEF q, u, left
    <2>4. ASSUME NEW b \in Addrs, b # a, HasSlots(al, b) PROVE SlotsOf(u, b) = SlotsOf(al, b)
      <3>1. al.addresses[b] \in 1..N /\ al.addresses[b] # idx
        BY <2>4, TableFacts DEF Table
      <3> QED BY <2>2, <2>3, <3>1 DEF SlotsOf
    <2>5. Table(u)
      <3>1. \A i \in 1..N : u.slots[i] # {}
        BY <1>4, <2>2, <2>3 DEF Table
      <3> QED BY <2>2, <2>3, <3>1 DEF Table, HasSlots
    <2>6. u.addresses[a] = al.addresses[a] /\ SlotsOf(u, a) = left
      BY <2>2, <2>3 DEF SlotsOf
    <2>7. \A b \in Addrs : b # a => /\ u.addresses[b] = al.addresses[b]
                                    /\ HasSlots(al, b) => SlotsOf(u, b) = SlotsOf(al, b)
      BY <2>2, <2>4
    <2> QED BY <1>2, <1>4, <2>5, <2>6, <2>7, Zenon DEF u, left
  <1> QED BY <1>3, <1>4

\* The table after a slot is listed for a, in the set of a or in a new one at the end.
LEMMA ListSlotFacts ==
  ASSUME NEW al \in AccessList, Table(al), NEW a \in Addrs, NEW k \in Slots
  PROVE  LET u == listSlot(al, a, k)
         IN  /\ u \in AccessList /\ Table(u) /\ HasSlots(u, a)
             /\ \A b \in Addrs : b # a => /\ u.addresses[b] = al.addresses[b]
                                          /\ HasSlots(al, b) => SlotsOf(u, b) = SlotsOf(al, b)
             /\ HasSlots(al, a) => /\ u.addresses[a] = al.addresses[a]
                                   /\ SlotsOf(u, a) = SlotsOf(al, a) \cup {k}
             /\ ~HasSlots(al, a) => /\ SlotsOf(u, a) = {k} /\ u.addresses[a] = Len(al.slots) + 1
  <1> DEFINE idx == al.addresses[a]
             u == listSlot(al, a, k)
             N == Len(al.slots)
  <1>1. /\ al.addresses \in [Addrs -> Nat \cup {Nil}] /\ al.slots \in Seq(SUBSET Slots) /\ N \in Nat
    BY AccessFacts
  <1>2. Nil \notin Nat
    BY NilFacts
  <1>3. CASE HasSlots(al, a)
    <2> DEFINE q == [al.slots EXCEPT ![idx] = al.slots[idx] \cup {k}]
    <2>1. idx \in 1..N /\ al.slots[idx] \in SUBSET Slots
      BY <1>1, <1>3, TableFacts DEF SlotsOf
    <2>2. u = [al EXCEPT !.slots = q]
      BY <1>3, Zenon DEF listSlot, HasSlots
    <2>3. /\ q \in Seq(SUBSET Slots) /\ Len(q) = N /\ q[idx] = al.slots[idx] \cup {k}
          /\ \A i \in 1..N : i # idx => q[i] = al.slots[i]
      BY <1>1, <2>1
    <2> HIDE DEF q
    <2>4. u \in AccessList /\ u.addresses = al.addresses /\ u.slots = q
      BY <2>2, <2>3 DEF AccessList
    <2> HIDE DEF u
    <2>5. ASSUME NEW b \in Addrs, b # a, HasSlots(al, b) PROVE SlotsOf(u, b) = SlotsOf(al, b)
      <3>1. al.addresses[b] \in 1..N /\ al.addresses[b] # idx
        BY <2>5, TableFacts DEF Table
      <3> QED BY <2>3, <2>4, <3>1 DEF SlotsOf
    <2>6. Table(u) /\ HasSlots(u, a)
      <3>1. \A i \in 1..N : u.slots[i] # {}
        BY <2>3, <2>4 DEF Table
      <3> QED BY <1>3, <2>3, <2>4, <3>1 DEF Table, HasSlots
    <2>7. u.addresses[a] = al.addresses[a] /\ SlotsOf(u, a) = SlotsOf(al, a) \cup {k}
      BY <2>3, <2>4 DEF SlotsOf
    <2>8. \A b \in Addrs : b # a => /\ u.addresses[b] = al.addresses[b]
                                    /\ HasSlots(al, b) => SlotsOf(u, b) = SlotsOf(al, b)
      BY <2>4, <2>5
    <2> QED BY <1>3, <2>4, <2>6, <2>7, <2>8, Zenon DEF u
  <1>4. CASE ~HasSlots(al, a)
    <2> DEFINE q == Append(al.slots, {k})
               m == [al.addresses EXCEPT ![a] = N + 1]
    <2>1. u = [addresses |-> m, slots |-> q]
      BY <1>4 DEF listSlot, HasSlots
    <2>2. /\ q \in Seq(SUBSET Slots) /\ Len(q) = N + 1 /\ q[N + 1] = {k}
          /\ \A i \in 1..N : q[i] = al.slots[i]
      BY <1>1
    <2>3. m \in [Addrs -> Nat \cup {Nil}] /\ m[a] = N + 1 /\ \A b \in Addrs : b # a => m[b] = al.addresses[b]
      BY <1>1
    <2>4. u \in AccessList /\ u.addresses = m /\ u.slots = q
      BY <2>1, <2>2, <2>3 DEF AccessList
    <2> HIDE DEF u, m, q
    <2>5. HasSlots(u, a) /\ SlotsOf(u, a) = {k} /\ u.addresses[a] = N + 1
      BY <1>1, <1>2, <2>2, <2>3, <2>4 DEF HasSlots, SlotsOf, NoSlots
    <2>6. ASSUME NEW b \in Addrs, b # a
          PROVE  /\ u.addresses[b] = al.addresses[b] /\ (HasSlots(u, b) <=> HasSlots(al, b))
                 /\ HasSlots(al, b) => /\ SlotsOf(u, b) = SlotsOf(al, b)
                                       /\ u.addresses[b] \in 1..N
      <3>1. u.addresses[b] = al.addresses[b] /\ (HasSlots(u, b) <=> HasSlots(al, b))
        BY <2>3, <2>4, <2>6 DEF HasSlots
      <3>2. ASSUME HasSlots(al, b)
            PROVE  SlotsOf(u, b) = SlotsOf(al, b) /\ u.addresses[b] \in 1..N
        <4>1. al.addresses[b] \in 1..N
          BY <3>2, TableFacts
        <4> QED BY <2>2, <2>4, <3>1, <4>1 DEF SlotsOf
      <3> QED BY <3>1, <3>2
    <2>7. \A i \in 1..Len(u.slots) : u.slots[i] # {} /\ \E b \in Addrs : u.addresses[b] = i
      <3> TAKE i \in 1..Len(u.slots)
      <3>1. CASE i = N + 1
        BY <2>2, <2>4, <2>5, <3>1
      <3>2. CASE i # N + 1
        <4>1. i \in 1..N
          BY <1>1, <2>2, <2>4, <3>2
        <4>2. PICK b \in Addrs : al.addresses[b] = i
          BY <4>1 DEF Table
        <4>3. b # a
          BY <1>1, <1>2, <1>4, <4>1, <4>2 DEF HasSlots, NoSlots
        <4> QED BY <2>2, <2>4, <2>6, <4>1, <4>2, <4>3 DEF Table
      <3> QED BY <3>1, <3>2
    <2>8. \A b, c \in Addrs : HasSlots(u, b) /\ u.addresses[b] = u.addresses[c] => b = c
      <3> SUFFICES ASSUME NEW b \in Addrs, NEW c \in Addrs, HasSlots(u, b),
                          u.addresses[b] = u.addresses[c]
                   PROVE  b = c
        OBVIOUS
      <3>1. HasSlots(u, c)
        BY DEF HasSlots
      <3>2. CASE b # a /\ c # a
        BY <2>6, <3>2 DEF Table
      <3>3. CASE b = a \/ c = a
        BY <1>1, <2>5, <2>6, <3>1, <3>3
      <3> QED BY <3>2, <3>3
    <2>9. \A b \in Addrs : HasSlots(u, b) => u.addresses[b] \in 1..Len(u.slots)
      BY <1>1, <2>2, <2>4, <2>5, <2>6
    <2>10. Table(u)
      BY <2>7, <2>8, <2>9 DEF Table
    <2>11. \A b \in Addrs : b # a => /\ u.addresses[b] = al.addresses[b]
                                     /\ HasSlots(al, b) => SlotsOf(u, b) = SlotsOf(al, b)
      BY <2>6
    <2> QED BY <1>4, <2>4, <2>5, <2>10, <2>11, Zenon DEF u
  <1> QED BY <1>3, <1>4

\* A table alone is enough where the journal holds no entry of the list.
LEMMA ListedTable ==
  ASSUME NEW al \in AccessList, Table(al), NEW q,
         \A i \in 1..Len(q) : q[i].change \notin ListChanges
  PROVE  Listed(al, q)
  <1>1. /\ \A i \in Nat, a \in Addrs : ~AddrAt(q, i, a)
        /\ \A i \in Nat, a \in Addrs, k \in Slots : ~SlotAt(q, i, a, k)
    BY DEF AddrAt, SlotAt, ListChanges
  <1>2. Ordered(al, q)
    <2> SUFFICES ASSUME NEW a \in Addrs, NEW b \in Addrs, HasSlots(al, a)
                 PROVE  \E k \in SlotsOf(al, a) : \A i \in Nat : ~SlotAt(q, i, a, k)
      BY DEF Ordered
    <2> QED BY <1>1, TableFacts
  <1> QED BY <1>1, <1>2 DEF Listed, SlotsListed, AddrsListed

\* An entry of another kind is appended.
LEMMA ListedAppend ==
  ASSUME NEW al \in AccessList, NEW q \in Seq(Entry), Listed(al, q), NEW e \in Entry,
         e.change \notin ListChanges
  PROVE  Listed(al, Append(q, e))
  <1>1. \A i \in Nat, a \in Addrs : AddrAt(Append(q, e), i, a) <=> AddrAt(q, i, a)
    BY AppendAt DEF ListChanges
  <1>2. \A i \in Nat, a \in Addrs, k \in Slots : SlotAt(Append(q, e), i, a, k) <=> SlotAt(q, i, a, k)
    BY AppendAt DEF ListChanges
  <1> QED BY <1>1, <1>2, ListedSame

\* An address is listed.
LEMMA ListedAddress ==
  ASSUME NEW al \in AccessList, NEW q \in Seq(Entry), Listed(al, q), NEW a \in Addrs,
         al.addresses[a] = Nil, NEW e \in Entry, e.change = "listAddress", e.account = a
  PROVE  /\ Listed(listAddress(al, a), Append(q, e)) /\ listAddress(al, a) \in AccessList
         /\ listAddress(al, a).addresses[a] = NoSlots
         /\ \A b \in Addrs : b # a => listAddress(al, a).addresses[b] = al.addresses[b]
         /\ listAddress(al, a).slots = al.slots
  <1> DEFINE u == listAddress(al, a)
             r == Append(q, e)
  <1>1. al.addresses \in [Addrs -> Nat \cup {Nil}] /\ Nil \notin Nat /\ Len(q) \in Nat
    BY AccessFacts, NilFacts
  <1>2. u = [al EXCEPT !.addresses[a] = NoSlots]
    BY DEF listAddress
  <1>3. /\ u \in AccessList /\ u.slots = al.slots /\ u.addresses[a] = NoSlots
        /\ \A b \in Addrs : b # a => u.addresses[b] = al.addresses[b]
    BY <1>2 DEF AccessList, NoSlots
  <1>4. \A b \in Addrs : /\ HasSlots(u, b) <=> HasSlots(al, b)
                         /\ HasSlots(al, b) => /\ b # a /\ u.addresses[b] = al.addresses[b]
                                               /\ SlotsOf(u, b) = SlotsOf(al, b)
                                               /\ SlotsOf(al, b) \in SUBSET Slots
    BY <1>3, TableFacts DEF HasSlots, SlotsOf, Listed
  <1>5. \A i \in Nat, b \in Addrs : AddrAt(r, i, b) <=> AddrAt(q, i, b) \/ (i = Len(q) + 1 /\ b = a)
    BY AppendAt
  <1>6. \A i \in Nat, b \in Addrs, k \in Slots : SlotAt(r, i, b, k) <=> SlotAt(q, i, b, k)
    BY AppendAt
  <1>7. \A i \in Nat : ~AddrAt(q, i, a)
    BY DEF Listed, AddrsListed
  <1> HIDE DEF u, r
  <1>8. Table(u)
    <2>1. \A b \in Addrs : HasSlots(u, b) => u.addresses[b] \in 1..Len(u.slots)
      BY <1>3, <1>4 DEF Listed, Table
    <2>2. \A i \in 1..Len(u.slots) : u.slots[i] # {} /\ \E b \in Addrs : u.addresses[b] = i
      <3> TAKE i \in 1..Len(u.slots)
      <3>1. al.slots[i] # {} /\ \E b \in Addrs : al.addresses[b] = i
        BY <1>3 DEF Listed, Table
      <3> QED BY <1>1, <1>3, <3>1
    <2>3. \A b, c \in Addrs : HasSlots(u, b) /\ u.addresses[b] = u.addresses[c] => b = c
      <3> SUFFICES ASSUME NEW b \in Addrs, NEW c \in Addrs, HasSlots(u, b),
                          u.addresses[b] = u.addresses[c]
                   PROVE  b = c
        OBVIOUS
      <3>1. HasSlots(u, c)
        BY DEF HasSlots
      <3> QED BY <1>4, <3>1 DEF Listed, Table
    <2> QED BY <2>1, <2>2, <2>3 DEF Table
  <1>9. SlotsListed(u, r)
    BY <1>4, <1>6 DEF Listed, SlotsListed
  <1>10. AddrsListed(u, r)
    <2> SUFFICES ASSUME NEW i \in Nat, NEW b \in Addrs, AddrAt(r, i, b)
                 PROVE  /\ u.addresses[b] # Nil
                        /\ \A j \in Nat : AddrAt(r, j, b) => j = i
                        /\ HasSlots(u, b) => \A k \in SlotsOf(u, b) :
                              \E j \in Nat : j > i /\ SlotAt(r, j, b, k)
      BY DEF AddrsListed
    <2>1. CASE b = a
      BY <1>1, <1>3, <1>4, <1>5, <1>7, <2>1 DEF NoSlots
    <2>2. CASE b # a
      <3>1. AddrAt(q, i, b)
        BY <1>5, <2>2
      <3>2. /\ al.addresses[b] # Nil
            /\ \A j \in Nat : AddrAt(q, j, b) => j = i
            /\ HasSlots(al, b) => \A k \in SlotsOf(al, b) : \E j \in Nat : j > i /\ SlotAt(q, j, b, k)
        BY <3>1 DEF Listed, AddrsListed
      <3> QED BY <1>3, <1>4, <1>5, <1>6, <2>2, <3>2
    <2> QED BY <2>1, <2>2
  <1>11. Ordered(u, r)
    <2> SUFFICES ASSUME NEW b \in Addrs, NEW c \in Addrs, HasSlots(u, b), HasSlots(u, c),
                        u.addresses[b] < u.addresses[c]
                 PROVE  \E k \in SlotsOf(u, b) : \A i \in Nat : SlotAt(r, i, b, k) =>
                           \A l \in SlotsOf(u, c) : \E j \in Nat : j > i /\ SlotAt(r, j, c, l)
      BY DEF Ordered
    <2>1. /\ HasSlots(al, b) /\ HasSlots(al, c) /\ al.addresses[b] < al.addresses[c]
          /\ SlotsOf(u, b) = SlotsOf(al, b) /\ SlotsOf(u, c) = SlotsOf(al, c)
          /\ SlotsOf(al, b) \in SUBSET Slots /\ SlotsOf(al, c) \in SUBSET Slots
      BY <1>4
    <2>2. PICK k \in SlotsOf(al, b) : \A i \in Nat : SlotAt(q, i, b, k) =>
                           \A l \in SlotsOf(al, c) : \E j \in Nat : j > i /\ SlotAt(q, j, c, l)
      BY <2>1 DEF Listed, Ordered
    <2> QED BY <1>6, <2>1, <2>2
  <1> QED BY <1>3, <1>8, <1>9, <1>10, <1>11 DEF Listed, u, r

\* A slot is listed, for an address that is.
LEMMA ListedSlot ==
  ASSUME NEW al \in AccessList, NEW q \in Seq(Entry), Listed(al, q), NEW a \in Addrs, NEW k \in Slots,
         al.addresses[a] # Nil, ~ContainsSlot(al, a, k),
         NEW e \in Entry, e.change = "listSlot", e.account = a, e.key = k
  PROVE  Listed(listSlot(al, a, k), Append(q, e)) /\ listSlot(al, a, k) \in AccessList
  <1> DEFINE u == listSlot(al, a, k)
             r == Append(q, e)
             n == Len(q) + 1
  <1>1. n \in Nat /\ \A i \in Nat, b \in Addrs : (AddrAt(q, i, b) => i < n)
        /\ \A l \in Slots : SlotAt(q, i, b, l) => i < n
    BY DEF AddrAt, SlotAt
  <1>2. /\ u \in AccessList /\ Table(u) /\ HasSlots(u, a)
        /\ \A b \in Addrs : b # a => /\ u.addresses[b] = al.addresses[b]
                                     /\ HasSlots(al, b) => SlotsOf(u, b) = SlotsOf(al, b)
        /\ HasSlots(al, a) => /\ u.addresses[a] = al.addresses[a]
                              /\ SlotsOf(u, a) = SlotsOf(al, a) \cup {k}
        /\ ~HasSlots(al, a) => /\ SlotsOf(u, a) = {k} /\ u.addresses[a] = Len(al.slots) + 1
    <2>1. Table(al)
      BY DEF Listed
    <2> QED BY <2>1, ListSlotFacts
  <1>3. \A i \in Nat, b \in Addrs : AddrAt(r, i, b) <=> AddrAt(q, i, b)
    BY AppendAt
  <1>4. \A i \in Nat, b \in Addrs, l \in Slots :
           SlotAt(r, i, b, l) <=> SlotAt(q, i, b, l) \/ (i = n /\ b = a /\ l = k)
    BY AppendAt
  <1>5. \A i \in Nat : ~SlotAt(q, i, a, k)
    BY DEF Listed, SlotsListed, ContainsSlot, HasSlots, SlotsOf
  <1>6. \A b \in Addrs : b # a => (HasSlots(u, b) <=> HasSlots(al, b))
    BY <1>2 DEF HasSlots
  <1>7. /\ \A b \in Addrs : HasSlots(al, b) => SlotsOf(al, b) \in SUBSET Slots /\ SlotsOf(al, b) # {}
        /\ \A b \in Addrs : HasSlots(al, b) => al.addresses[b] \in 1..Len(al.slots)
        /\ Len(al.slots) \in Nat
    BY TableFacts, AccessFacts DEF Listed
  <1>8. HasSlots(al, a) => k \notin SlotsOf(al, a)
    BY DEF ContainsSlot, HasSlots, SlotsOf
  <1> HIDE DEF u, r, n
  <1>9. SlotsListed(u, r)
    <2> SUFFICES ASSUME NEW i \in Nat, NEW b \in Addrs, NEW l \in Slots, SlotAt(r, i, b, l)
                 PROVE  /\ HasSlots(u, b) /\ l \in SlotsOf(u, b)
                        /\ \A j \in Nat : SlotAt(r, j, b, l) => j = i
      BY DEF SlotsListed
    <2>1. CASE SlotAt(q, i, b, l)
      <3>1. /\ HasSlots(al, b) /\ l \in SlotsOf(al, b) /\ \A j \in Nat : SlotAt(q, j, b, l) => j = i
        BY <2>1 DEF Listed, SlotsListed
      <3> QED BY <1>2, <1>4, <1>5, <1>6, <2>1, <3>1
    <2>2. CASE ~SlotAt(q, i, b, l)
      BY <1>2, <1>4, <1>5, <2>2
    <2> QED BY <2>1, <2>2
  <1>10. AddrsListed(u, r)
    <2> SUFFICES ASSUME NEW i \in Nat, NEW b \in Addrs, AddrAt(q, i, b)
                 PROVE  /\ u.addresses[b] # Nil
                        /\ \A j \in Nat : AddrAt(r, j, b) => j = i
                        /\ HasSlots(u, b) => \A l \in SlotsOf(u, b) :
                              \E j \in Nat : j > i /\ SlotAt(r, j, b, l)
      BY <1>3 DEF AddrsListed
    <2>1. /\ al.addresses[b] # Nil /\ \A j \in Nat : AddrAt(q, j, b) => j = i
          /\ HasSlots(al, b) => \A l \in SlotsOf(al, b) : \E j \in Nat : j > i /\ SlotAt(q, j, b, l)
      BY DEF Listed, AddrsListed
    <2>2. CASE b # a
      BY <1>2, <1>3, <1>4, <1>6, <1>7, <2>1, <2>2
    <2>3. CASE b = a
      <3>1. SlotAt(r, n, a, k) /\ n > i
        BY <1>1, <1>4
      <3>2. u.addresses[a] # Nil
        BY <1>2 DEF HasSlots
      <3>3. ASSUME NEW l \in SlotsOf(u, a) PROVE \E j \in Nat : j > i /\ SlotAt(r, j, a, l)
        <4>1. CASE l = k
          BY <1>1, <3>1, <4>1
        <4>2. CASE l # k
          BY <1>2, <1>4, <1>7, <2>1, <2>3, <4>2
        <4> QED BY <4>1, <4>2
      <3> QED BY <1>3, <2>1, <2>3, <3>2, <3>3
    <2> QED BY <2>2, <2>3
  <1>11. Ordered(u, r)
    <2> SUFFICES ASSUME NEW b \in Addrs, NEW c \in Addrs, HasSlots(u, b), HasSlots(u, c),
                        u.addresses[b] < u.addresses[c]
                 PROVE  \E h \in SlotsOf(u, b) : \A i \in Nat : SlotAt(r, i, b, h) =>
                           \A l \in SlotsOf(u, c) : \E j \in Nat : j > i /\ SlotAt(r, j, c, l)
      BY DEF Ordered
    <2>0. u.addresses[b] \in Nat /\ u.addresses[c] \in Nat /\ b # c
      <3>1. u.addresses[b] \in Nat /\ u.addresses[c] \in Nat
        BY <1>2, TableFacts
      <3> QED BY <3>1
    <2>1. ASSUME HasSlots(al, b), HasSlots(al, c)
          PROVE  \E h \in SlotsOf(al, b) : \A i \in Nat : SlotAt(q, i, b, h) =>
                           \A l \in SlotsOf(al, c) : \E j \in Nat : j > i /\ SlotAt(q, j, c, l)
      <3>1. al.addresses[b] < al.addresses[c]
        BY <1>2, <2>1
      <3> QED BY <2>1, <3>1 DEF Listed, Ordered
    <2>2. CASE b # a /\ c # a
      <3>1. HasSlots(al, b) /\ HasSlots(al, c)
        BY <1>6, <2>2
      <3> QED BY <1>2, <1>4, <1>7, <2>1, <2>2, <3>1
    <2>3. CASE b = a
      <3>1. HasSlots(al, c) /\ HasSlots(al, b)
        BY <1>2, <1>6, <1>7, <2>0, <2>3
      <3>2. PICK h \in SlotsOf(al, b) : \A i \in Nat : SlotAt(q, i, b, h) =>
                           \A l \in SlotsOf(al, c) : \E j \in Nat : j > i /\ SlotAt(q, j, c, l)
        BY <2>1, <3>1
      <3>3. h # k /\ h \in SlotsOf(u, b) /\ SlotsOf(u, c) = SlotsOf(al, c) /\ h \in Slots
        BY <1>2, <1>7, <1>8, <2>0, <2>3, <3>1
      <3>4. \A i \in Nat : SlotAt(r, i, b, h) =>
                           \A l \in SlotsOf(u, c) : \E j \in Nat : j > i /\ SlotAt(r, j, c, l)
        BY <1>4, <1>7, <2>3, <3>1, <3>2, <3>3
      <3> QED BY <3>3, <3>4
    <2>4. CASE c = a /\ HasSlots(al, a)
      <3>1. HasSlots(al, b) /\ HasSlots(al, c)
        BY <1>6, <2>0, <2>4
      <3>2. PICK h \in SlotsOf(al, b) : \A i \in Nat : SlotAt(q, i, b, h) =>
                           \A l \in SlotsOf(al, c) : \E j \in Nat : j > i /\ SlotAt(q, j, c, l)
        BY <2>1, <3>1
      <3>3. h \in SlotsOf(u, b) /\ SlotsOf(u, c) = SlotsOf(al, c) \cup {k} /\ h \in Slots
        BY <1>2, <1>7, <2>0, <2>4, <3>1
      <3>4. ASSUME NEW i \in Nat, SlotAt(r, i, b, h), NEW l \in SlotsOf(u, c)
            PROVE  \E j \in Nat : j > i /\ SlotAt(r, j, c, l)
        <4>1. SlotAt(q, i, b, h) /\ i < n
          BY <1>1, <1>4, <2>0, <2>4, <3>3, <3>4
        <4>2. CASE l = k
          BY <1>1, <1>4, <2>4, <4>1, <4>2
        <4>3. CASE l # k
          BY <1>4, <1>7, <3>1, <3>2, <3>3, <4>1, <4>3
        <4> QED BY <4>2, <4>3
      <3> QED BY <3>3, <3>4
    <2>5. CASE c = a /\ ~HasSlots(al, a)
      <3>1. HasSlots(al, b) /\ SlotsOf(u, c) = {k} /\ SlotsOf(u, b) = SlotsOf(al, b)
        BY <1>2, <1>6, <2>0, <2>5
      <3>2. PICK h \in SlotsOf(u, b) : h \in Slots
        BY <1>7, <3>1
      <3>3. ASSUME NEW i \in Nat, SlotAt(r, i, b, h), NEW l \in SlotsOf(u, c)
            PROVE  \E j \in Nat : j > i /\ SlotAt(r, j, c, l)
        <4>1. SlotAt(q, i, b, h) /\ i < n
          BY <1>1, <1>4, <2>0, <2>5, <3>2, <3>3
        <4> QED BY <1>1, <1>4, <2>5, <3>1, <4>1
      <3> QED BY <3>2, <3>3
    <2> QED BY <2>2, <2>3, <2>4, <2>5
  <1> QED BY <1>2, <1>9, <1>10, <1>11 DEF Listed, u, r

\* What the last entry of the journal did to the list is undone.
LEMMA ListedUndo ==
  ASSUME NEW al \in AccessList, NEW q \in Seq(Entry), Len(q) > 0, Listed(al, q),
         NEW r, Len(r) = Len(q) - 1, \A i \in 1..(Len(q) - 1) : r[i] = q[i]
  PROVE  Listed(undoneAccess(al, Last(q)), r)
  <1> DEFINE e == Last(q)
             u == undoneAccess(al, e)
             n == Len(q)
  <1>1. n \in Nat /\ n \in 1..n /\ e \in Entry /\ e = q[n]
    <2>1. n \in Nat
      OBVIOUS
    <2> QED BY <2>1 DEF Last
  <1>2. /\ \A i \in Nat, a \in Addrs : (AddrAt(r, i, a) <=> AddrAt(q, i, a) /\ i # n)
        /\ \A i \in Nat, a \in Addrs, k \in Slots : (SlotAt(r, i, a, k) <=> SlotAt(q, i, a, k) /\ i # n)
    BY CutAt
  <1>3. /\ \A i \in Nat, a \in Addrs : AddrAt(q, i, a) => i <= n
        /\ \A i \in Nat, a \in Addrs, k \in Slots : SlotAt(q, i, a, k) => i <= n
    BY <1>1 DEF AddrAt, SlotAt
  <1>4. Table(al) /\ SlotsListed(al, q) /\ AddrsListed(al, q) /\ Ordered(al, q)
    BY DEF Listed
  <1>5. /\ \A b \in Addrs : HasSlots(al, b) => SlotsOf(al, b) \in SUBSET Slots /\ SlotsOf(al, b) # {}
        /\ \A b \in Addrs : HasSlots(al, b) => al.addresses[b] \in 1..Len(al.slots)
        /\ al.addresses \in [Addrs -> Nat \cup {Nil}] /\ Nil \notin Nat /\ Len(al.slots) \in Nat
    BY <1>4, TableFacts, AccessFacts, NilFacts
  <1> HIDE DEF e, n
  <1>6. CASE e.change \notin ListChanges
    <2>1. u = al
      BY <1>6 DEF undoneAccess, ListChanges
    <2>2. \A i \in Nat, a \in Addrs : AddrAt(r, i, a) <=> AddrAt(q, i, a)
      BY <1>1, <1>2, <1>6 DEF AddrAt, ListChanges
    <2>3. \A i \in Nat, a \in Addrs, k \in Slots : SlotAt(r, i, a, k) <=> SlotAt(q, i, a, k)
      BY <1>1, <1>2, <1>6 DEF SlotAt, ListChanges
    <2> QED BY <2>1, <2>2, <2>3, ListedSame DEF e
  <1>7. CASE e.change = "listAddress"
    <2> DEFINE a == e.account
    <2>1. a \in Addrs /\ AddrAt(q, n, a)
      BY <1>1, <1>7, EntryFacts DEF AddrAt, n
    <2> HIDE DEF a
    <2>2. al.addresses[a] # Nil /\ ~HasSlots(al, a) /\ \A i \in Nat : AddrAt(q, i, a) => i = n
      <3>1. /\ al.addresses[a] # Nil /\ \A i \in Nat : AddrAt(q, i, a) => i = n
            /\ HasSlots(al, a) => \A k \in SlotsOf(al, a) : \E j \in Nat : j > n /\ SlotAt(q, j, a, k)
        BY <1>1, <1>4, <2>1 DEF AddrsListed
      <3> QED BY <1>1, <1>3, <1>5, <2>1, <3>1
    <2>3. u = [al EXCEPT !.addresses[a] = Nil]
      BY <1>7 DEF undoneAccess, a
    <2>4. /\ u.slots = al.slots /\ u.addresses[a] = Nil
          /\ \A b \in Addrs : b # a => u.addresses[b] = al.addresses[b]
      BY <2>1, <2>3 DEF AccessList
    <2> HIDE DEF u
    <2>5. \A b \in Addrs : /\ HasSlots(u, b) <=> HasSlots(al, b)
                           /\ HasSlots(al, b) => /\ b # a /\ u.addresses[b] = al.addresses[b]
                                                 /\ SlotsOf(u, b) = SlotsOf(al, b)
      BY <2>2, <2>4 DEF HasSlots, SlotsOf
    <2>6. \A i \in Nat, b \in Addrs, k \in Slots : SlotAt(r, i, b, k) <=> SlotAt(q, i, b, k)
      BY <1>1, <1>2, <1>7 DEF SlotAt
    <2>7. Table(u)
      <3>1. \A b \in Addrs : HasSlots(u, b) => u.addresses[b] \in 1..Len(u.slots)
        BY <1>4, <2>4, <2>5 DEF Table
      <3>2. \A i \in 1..Len(u.slots) : u.slots[i] # {} /\ \E b \in Addrs : u.addresses[b] = i
        <4> TAKE i \in 1..Len(u.slots)
        <4>1. PICK b \in Addrs : al.addresses[b] = i
          BY <1>4, <2>4 DEF Table
        <4>2. HasSlots(al, b)
          BY <1>5, <2>4, <4>1 DEF HasSlots, NoSlots
        <4> QED BY <1>4, <2>4, <2>5, <4>1, <4>2 DEF Table
      <3>3. \A b, c \in Addrs : HasSlots(u, b) /\ u.addresses[b] = u.addresses[c] => b = c
        <4> SUFFICES ASSUME NEW b \in Addrs, NEW c \in Addrs, HasSlots(u, b),
                            u.addresses[b] = u.addresses[c]
                     PROVE  b = c
          OBVIOUS
        <4>1. HasSlots(u, c)
          BY DEF HasSlots
        <4> QED BY <1>4, <2>5, <4>1 DEF Table
      <3> QED BY <3>1, <3>2, <3>3 DEF Table
    <2>8. SlotsListed(u, r)
      BY <1>4, <2>5, <2>6 DEF SlotsListed
    <2>9. AddrsListed(u, r)
      <3> SUFFICES ASSUME NEW i \in Nat, NEW b \in Addrs, AddrAt(r, i, b)
                   PROVE  /\ u.addresses[b] # Nil
                          /\ \A j \in Nat : AddrAt(r, j, b) => j = i
                          /\ HasSlots(u, b) => \A k \in SlotsOf(u, b) :
                                \E j \in Nat : j > i /\ SlotAt(r, j, b, k)
        BY DEF AddrsListed
      <3>1. AddrAt(q, i, b) /\ b # a
        BY <1>2, <2>2
      <3>2. /\ al.addresses[b] # Nil /\ \A j \in Nat : AddrAt(q, j, b) => j = i
            /\ HasSlots(al, b) => \A k \in SlotsOf(al, b) : \E j \in Nat : j > i /\ SlotAt(q, j, b, k)
        BY <1>4, <3>1 DEF AddrsListed
      <3> QED BY <1>2, <1>5, <2>4, <2>5, <2>6, <3>1, <3>2
    <2>10. Ordered(u, r)
      <3> SUFFICES ASSUME NEW b \in Addrs, NEW c \in Addrs, HasSlots(u, b), HasSlots(u, c),
                          u.addresses[b] < u.addresses[c]
                   PROVE  \E k \in SlotsOf(u, b) : \A i \in Nat : SlotAt(r, i, b, k) =>
                             \A l \in SlotsOf(u, c) : \E j \in Nat : j > i /\ SlotAt(r, j, c, l)
        BY DEF Ordered
      <3>1. /\ HasSlots(al, b) /\ HasSlots(al, c) /\ al.addresses[b] < al.addresses[c]
            /\ SlotsOf(u, b) = SlotsOf(al, b) /\ SlotsOf(u, c) = SlotsOf(al, c)
        BY <2>5
      <3>2. PICK k \in SlotsOf(al, b) : \A i \in Nat : SlotAt(q, i, b, k) =>
                             \A l \in SlotsOf(al, c) : \E j \in Nat : j > i /\ SlotAt(q, j, c, l)
        BY <1>4, <3>1 DEF Ordered
      <3> QED BY <1>5, <2>6, <3>1, <3>2
    <2> QED BY <2>7, <2>8, <2>9, <2>10 DEF Listed, u, e
  <1>8. CASE e.change = "listSlot"
    <2> DEFINE a == e.account
               k == e.key
               left == SlotsOf(al, a) \ {k}
    <2>1. a \in Addrs /\ k \in Slots /\ SlotAt(q, n, a, k)
      BY <1>1, <1>8, EntryFacts DEF SlotAt, n
    <2>2. u = unlistSlot(al, a, k)
      BY <1>8 DEF undoneAccess
    <2> HIDE DEF a, k, u
    <2>3. HasSlots(al, a) /\ k \in SlotsOf(al, a) /\ \A i \in Nat : SlotAt(q, i, a, k) => i = n
      BY <1>1, <1>4, <2>1 DEF SlotsListed
    <2>4. ASSUME NEW c \in Addrs, HasSlots(al, c), al.addresses[a] < al.addresses[c],
                 NEW h \in SlotsOf(al, a),
                 \A i \in Nat : SlotAt(q, i, a, h) =>
                    \A l \in SlotsOf(al, c) : \E j \in Nat : j > i /\ SlotAt(q, j, c, l)
          PROVE  h # k
      <3> SUFFICES ASSUME h = k PROVE FALSE
        OBVIOUS
      <3>1. PICK l \in SlotsOf(al, c) : l \in Slots
        BY <1>5, <2>4
      <3>2. PICK j \in Nat : j > n /\ SlotAt(q, j, c, l)
        BY <1>1, <2>1, <2>4, <3>1
      <3> QED BY <1>1, <1>3, <3>1, <3>2
    <2>5. left = {} => al.addresses[a] = Len(al.slots)
      <3> SUFFICES ASSUME left = {}, al.addresses[a] # Len(al.slots) PROVE FALSE
        OBVIOUS
      <3>1. al.addresses[a] \in 1..Len(al.slots) /\ Len(al.slots) \in 1..Len(al.slots)
            /\ al.addresses[a] < Len(al.slots)
        BY <1>5, <2>1, <2>3
      <3>2. PICK c \in Addrs : al.addresses[c] = Len(al.slots)
        BY <1>4, <3>1 DEF Table
      <3>3. HasSlots(al, c)
        BY <1>5, <3>1, <3>2 DEF HasSlots, NoSlots
      <3>4. PICK h \in SlotsOf(al, a) : \A i \in Nat : SlotAt(q, i, a, h) =>
                    \A l \in SlotsOf(al, c) : \E j \in Nat : j > i /\ SlotAt(q, j, c, l)
        BY <1>4, <2>1, <2>3, <3>1, <3>2, <3>3 DEF Ordered
      <3>5. h # k
        BY <2>4, <3>1, <3>2, <3>3, <3>4
      <3> QED BY <3>4, <3>5
    <2>6. /\ u \in AccessList /\ Table(u)
          /\ \A b \in Addrs : b # a => /\ u.addresses[b] = al.addresses[b]
                                       /\ HasSlots(al, b) => SlotsOf(u, b) = SlotsOf(al, b)
          /\ left = {} => u.addresses[a] = NoSlots
          /\ left # {} => u.addresses[a] = al.addresses[a] /\ SlotsOf(u, a) = left
      BY <1>4, <2>1, <2>2, <2>3, <2>5, UnlistFacts
    <2>7. /\ \A b \in Addrs : b # a => (HasSlots(u, b) <=> HasSlots(al, b))
          /\ HasSlots(u, a) <=> left # {}
      BY <2>3, <2>6 DEF HasSlots
    <2>8. /\ \A i \in Nat, b \in Addrs : AddrAt(r, i, b) <=> AddrAt(q, i, b)
          /\ \A i \in Nat, b \in Addrs, l \in Slots :
                SlotAt(r, i, b, l) <=> SlotAt(q, i, b, l) /\ (b # a \/ l # k)
      <3>1. ASSUME NEW i \in Nat, NEW b \in Addrs PROVE ~AddrAt(q, n, b)
        BY <1>1, <1>8 DEF AddrAt
      <3>2. ASSUME NEW b \in Addrs, NEW l \in Slots, SlotAt(q, n, b, l) PROVE b = a /\ l = k
        BY <1>1, <3>2 DEF SlotAt, a, k
      <3> QED BY <1>2, <2>3, <3>1, <3>2
    <2> HIDE DEF left
    <2>9. left = SlotsOf(al, a) \ {k}
      BY DEF left
    <2>10. SlotsListed(u, r)
      <3> SUFFICES ASSUME NEW i \in Nat, NEW b \in Addrs, NEW l \in Slots, SlotAt(r, i, b, l)
                   PROVE  /\ HasSlots(u, b) /\ l \in SlotsOf(u, b)
                          /\ \A j \in Nat : SlotAt(r, j, b, l) => j = i
        BY DEF SlotsListed
      <3>1. /\ HasSlots(al, b) /\ l \in SlotsOf(al, b) /\ \A j \in Nat : SlotAt(q, j, b, l) => j = i
        BY <1>4, <2>8 DEF SlotsListed
      <3>2. CASE b # a
        BY <2>6, <2>7, <2>8, <3>1, <3>2
      <3>3. CASE b = a
        <4>1. l \in left /\ left # {}
          BY <2>8, <2>9, <3>1, <3>3
        <4> QED BY <2>6, <2>7, <2>8, <3>1, <3>3, <4>1
      <3> QED BY <3>2, <3>3
    <2>11. AddrsListed(u, r)
      <3> SUFFICES ASSUME NEW i \in Nat, NEW b \in Addrs, AddrAt(q, i, b)
                   PROVE  /\ u.addresses[b] # Nil
                          /\ \A j \in Nat : AddrAt(r, j, b) => j = i
                          /\ HasSlots(u, b) => \A l \in SlotsOf(u, b) :
                                \E j \in Nat : j > i /\ SlotAt(r, j, b, l)
        BY <2>8 DEF AddrsListed
      <3>1. /\ al.addresses[b] # Nil /\ \A j \in Nat : AddrAt(q, j, b) => j = i
            /\ HasSlots(al, b) => \A l \in SlotsOf(al, b) : \E j \in Nat : j > i /\ SlotAt(q, j, b, l)
        BY <1>4 DEF AddrsListed
      <3>2. CASE b # a
        BY <1>5, <2>6, <2>7, <2>8, <3>1, <3>2
      <3>3. CASE b = a
        <4>1. u.addresses[a] # Nil
          BY <1>5, <2>6, <3>1, <3>3 DEF NoSlots
        <4>2. ASSUME HasSlots(u, a), NEW l \in SlotsOf(u, a)
              PROVE  \E j \in Nat : j > i /\ SlotAt(r, j, a, l)
          <5>1. l \in SlotsOf(al, a) /\ l # k /\ l \in Slots
            BY <1>5, <2>1, <2>3, <2>6, <2>7, <2>9, <4>2
          <5> QED BY <2>1, <2>3, <2>8, <3>1, <3>3, <5>1
        <4> QED BY <2>8, <3>1, <3>3, <4>1, <4>2
      <3> QED BY <3>2, <3>3
    <2>12. Ordered(u, r)
      <3> SUFFICES ASSUME NEW b \in Addrs, NEW c \in Addrs, HasSlots(u, b), HasSlots(u, c),
                          u.addresses[b] < u.addresses[c]
                   PROVE  \E h \in SlotsOf(u, b) : \A i \in Nat : SlotAt(r, i, b, h) =>
                             \A l \in SlotsOf(u, c) : \E j \in Nat : j > i /\ SlotAt(r, j, c, l)
        BY DEF Ordered
      <3>1. /\ HasSlots(al, b) /\ HasSlots(al, c) /\ al.addresses[b] < al.addresses[c]
            /\ u.addresses[b] = al.addresses[b] /\ u.addresses[c] = al.addresses[c]
        BY <2>3, <2>6, <2>7
      <3>2. PICK h \in SlotsOf(al, b) : \A i \in Nat : SlotAt(q, i, b, h) =>
                    \A l \in SlotsOf(al, c) : \E j \in Nat : j > i /\ SlotAt(q, j, c, l)
        BY <1>4, <3>1 DEF Ordered
      <3>3. b = a => h # k
        BY <2>4, <3>1, <3>2
      <3>4. h \in Slots /\ h \in SlotsOf(u, b)
        BY <1>5, <2>6, <2>7, <2>9, <3>1, <3>2, <3>3
      <3>5. \A l \in SlotsOf(u, c) : l \in SlotsOf(al, c) /\ l \in Slots /\ (c = a => l # k)
        BY <1>5, <2>6, <2>7, <2>9, <3>1
      <3>6. \A i \in Nat : SlotAt(r, i, b, h) =>
                             \A l \in SlotsOf(u, c) : \E j \in Nat : j > i /\ SlotAt(r, j, c, l)
        BY <2>8, <3>2, <3>4, <3>5
      <3> QED BY <3>4, <3>6
    <2> QED BY <2>6, <2>10, <2>11, <2>12 DEF Listed, u, e
  <1> QED BY <1>6, <1>7, <1>8 DEF ListChanges, e

(***************************************************************************)
(* Objects and counts.  An account with an entry in the journal has an      *)
(* object, unless the undoing of its creation is all that is left; a count  *)
(* is the number of entries, and Ripemd's is at least that.                 *)
(***************************************************************************)
ChangesOf(a) == {e \in Entry : e.change \in AccountChanges /\ e.account = a}

LogEntries == {e \in Entry : e.change = "log"}

Positions(q, P) == {i \in 1..Len(q) : q[i] \in P}

Count(q, P) == Cardinality(Positions(q, P))

ChangeAt(q, i, a) == q[i].change \in AccountChanges /\ q[i].account = a

Present(s) ==
    /\ \A i \in 1..Len(s.entries), a \in Addrs : ChangeAt(s.entries, i, a) => s.objects[a] # Nil
    /\ \A i \in 1..Len(s.entries), a \in Addrs :
          ChangeAt(s.entries, i, a) /\ s.entries[i].change = "create" =>
             s.disk[a] = Nil /\ \A j \in 1..Len(s.entries) : j < i => ~ChangeAt(s.entries, j, a)
    /\ \A a \in Addrs : s.dirties[a] > 0 /\ s.disk[a] # Nil => s.objects[a] # Nil

Counted(s) ==
    /\ \A a \in Addrs : IF a = Ripemd THEN s.dirties[a] >= Count(s.entries, ChangesOf(a))
                        ELSE s.dirties[a] = Count(s.entries, ChangesOf(a))
    /\ s.logs >= Count(s.entries, LogEntries)

Good(s) == s \in DB /\ Present(s) /\ Counted(s) /\ Listed(s.access, s.entries)

\* Counts of entries are numbers.
LEMMA CountType ==
  ASSUME NEW q \in Seq(Entry), NEW P
  PROVE  IsFiniteSet(Positions(q, P)) /\ Count(q, P) \in Nat
  <1>1. Len(q) \in Nat
    OBVIOUS
  <1>2. IsFiniteSet(1..Len(q))
    BY <1>1, FS_Interval
  <1>3. Positions(q, P) \subseteq 1..Len(q)
    BY DEF Positions
  <1>4. IsFiniteSet(Positions(q, P))
    BY <1>2, <1>3, FS_Subset
  <1> QED BY <1>4, FS_CardinalityType DEF Count

\* A journal and the one without its last entry.
LEMMA CountLast ==
  ASSUME NEW q \in Seq(Entry), Len(q) > 0, NEW r \in Seq(Entry), Len(r) = Len(q) - 1,
         \A i \in 1..(Len(q) - 1) : r[i] = q[i], NEW P
  PROVE  Count(q, P) = Count(r, P) + IF Last(q) \in P THEN 1 ELSE 0
  <1> DEFINE n == Len(q)
  <1>1. n \in Nat /\ IsFiniteSet(Positions(r, P)) /\ Count(r, P) \in Nat
    BY CountType
  <1>2. CASE Last(q) \in P
    <2>1. Positions(q, P) = Positions(r, P) \cup {n}
      BY <1>1, <1>2 DEF Positions, Last
    <2>2. n \notin Positions(r, P)
      BY <1>1 DEF Positions
    <2>3. Cardinality(Positions(r, P) \cup {n}) = Cardinality(Positions(r, P)) + 1
      BY <1>1, <2>2, FS_AddElement
    <2> QED BY <1>2, <2>1, <2>3 DEF Count
  <1>3. CASE Last(q) \notin P
    <2>1. Positions(q, P) = Positions(r, P)
      BY <1>1, <1>3 DEF Positions, Last
    <2> QED BY <1>1, <1>3, <2>1 DEF Count
  <1> QED BY <1>2, <1>3

\* An entry that is added is counted once.
LEMMA CountAppend ==
  ASSUME NEW q \in Seq(Entry), NEW e \in Entry, NEW P
  PROVE  /\ Count(Append(q, e), P) = Count(q, P) + IF e \in P THEN 1 ELSE 0
         /\ Count(q, P) \in Nat
  <1> DEFINE r == Append(q, e)
  <1>1. /\ r \in Seq(Entry) /\ Len(r) = Len(q) + 1 /\ Len(q) \in Nat /\ Last(r) = e
        /\ \A i \in 1..Len(q) : r[i] = q[i]
    BY AppendFacts
  <1> HIDE DEF r
  <1>2. Len(r) > 0 /\ Len(q) = Len(r) - 1 /\ \A i \in 1..(Len(r) - 1) : q[i] = r[i]
    BY <1>1
  <1>3. Count(r, P) = Count(q, P) + IF Last(r) \in P THEN 1 ELSE 0
    BY <1>1, <1>2, CountLast
  <1> QED BY <1>1, <1>3, CountType DEF r

\* Undoing the last entry keeps the shape, the counts and the table.
LEMMA GoodUndo ==
  ASSUME NEW s, Good(s), Len(s.entries) > 0
  PROVE  /\ Undoable(s, Last(s.entries)) /\ Good(undoLast(s))
         /\ Len(undoLast(s).entries) = Len(s.entries) - 1
  <1> DEFINE e == Last(s.entries)
             a == e.account
             r == undoLast(s)
             n == Len(s.entries)
  <1>1. /\ s \in DB /\ s.entries \in Seq(Entry) /\ n \in Nat /\ e \in Entry /\ n \in 1..n
        /\ s.dirties \in [Addrs -> Int] /\ s.logs \in Int /\ s.access \in AccessList
        /\ s.objects \in [Addrs -> Object \cup {Nil}]
    <2>1. s \in DB
      BY DEF Good
    <2>2. /\ s.entries \in Seq(Entry) /\ n \in Nat
          /\ s.dirties \in [Addrs -> Int] /\ s.logs \in Int /\ s.access \in AccessList
          /\ s.objects \in [Addrs -> Object \cup {Nil}]
      BY <2>1, DBFacts
    <2> QED BY <2>1, <2>2 DEF Last
  <1>2. e.change \in AccountChanges => a \in Addrs /\ ChangeAt(s.entries, n, a)
    BY <1>1, EntryFacts DEF AccountChanges, ChangeAt, Last
  <1>3. Undoable(s, e)
    <2>1. e.change \in ObjectChanges => s.objects[a] # Nil
      BY <1>1, <1>2 DEF Good, Present, ObjectChanges, AccountChanges
    <2>2. ASSUME e.change = "listSlot" PROVE s.access.addresses[a] \in 1..Len(s.access.slots)
      <3>1. a \in Addrs /\ e.key \in Slots
        BY <1>1, <2>2, EntryFacts
      <3>2. SlotAt(s.entries, n, a, e.key)
        BY <1>1, <2>2 DEF SlotAt, Last
      <3>3. HasSlots(s.access, a)
        BY <1>1, <3>1, <3>2 DEF Good, Listed, SlotsListed
      <3> QED BY <3>1, <3>3 DEF Good, Listed, Table
    <2> QED BY <2>1, <2>2 DEF Undoable
  <1>4. /\ r \in DB /\ r.disk = s.disk
        /\ r.objects = undoneObjects(s.objects, e) /\ r.logs = undoneLogs(s.logs, e)
        /\ r.access = undoneAccess(s.access, e)
        /\ r.dirties = undoneDirties(s.dirties, e)
        /\ Len(r.entries) = n - 1 /\ \A i \in 1..(n - 1) : r.entries[i] = s.entries[i]
    BY <1>1, <1>3, UndoLastFacts, Zenon
  <1>5. r.entries \in Seq(Entry) /\ Len(r.entries) \in Nat /\ r.objects \in [Addrs -> Object \cup {Nil}]
    BY <1>4, DBFacts
  <1> HIDE DEF r, n, e, a
  <1>6. Listed(r.access, r.entries)
    BY <1>1, <1>4, ListedUndo DEF Good, n, e
  <1>7. \A b \in Addrs : r.dirties[b] = s.dirties[b] - IF e \in ChangesOf(b) THEN 1 ELSE 0
    <2>1. CASE e.change \in AccountChanges
      BY <1>1, <1>2, <1>4, <2>1 DEF undoneDirties, ChangesOf, a
    <2>2. CASE e.change \notin AccountChanges
      BY <1>1, <1>4, <2>2 DEF undoneDirties, ChangesOf
    <2> QED BY <2>1, <2>2
  <1>8. Counted(r)
    <2>1. \A P : Count(s.entries, P) = Count(r.entries, P) + IF e \in P THEN 1 ELSE 0
      <3> SUFFICES ASSUME NEW P
                   PROVE  Count(s.entries, P) = Count(r.entries, P) + IF e \in P THEN 1 ELSE 0
        OBVIOUS
      <3>1. Len(r.entries) = Len(s.entries) - 1
            /\ \A i \in 1..(Len(s.entries) - 1) : r.entries[i] = s.entries[i]
        BY <1>4 DEF n
      <3>2. s.entries \in Seq(Entry) /\ r.entries \in Seq(Entry) /\ e = Last(s.entries)
        BY <1>1, <1>5 DEF e
      <3>3. Count(s.entries, P) = Count(r.entries, P) + IF Last(s.entries) \in P THEN 1 ELSE 0
        BY <3>1, <3>2, CountLast
      <3> QED BY <3>2, <3>3
    <2>2. \A P : Count(s.entries, P) \in Nat /\ Count(r.entries, P) \in Nat
      BY <1>1, <1>5, CountType
    <2>3. r.logs >= Count(r.entries, LogEntries)
      <3>1. s.logs >= Count(s.entries, LogEntries)
        BY DEF Good, Counted
      <3> QED BY <1>1, <1>4, <2>1, <2>2, <3>1 DEF undoneLogs, LogEntries
    <2>4. ASSUME NEW b \in Addrs
          PROVE  IF b = Ripemd THEN r.dirties[b] >= Count(r.entries, ChangesOf(b))
                 ELSE r.dirties[b] = Count(r.entries, ChangesOf(b))
      <3>1. IF b = Ripemd THEN s.dirties[b] >= Count(s.entries, ChangesOf(b))
            ELSE s.dirties[b] = Count(s.entries, ChangesOf(b))
        BY DEF Good, Counted
      <3>2. s.dirties[b] \in Int
        BY <1>1
      <3> QED BY <1>7, <2>1, <2>2, <3>1, <3>2
    <2> QED BY <2>3, <2>4 DEF Counted
  <1>9. \A b \in Addrs : r.objects[b] # Nil <=> s.objects[b] # Nil /\ ~(e.change = "create" /\ b = a)
    <2>0. Nil \notin Object /\ \A o \in Object : o # Nil
      BY NilFacts
    <2>1. CASE e.change = "create"
      BY <1>1, <1>2, <1>4, <2>1 DEF undoneObjects, AccountChanges, a
    <2>2. CASE e.change = "reset"
      <3>1. e.prev \in Object /\ a \in Addrs /\ s.objects[a] # Nil
        BY <1>1, <1>2, <2>2, EntryFacts DEF Good, Present, AccountChanges, n
      <3> QED BY <1>1, <1>4, <2>0, <2>2, <3>1 DEF undoneObjects, a
    <2>3. CASE e.change \in ObjectChanges
      <3>1. a \in Addrs /\ s.objects[a] \in Object /\ s.objects[a] # Nil
        BY <1>1, <1>2, <1>3, <2>3 DEF Undoable, AccountChanges, ObjectChanges, a
      <3>2. undoneObject(s.objects[a], e) \in Object
        BY <1>1, <2>3, <3>1, UndoneObjectType
      <3>3. r.objects = [s.objects EXCEPT ![a] = undoneObject(s.objects[a], e)]
        BY <1>4, <2>3 DEF undoneObjects, ObjectChanges, a
      <3>4. e.change # "create"
        BY <2>3 DEF ObjectChanges
      <3> QED BY <1>1, <2>0, <3>1, <3>2, <3>3, <3>4
    <2>4. CASE e.change \notin ObjectChanges \cup {"create", "reset"}
      BY <1>4, <2>4 DEF undoneObjects
    <2> QED BY <2>1, <2>2, <2>3, <2>4
  <1>10. Present(r)
    <2>1. \A i \in 1..Len(r.entries), b \in Addrs :
             i \in 1..n /\ i < n /\ (ChangeAt(r.entries, i, b) <=> ChangeAt(s.entries, i, b))
      BY <1>1, <1>4 DEF ChangeAt
    <2>2. ASSUME NEW i \in 1..Len(r.entries), NEW b \in Addrs, ChangeAt(r.entries, i, b)
          PROVE  r.objects[b] # Nil
      <3>1. ChangeAt(s.entries, i, b) /\ i \in 1..n /\ i < n
        BY <2>1, <2>2
      <3>2. s.objects[b] # Nil
        BY <3>1 DEF Good, Present, n
      <3>3. ASSUME e.change = "create" PROVE b # a
        <4>1. ChangeAt(s.entries, n, a) /\ s.entries[n].change = "create" /\ a \in Addrs
          BY <1>2, <3>3 DEF AccountChanges, e, n, Last
        <4> QED BY <1>1, <3>1, <4>1 DEF Good, Present, n
      <3> QED BY <1>9, <3>2, <3>3
    <2>3. ASSUME NEW i \in 1..Len(r.entries), NEW b \in Addrs, ChangeAt(r.entries, i, b),
                 r.entries[i].change = "create"
          PROVE  /\ r.disk[b] = Nil
                 /\ \A j \in 1..Len(r.entries) : j < i => ~ChangeAt(r.entries, j, b)
      <3>1. ChangeAt(s.entries, i, b) /\ i \in 1..n /\ s.entries[i].change = "create"
        BY <1>1, <1>4, <2>1, <2>3
      <3>2. s.disk[b] = Nil /\ \A j \in 1..n : j < i => ~ChangeAt(s.entries, j, b)
        BY <3>1 DEF Good, Present, n
      <3> QED BY <1>4, <2>1, <3>2
    <2>4. ASSUME NEW b \in Addrs, r.dirties[b] > 0, r.disk[b] # Nil
          PROVE  r.objects[b] # Nil
      <3>1. s.dirties[b] > 0
        <4>1. s.dirties[b] \in Int
          BY <1>1
        <4> QED BY <1>7, <2>4, <4>1
      <3>2. s.objects[b] # Nil
        BY <1>4, <2>4, <3>1 DEF Good, Present
      <3>3. e.change = "create" => b # a
        <4>1. ASSUME e.change = "create" PROVE s.disk[a] = Nil
          <5>1. ChangeAt(s.entries, n, a) /\ s.entries[n].change = "create" /\ a \in Addrs
            BY <1>2, <4>1 DEF AccountChanges, e, n, Last
          <5> QED BY <1>1, <5>1 DEF Good, Present, n
        <4> QED BY <1>4, <2>4, <4>1
      <3> QED BY <1>9, <3>2, <3>3
    <2> QED BY <2>2, <2>3, <2>4 DEF Present
  <1> QED BY <1>3, <1>4, <1>6, <1>8, <1>10 DEF Good, r, e, n

(***************************************************************************)
(* The operations, by the entry that they write.                            *)
(***************************************************************************)
LEMMA NewObjectFacts ==
  ASSUME NEW d \in Account \cup {Nil}
  PROVE  /\ newObject(d) \in Object /\ newObject(d) # Nil
         /\ newObject(d).dirty = NoCache /\ newObject(d).pending = NoCache /\ newObject(d).origin = NoCache
         /\ ~newObject(d).selfDestructed /\ ~newObject(d).deleted /\ (newObject(d).created <=> d = Nil)
         /\ d = Nil => /\ newObject(d).balance = 0 /\ newObject(d).nonce = 0 /\ newObject(d).code = 0
         /\ d # Nil => /\ newObject(d).balance = d.balance /\ newObject(d).nonce = d.nonce
                       /\ newObject(d).code = d.code
  <1> DEFINE b == IF d = Nil THEN 0 ELSE d.balance
             n == IF d = Nil THEN 0 ELSE d.nonce
             c == IF d = Nil THEN 0 ELSE d.code
             o(x, y, z) == [balance |-> b, nonce |-> n, code |-> c, dirty |-> NoCache, pending |-> NoCache,
                            origin |-> NoCache, selfDestructed |-> x, deleted |-> y, created |-> z]
  <1>1. b \in Nat /\ n \in Nat /\ c \in {0, 1}
    BY DEF Account
  <1>2. NoCache \in [Slots -> Values \cup {Nil}]
    BY DEF NoCache
  <1> HIDE DEF b, n, c
  <1>3. \A x, y, z \in BOOLEAN :
           /\ o(x, y, z) \in Object
           /\ o(x, y, z).dirty = NoCache /\ o(x, y, z).pending = NoCache /\ o(x, y, z).origin = NoCache
           /\ o(x, y, z).selfDestructed = x /\ o(x, y, z).deleted = y /\ o(x, y, z).created = z
           /\ o(x, y, z).balance = b /\ o(x, y, z).nonce = n /\ o(x, y, z).code = c
    BY <1>1, <1>2 DEF Object
  <1>4. newObject(d) = o(FALSE, FALSE, d = Nil)
    BY Zenon DEF newObject, b, n, c
  <1>5. FALSE \in BOOLEAN /\ (d = Nil) \in BOOLEAN
    OBVIOUS
  <1> HIDE DEF o
  <1>6. /\ newObject(d) \in Object
        /\ newObject(d).dirty = NoCache /\ newObject(d).pending = NoCache /\ newObject(d).origin = NoCache
        /\ newObject(d).selfDestructed = FALSE /\ newObject(d).deleted = FALSE
        /\ newObject(d).created = (d = Nil)
        /\ newObject(d).balance = b /\ newObject(d).nonce = n /\ newObject(d).code = c
    BY <1>3, <1>4, <1>5, Zenon
  <1>7. newObject(d) # Nil
    BY <1>6, NilFacts
  <1>8. ~newObject(d).selfDestructed /\ ~newObject(d).deleted /\ (newObject(d).created <=> d = Nil)
    BY <1>6, Zenon
  <1> QED BY <1>6, <1>7, <1>8 DEF b, n, c

\* How often an entry is counted for its account.
bump(e) == IF e.change = "touch" /\ e.account = Ripemd THEN 2 ELSE 1

\* t is s with the object of e's account replaced by o, and e in the journal.
Wrote(s, t, e, o) ==
    /\ t \in DB /\ t.disk = s.disk /\ t.objects = [s.objects EXCEPT ![e.account] = o]
    /\ t.destruct = IF e.change = "reset" THEN s.destruct \cup {e.account} ELSE s.destruct
    /\ t.refund = s.refund /\ t.logs = s.logs /\ t.transient = s.transient /\ t.access = s.access
    /\ t.entries = Append(s.entries, e)
    /\ t.dirties = [s.dirties EXCEPT ![e.account] = s.dirties[e.account] + bump(e)]

\* journal.append, field by field.
LEMMA JournalFacts ==
  ASSUME NEW s \in DB, NEW e \in Entry
  PROVE  LET t == journal(s, e)
         IN  /\ t \in DB /\ t.disk = s.disk /\ t.objects = s.objects /\ t.destruct = s.destruct
             /\ t.refund = s.refund /\ t.logs = s.logs /\ t.transient = s.transient
             /\ t.access = s.access /\ t.entries = Append(s.entries, e)
             /\ t.dirties = IF e.change \in AccountChanges
                            THEN [s.dirties EXCEPT ![e.account] = s.dirties[e.account] + 1]
                            ELSE s.dirties
  <1> DEFINE q == Append(s.entries, e)
             u == [s EXCEPT !.entries = q]
             m == [s.dirties EXCEPT ![e.account] = s.dirties[e.account] + 1]
             t == journal(s, e)
  <1>1. s.entries \in Seq(Entry) /\ s.dirties \in [Addrs -> Int]
    BY DBFacts
  <1>2. q \in Seq(Entry)
    BY <1>1, AppendFacts
  <1>3. t = IF e.change \in AccountChanges
            THEN [u EXCEPT !.dirties[e.account] = u.dirties[e.account] + 1] ELSE u
    BY Zenon DEF journal
  <1> HIDE DEF q, t
  <1>4. /\ u \in DB /\ u.disk = s.disk /\ u.objects = s.objects /\ u.destruct = s.destruct
        /\ u.refund = s.refund /\ u.logs = s.logs /\ u.transient = s.transient
        /\ u.access = s.access /\ u.entries = q /\ u.dirties = s.dirties
    BY <1>2 DEF DB
  <1> HIDE DEF u
  <1>5. CASE e.change \in AccountChanges
    <2>1. e.account \in Addrs
      BY <1>5, EntryFacts DEF AccountChanges
    <2>2. m \in [Addrs -> Int]
      BY <1>1, <2>1
    <2>3. t = [u EXCEPT !.dirties = m]
      BY <1>3, <1>4, <1>5, Zenon
    <2> HIDE DEF m
    <2>4. /\ t \in DB /\ t.disk = u.disk /\ t.objects = u.objects /\ t.destruct = u.destruct
          /\ t.refund = u.refund /\ t.logs = u.logs /\ t.transient = u.transient
          /\ t.access = u.access /\ t.entries = u.entries /\ t.dirties = m
      BY <1>4, <2>2, <2>3 DEF DB
    <2> QED BY <1>4, <1>5, <2>4 DEF m, q, t
  <1>6. CASE e.change \notin AccountChanges
    BY <1>3, <1>4, <1>6 DEF q, t
  <1> QED BY <1>5, <1>6

\* An operation that journals a change of an object and writes the object.
LEMMA WriteFacts ==
  ASSUME NEW s \in DB, NEW e \in Entry, e.change \in AccountChanges \ {"touch", "reset"}, NEW o \in Object
  PROVE  Wrote(s, [journal(s, e) EXCEPT !.objects[e.account] = o], e, o)
  <1> DEFINE u == journal(s, e)
             a == e.account
             t == [u EXCEPT !.objects[a] = o]
  <1>1. a \in Addrs /\ e.change \in AccountChanges /\ bump(e) = 1 /\ e.change # "reset"
    BY EntryFacts DEF AccountChanges, bump
  <1>2. /\ u \in DB /\ u.disk = s.disk /\ u.objects = s.objects /\ u.destruct = s.destruct
        /\ u.refund = s.refund /\ u.logs = s.logs /\ u.transient = s.transient
        /\ u.access = s.access /\ u.entries = Append(s.entries, e)
        /\ u.dirties = IF e.change \in AccountChanges
                       THEN [s.dirties EXCEPT ![a] = s.dirties[a] + 1] ELSE s.dirties
    BY JournalFacts, Zenon
  <1> HIDE DEF u
  <1>3. /\ t \in DB /\ t.objects = [u.objects EXCEPT ![a] = o]
        /\ t.disk = u.disk /\ t.destruct = u.destruct /\ t.refund = u.refund /\ t.logs = u.logs
        /\ t.transient = u.transient /\ t.access = u.access /\ t.entries = u.entries
        /\ t.dirties = u.dirties
    BY <1>1, <1>2, PutObject
  <1> HIDE DEF t
  <1>4. Wrote(s, t, e, o)
    BY <1>1, <1>2, <1>3 DEF Wrote
  <1> QED BY <1>4 DEF t, u

\* The same when the account is replaced and marked.
LEMMA ResetFacts ==
  ASSUME NEW s \in DB, NEW e \in Entry, e.change = "reset", NEW o \in Object
  PROVE  Wrote(s, [[journal(s, e) EXCEPT !.destruct = @ \cup {e.account}] EXCEPT !.objects[e.account] = o], e, o)
  <1> DEFINE u == journal(s, e)
             a == e.account
             v == [u EXCEPT !.destruct = u.destruct \cup {a}]
             t == [v EXCEPT !.objects[a] = o]
  <1>1. a \in Addrs /\ e.change \in AccountChanges /\ bump(e) = 1
    BY EntryFacts DEF AccountChanges, bump
  <1>2. /\ u \in DB /\ u.disk = s.disk /\ u.objects = s.objects /\ u.destruct = s.destruct
        /\ u.refund = s.refund /\ u.logs = s.logs /\ u.transient = s.transient
        /\ u.access = s.access /\ u.entries = Append(s.entries, e)
        /\ u.dirties = IF e.change \in AccountChanges
                       THEN [s.dirties EXCEPT ![a] = s.dirties[a] + 1] ELSE s.dirties
    BY JournalFacts, Zenon
  <1> HIDE DEF u
  <1>3. u.destruct \cup {a} \in SUBSET Addrs
    BY <1>1, <1>2, DBFacts
  <1>4. /\ v \in DB /\ v.disk = u.disk /\ v.objects = u.objects /\ v.destruct = u.destruct \cup {a}
        /\ v.refund = u.refund /\ v.logs = u.logs /\ v.transient = u.transient
        /\ v.access = u.access /\ v.entries = u.entries /\ v.dirties = u.dirties
    BY <1>2, <1>3 DEF DB
  <1> HIDE DEF v
  <1>5. /\ t \in DB /\ t.objects = [v.objects EXCEPT ![a] = o]
        /\ t.disk = v.disk /\ t.destruct = v.destruct /\ t.refund = v.refund /\ t.logs = v.logs
        /\ t.transient = v.transient /\ t.access = v.access /\ t.entries = v.entries
        /\ t.dirties = v.dirties
    BY <1>1, <1>4, PutObject
  <1> HIDE DEF t
  <1>6. Wrote(s, t, e, o)
    BY <1>1, <1>2, <1>4, <1>5 DEF Wrote
  <1> QED BY <1>6, Zenon DEF t, v, u

\* The same for touch, which counts Ripemd once more.
LEMMA TouchFacts ==
  ASSUME NEW s \in DB, NEW a \in Addrs, s.objects[a] # Nil
  PROVE  LET e == [change |-> "touch", account |-> a]
         IN  e \in Entry /\ Wrote(s, touch(s, a), e, s.objects[a])
  <1> DEFINE e == [change |-> "touch", account |-> a]
             u == journal(s, e)
             t == touch(s, a)
  <1>1. e \in Entry /\ e.change = "touch" /\ e.account = a /\ e.change \in AccountChanges
    BY DEF Entry, AccountChanges
  <1> HIDE DEF e
  <1>2. /\ u \in DB /\ u.disk = s.disk /\ u.objects = s.objects /\ u.destruct = s.destruct
        /\ u.refund = s.refund /\ u.logs = s.logs /\ u.transient = s.transient
        /\ u.access = s.access /\ u.entries = Append(s.entries, e)
        /\ u.dirties = IF e.change \in AccountChanges
                       THEN [s.dirties EXCEPT ![e.account] = s.dirties[e.account] + 1] ELSE s.dirties
    BY <1>1, JournalFacts, Zenon
  <1>3. s.dirties \in [Addrs -> Int] /\ s.objects \in [Addrs -> Object \cup {Nil}]
    BY DBFacts
  <1>4. s.objects = [s.objects EXCEPT ![a] = s.objects[a]]
    BY <1>3
  <1>5. t = IF a = Ripemd THEN [u EXCEPT !.dirties[a] = u.dirties[a] + 1] ELSE u
    BY Zenon DEF touch, e
  <1> HIDE DEF u, t
  <1>6. CASE a = Ripemd
    <2> DEFINE m == [s.dirties EXCEPT ![a] = s.dirties[a] + 2]
    <2>1. m \in [Addrs -> Int] /\ m = [u.dirties EXCEPT ![a] = u.dirties[a] + 1]
      BY <1>1, <1>2, <1>3
    <2>2. t = [u EXCEPT !.dirties = m]
      BY <1>5, <1>6, <2>1, Zenon
    <2>3. bump(e) = 2
      BY <1>1, <1>6 DEF bump
    <2> HIDE DEF m
    <2>4. /\ t \in DB /\ t.disk = u.disk /\ t.objects = u.objects /\ t.destruct = u.destruct
          /\ t.refund = u.refund /\ t.logs = u.logs /\ t.transient = u.transient
          /\ t.access = u.access /\ t.entries = u.entries /\ t.dirties = m
      BY <1>2, <2>1, <2>2 DEF DB
    <2>5. Wrote(s, t, e, s.objects[a])
      BY <1>1, <1>2, <1>4, <2>3, <2>4 DEF Wrote, m
    <2> QED BY <1>1, <2>5 DEF e, t
  <1>7. CASE a # Ripemd
    <2>1. bump(e) = 1 /\ t = u
      BY <1>1, <1>5, <1>7 DEF bump
    <2>2. Wrote(s, t, e, s.objects[a])
      BY <1>1, <1>2, <1>4, <2>1 DEF Wrote
    <2> QED BY <1>1, <2>2 DEF e, t
  <1> QED BY <1>6, <1>7

\* A step that writes one account keeps the shape, the counts and the table.
LEMMA GoodEntry ==
  ASSUME NEW s, Good(s), NEW t \in DB, NEW e \in Entry, t.disk = s.disk,
         t.entries = Append(s.entries, e), Listed(t.access, t.entries),
         \A b \in Addrs : s.objects[b] # Nil => t.objects[b] # Nil,
         e.change \in AccountChanges => t.objects[e.account] # Nil,
         e.change = "create" => s.objects[e.account] = Nil /\ s.disk[e.account] = Nil,
         \A b \in Addrs : t.dirties[b] = s.dirties[b] + IF e \in ChangesOf(b) THEN bump(e) ELSE 0,
         t.logs = s.logs + IF e \in LogEntries THEN 1 ELSE 0
  PROVE  Good(t)
  <1> DEFINE q == s.entries
             r == t.entries
             n == Len(q) + 1
  <1>1. /\ s \in DB /\ q \in Seq(Entry) /\ Len(q) \in Nat /\ s.dirties \in [Addrs -> Int] /\ s.logs \in Int
    BY DBFacts DEF Good
  <1>2. /\ r \in Seq(Entry) /\ Len(r) = n /\ r[n] = e /\ \A i \in 1..Len(q) : r[i] = q[i]
    BY <1>1, AppendFacts
  <1>3. bump(e) \in {1, 2} /\ (bump(e) = 2 => e.account = Ripemd)
    BY DEF bump
  <1>4. Counted(t)
    <2>1. \A P : /\ Count(r, P) = Count(q, P) + IF e \in P THEN 1 ELSE 0
                 /\ Count(q, P) \in Nat
      <3> SUFFICES ASSUME NEW P
                   PROVE  /\ Count(r, P) = Count(q, P) + IF e \in P THEN 1 ELSE 0
                          /\ Count(q, P) \in Nat
        OBVIOUS
      <3> QED BY <1>1, CountAppend
    <2>2. t.logs >= Count(r, LogEntries)
      <3>1. s.logs >= Count(q, LogEntries)
        BY DEF Good, Counted
      <3>2. Count(r, LogEntries) = Count(q, LogEntries) + IF e \in LogEntries THEN 1 ELSE 0
        BY <2>1
      <3>3. Count(q, LogEntries) \in Nat
        BY <2>1
      <3> QED BY <1>1, <3>1, <3>2, <3>3
    <2>3. ASSUME NEW b \in Addrs
          PROVE  IF b = Ripemd THEN t.dirties[b] >= Count(r, ChangesOf(b))
                 ELSE t.dirties[b] = Count(r, ChangesOf(b))
      <3>1. IF b = Ripemd THEN s.dirties[b] >= Count(q, ChangesOf(b))
            ELSE s.dirties[b] = Count(q, ChangesOf(b))
        BY DEF Good, Counted
      <3>2. Count(r, ChangesOf(b)) = Count(q, ChangesOf(b)) + IF e \in ChangesOf(b) THEN 1 ELSE 0
        BY <2>1
      <3>3. Count(q, ChangesOf(b)) \in Nat /\ s.dirties[b] \in Int
        BY <1>1, <2>1
      <3>4. e \in ChangesOf(b) => e.account = b
        BY DEF ChangesOf
      <3> HIDE DEF q, r
      <3> QED BY <1>3, <3>1, <3>2, <3>3, <3>4 DEF q
    <2> QED BY <2>2, <2>3 DEF Counted
  <1>5. Present(t)
    <2>1. \A i \in 1..Len(r), b \in Addrs :
             \/ i \in 1..Len(q) /\ r[i] = q[i] /\ (ChangeAt(r, i, b) <=> ChangeAt(q, i, b))
             \/ i = n /\ r[i] = e /\ (ChangeAt(r, i, b) <=> e.change \in AccountChanges /\ e.account = b)
      BY <1>1, <1>2 DEF ChangeAt
    <2>2. ASSUME NEW i \in 1..Len(r), NEW b \in Addrs, ChangeAt(r, i, b)
          PROVE  t.objects[b] # Nil
      <3>1. CASE i \in 1..Len(q)
        <4>1. ChangeAt(q, i, b)
          BY <1>1, <2>1, <2>2, <3>1
        <4>2. s.objects[b] # Nil
          BY <3>1, <4>1 DEF Good, Present
        <4> QED BY <4>2
      <3>2. CASE i \notin 1..Len(q)
        BY <2>1, <2>2, <3>2
      <3> QED BY <3>1, <3>2
    <2>3. ASSUME NEW i \in 1..Len(r), NEW b \in Addrs, ChangeAt(r, i, b), r[i].change = "create"
          PROVE  t.disk[b] = Nil /\ \A j \in 1..Len(r) : j < i => ~ChangeAt(r, j, b)
      <3>1. CASE i \in 1..Len(q)
        <4>1. ChangeAt(q, i, b) /\ q[i].change = "create"
          BY <1>1, <2>1, <2>3, <3>1
        <4>2. s.disk[b] = Nil /\ \A j \in 1..Len(q) : j < i => ~ChangeAt(q, j, b)
          BY <3>1, <4>1 DEF Good, Present
        <4>3. ASSUME NEW j \in 1..Len(r), j < i PROVE j \in 1..Len(q) /\ j # n
          BY <1>1, <1>2, <3>1, <4>3
        <4> QED BY <2>1, <4>2, <4>3
      <3>2. CASE i \notin 1..Len(q)
        <4>1. i = n /\ e.account = b /\ e.change = "create"
          BY <2>1, <2>3, <3>2
        <4>2. s.objects[b] = Nil /\ s.disk[b] = Nil
          BY <4>1
        <4>3. ASSUME NEW j \in 1..Len(r), j < i PROVE ~ChangeAt(r, j, b)
          <5>1. j \in 1..Len(q) /\ j # n
            BY <1>1, <1>2, <4>1, <4>3
          <5>2. ~ChangeAt(q, j, b)
            BY <4>2, <5>1 DEF Good, Present
          <5> QED BY <2>1, <5>1, <5>2
        <4> QED BY <4>2, <4>3
      <3> QED BY <3>1, <3>2
    <2>4. ASSUME NEW b \in Addrs, t.dirties[b] > 0, t.disk[b] # Nil
          PROVE  t.objects[b] # Nil
      <3>1. CASE e \in ChangesOf(b)
        BY <3>1 DEF ChangesOf
      <3>2. CASE e \notin ChangesOf(b)
        <4>1. s.dirties[b] \in Int /\ t.dirties[b] = s.dirties[b] + 0
          BY <1>1, <3>2
        <4>2. s.dirties[b] > 0
          BY <2>4, <4>1
        <4>3. s.objects[b] # Nil
          BY <2>4, <4>2 DEF Good, Present
        <4> QED BY <4>3
      <3> QED BY <3>1, <3>2
    <2> QED BY <2>2, <2>3, <2>4 DEF Present
  <1> QED BY <1>4, <1>5 DEF Good

(***************************************************************************)
(* What is read of an object, given the disk and the marks.                 *)
(***************************************************************************)
loadedObject(o, d) == IF o = Nil /\ d # Nil THEN newObject(d) ELSE o

loaded(s, a) == loadedObject(s.objects[a], s.disk[a])

committedOf(o, disk, D, a, k) ==
    IF o.pending[k] # Nil THEN o.pending[k]
    ELSE IF o.origin[k] # Nil THEN o.origin[k]
    ELSE IF a \in D \/ disk[a] = Nil THEN Zero ELSE disk[a].storage[k]

stateOf(o, disk, D, a, k) ==
    IF o.dirty[k] # Nil THEN o.dirty[k] ELSE committedOf(o, disk, D, a, k)

SameObject(o, p, disk, D, a) ==
    /\ o = Nil <=> p = Nil
    /\ o # Nil => /\ o.balance = p.balance /\ o.nonce = p.nonce /\ o.code = p.code
                  /\ o.selfDestructed = p.selfDestructed /\ o.deleted = p.deleted
                  /\ o.created = p.created
                  /\ \A k \in Slots : /\ committedOf(o, disk, D, a, k) = committedOf(p, disk, D, a, k)
                                      /\ stateOf(o, disk, D, a, k) = stateOf(p, disk, D, a, k)

\* e and o are what an operation writes that changes the account of e in s.
Remembers(s, e, o) ==
    /\ e \in Entry /\ e.change \in AccountChanges /\ o \in Object
    /\ e.change = "create" <=> s.objects[e.account] = Nil
    /\ e.change = "create" => s.disk[e.account] = Nil
    /\ e.change = "reset" => /\ e.prev = s.objects[e.account]
                             /\ e.prevdestruct <=> e.account \in s.destruct
    /\ e.change \in ObjectChanges => SameObject(undoneObject(o, e), s.objects[e.account],
                                                s.disk, s.destruct, e.account)
    /\ e.change = "touch" => o = s.objects[e.account]

\* GetState and GetCommittedState by the layers of the object.
LEMMA ReadFacts ==
  ASSUME NEW s, NEW a, NEW k
  PROVE  /\ CommittedState(s, a, k) = committedOf(s.objects[a], s.disk, s.destruct, a, k)
         /\ State(s, a, k) = stateOf(s.objects[a], s.disk, s.destruct, a, k)
  <1>1. CommittedState(s, a, k) = committedOf(s.objects[a], s.disk, s.destruct, a, k)
    BY Zenon DEF CommittedState, committedOf
  <1> QED BY <1>1, Zenon DEF State, stateOf

\* They answer values.
LEMMA ReadType ==
  ASSUME NEW o \in Object, NEW disk \in [Addrs -> Account \cup {Nil}], NEW D, NEW a \in Addrs, NEW k \in Slots
  PROVE  committedOf(o, disk, D, a, k) \in Values /\ stateOf(o, disk, D, a, k) \in Values
  <1>1. /\ o.dirty[k] \in Values \cup {Nil} /\ o.pending[k] \in Values \cup {Nil}
        /\ o.origin[k] \in Values \cup {Nil}
    BY ObjectFacts
  <1>2. disk[a] # Nil => disk[a].storage[k] \in Values
    BY DEF Account
  <1> QED BY <1>1, <1>2, NilFacts DEF committedOf, stateOf

\* What a step that writes an account gives, field by field.
LEMMA WroteFacts ==
  ASSUME NEW s \in DB, NEW t, NEW e, NEW o, Remembers(s, e, o), Wrote(s, t, e, o)
  PROVE  /\ e.account \in Addrs /\ t.objects[e.account] = o /\ o # Nil
         /\ \A b \in Addrs : b # e.account => t.objects[b] = s.objects[b]
         /\ t.dirties[e.account] = s.dirties[e.account] + bump(e)
         /\ \A b \in Addrs : b # e.account => t.dirties[b] = s.dirties[b]
  <1>1. e.account \in Addrs /\ o # Nil
    BY EntryFacts, ObjectFacts DEF Remembers, AccountChanges
  <1>2. s.objects \in [Addrs -> Object \cup {Nil}] /\ s.dirties \in [Addrs -> Int]
    BY DBFacts
  <1> QED BY <1>1, <1>2 DEF Wrote

\* It keeps the shape, the counts and the table.
LEMMA GoodWrote ==
  ASSUME NEW s, Good(s), NEW t, NEW e, NEW o, Remembers(s, e, o), Wrote(s, t, e, o)
  PROVE  Good(t)
  <1>1. s \in DB /\ e \in Entry /\ e.change \in AccountChanges
    BY DEF Good, Remembers
  <1>2. /\ e.account \in Addrs /\ t.objects[e.account] = o /\ o # Nil
        /\ \A b \in Addrs : b # e.account => t.objects[b] = s.objects[b]
        /\ t.dirties[e.account] = s.dirties[e.account] + bump(e)
        /\ \A b \in Addrs : b # e.account => t.dirties[b] = s.dirties[b]
    BY <1>1, WroteFacts
  <1>3. /\ t \in DB /\ t.disk = s.disk /\ t.entries = Append(s.entries, e)
        /\ t.access = s.access /\ t.logs = s.logs
    BY DEF Wrote
  <1>4. s.access \in AccessList /\ s.entries \in Seq(Entry) /\ s.dirties \in [Addrs -> Int] /\ s.logs \in Int
    BY <1>1, DBFacts
  <1>5. e.change \notin ListChanges /\ e \notin LogEntries
    BY <1>1 DEF ListChanges, AccountChanges, LogEntries
  <1>6. Listed(t.access, t.entries)
    BY <1>1, <1>3, <1>4, <1>5, ListedAppend DEF Good
  <1>7. \A b \in Addrs : s.objects[b] # Nil => t.objects[b] # Nil
    BY <1>2
  <1>8. \A b \in Addrs : t.dirties[b] = s.dirties[b] + IF e \in ChangesOf(b) THEN bump(e) ELSE 0
    <2> TAKE b \in Addrs
    <2>1. e \in ChangesOf(b) <=> b = e.account
      BY <1>1 DEF ChangesOf
    <2> QED BY <1>2, <1>4, <2>1
  <1>9. t.logs = s.logs + IF e \in LogEntries THEN 1 ELSE 0
    BY <1>3, <1>4, <1>5
  <1>10. e.change = "create" => s.objects[e.account] = Nil /\ s.disk[e.account] = Nil
    BY DEF Remembers
  <1> QED BY <1>1, <1>2, <1>3, <1>6, <1>7, <1>8, <1>9, <1>10, GoodEntry

(***************************************************************************)
(* Two states that cannot be told apart by reading, now or after undoing.   *)
(***************************************************************************)
Same(t, s, d) ==
    /\ t.disk = s.disk /\ t.destruct = s.destruct /\ t.refund = s.refund /\ t.logs = s.logs
    /\ t.transient = s.transient /\ t.access = s.access /\ t.entries = s.entries
    /\ \A a \in Addrs : t.dirties[a] = s.dirties[a] + IF a = Ripemd THEN d ELSE 0
    /\ \A a \in Addrs : SameObject(loaded(t, a), loaded(s, a), s.disk, s.destruct, a)

\* The fields of an object that undoing a change leaves alone.
LEMMA UndoneFields ==
  ASSUME NEW o \in Object, NEW e \in Entry, e.change \in ObjectChanges
  PROVE  LET r == undoneObject(o, e)
         IN  /\ r.balance = IF e.change = "balance" THEN e.prev
                            ELSE IF e.change = "selfDestruct" THEN e.prevbalance ELSE o.balance
             /\ r.nonce = IF e.change = "nonce" THEN e.prev ELSE o.nonce
             /\ r.code = IF e.change = "code" THEN e.prev ELSE o.code
             /\ r.selfDestructed = IF e.change = "selfDestruct" THEN e.prev ELSE o.selfDestructed
             /\ r.deleted = o.deleted /\ r.created = o.created
             /\ r.pending = o.pending /\ r.origin = o.origin
             /\ \A k \in Slots : r.dirty[k] = IF e.change = "storage" /\ k = e.key THEN e.prev ELSE o.dirty[k]
  <1> DEFINE r == undoneObject(o, e)
  <1>1. CASE e.change = "selfDestruct"
    <2> DEFINE z(p, n) == [o EXCEPT !.selfDestructed = p, !.balance = n]
    <2>1. \A p \in BOOLEAN, n \in Nat :
             /\ z(p, n).balance = n /\ z(p, n).nonce = o.nonce /\ z(p, n).code = o.code
             /\ z(p, n).selfDestructed = p /\ z(p, n).deleted = o.deleted
             /\ z(p, n).created = o.created /\ z(p, n).pending = o.pending
             /\ z(p, n).origin = o.origin /\ z(p, n).dirty = o.dirty
      BY DEF Object
    <2>2. e.prev \in BOOLEAN /\ e.prevbalance \in Nat
      BY <1>1, EntryFacts
    <2>3. r = z(e.prev, e.prevbalance)
      BY <1>1 DEF undoneObject
    <2> HIDE DEF r, z
    <2>4. /\ r.balance = e.prevbalance /\ r.nonce = o.nonce /\ r.code = o.code /\ r.selfDestructed = e.prev
          /\ r.deleted = o.deleted /\ r.created = o.created /\ r.pending = o.pending
          /\ r.origin = o.origin /\ r.dirty = o.dirty
      BY <2>1, <2>2, <2>3, Zenon
    <2>5. e.change # "storage" /\ e.change # "balance" /\ e.change # "nonce" /\ e.change # "code"
      BY <1>1
    <2> QED BY <1>1, <2>4, <2>5, Zenon DEF r
  <1>2. CASE e.change = "storage"
    <2>1. r = [o EXCEPT !.dirty[e.key] = e.prev]
      BY <1>2 DEF undoneObject
    <2>2. e.key \in Slots /\ o.dirty \in [Slots -> Values \cup {Nil}]
      BY <1>2, EntryFacts, ObjectFacts
    <2> HIDE DEF r
    <2>3. /\ r.balance = o.balance /\ r.nonce = o.nonce /\ r.code = o.code
          /\ r.selfDestructed = o.selfDestructed
          /\ r.deleted = o.deleted /\ r.created = o.created /\ r.pending = o.pending
          /\ r.origin = o.origin /\ r.dirty = [o.dirty EXCEPT ![e.key] = e.prev]
      BY <2>1 DEF Object
    <2>4. \A k \in Slots : r.dirty[k] = IF e.change = "storage" /\ k = e.key THEN e.prev ELSE o.dirty[k]
      BY <1>2, <2>2, <2>3
    <2>5. e.change # "selfDestruct" /\ e.change # "balance" /\ e.change # "nonce" /\ e.change # "code"
      BY <1>2
    <2> QED BY <2>3, <2>4, <2>5, Zenon DEF r
  <1>3. CASE e.change \in {"balance", "nonce", "code"}
    <2>1. r = [o EXCEPT ![e.change] = e.prev]
      BY <1>3 DEF undoneObject
    <2> HIDE DEF r
    <2>2. /\ r.balance = IF e.change = "balance" THEN e.prev ELSE o.balance
          /\ r.nonce = IF e.change = "nonce" THEN e.prev ELSE o.nonce
          /\ r.code = IF e.change = "code" THEN e.prev ELSE o.code
          /\ r.selfDestructed = o.selfDestructed
          /\ r.deleted = o.deleted /\ r.created = o.created /\ r.pending = o.pending
          /\ r.origin = o.origin /\ r.dirty = o.dirty
      BY <1>3, <2>1 DEF Object
    <2>3. e.change # "selfDestruct" /\ e.change # "storage"
      BY <1>3
    <2> QED BY <2>2, <2>3, Zenon DEF r
  <1> QED BY <1>1, <1>2, <1>3 DEF ObjectChanges

\* Undoing the same change of two objects that read the same leaves them reading the same.
LEMMA SameUndone ==
  ASSUME NEW o \in Object, NEW p \in Object, NEW e \in Entry, e.change \in ObjectChanges,
         NEW disk, NEW D, NEW a, SameObject(o, p, disk, D, a)
  PROVE  SameObject(undoneObject(o, e), undoneObject(p, e), disk, D, a)
  <1> DEFINE u == undoneObject(o, e)
             v == undoneObject(p, e)
  <1>1. u \in Object /\ v \in Object /\ u # Nil /\ v # Nil /\ o # Nil
    BY UndoneObjectType, ObjectFacts
  <1>2. /\ u.balance = IF e.change = "balance" THEN e.prev
                       ELSE IF e.change = "selfDestruct" THEN e.prevbalance ELSE o.balance
        /\ u.nonce = IF e.change = "nonce" THEN e.prev ELSE o.nonce
        /\ u.code = IF e.change = "code" THEN e.prev ELSE o.code
        /\ u.selfDestructed = IF e.change = "selfDestruct" THEN e.prev ELSE o.selfDestructed
        /\ u.deleted = o.deleted /\ u.created = o.created
        /\ u.pending = o.pending /\ u.origin = o.origin
        /\ \A k \in Slots : u.dirty[k] = IF e.change = "storage" /\ k = e.key THEN e.prev ELSE o.dirty[k]
    BY UndoneFields, Zenon
  <1>3. /\ v.balance = IF e.change = "balance" THEN e.prev
                       ELSE IF e.change = "selfDestruct" THEN e.prevbalance ELSE p.balance
        /\ v.nonce = IF e.change = "nonce" THEN e.prev ELSE p.nonce
        /\ v.code = IF e.change = "code" THEN e.prev ELSE p.code
        /\ v.selfDestructed = IF e.change = "selfDestruct" THEN e.prev ELSE p.selfDestructed
        /\ v.deleted = p.deleted /\ v.created = p.created
        /\ v.pending = p.pending /\ v.origin = p.origin
        /\ \A k \in Slots : v.dirty[k] = IF e.change = "storage" /\ k = e.key THEN e.prev ELSE p.dirty[k]
    BY UndoneFields, Zenon
  <1>4. /\ o.balance = p.balance /\ o.nonce = p.nonce /\ o.code = p.code
        /\ o.selfDestructed = p.selfDestructed /\ o.deleted = p.deleted /\ o.created = p.created
        /\ \A k \in Slots : /\ committedOf(o, disk, D, a, k) = committedOf(p, disk, D, a, k)
                            /\ stateOf(o, disk, D, a, k) = stateOf(p, disk, D, a, k)
    BY <1>1, Zenon DEF SameObject
  <1> HIDE DEF u, v
  <1>5. /\ u.balance = v.balance /\ u.nonce = v.nonce /\ u.code = v.code
        /\ u.selfDestructed = v.selfDestructed /\ u.deleted = v.deleted /\ u.created = v.created
    BY <1>2, <1>3, <1>4, Zenon
  <1>6. \A k \in Slots : /\ committedOf(u, disk, D, a, k) = committedOf(o, disk, D, a, k)
                         /\ committedOf(v, disk, D, a, k) = committedOf(p, disk, D, a, k)
    BY <1>2, <1>3, Zenon DEF committedOf
  <1>7. ASSUME NEW k \in Slots PROVE stateOf(u, disk, D, a, k) = stateOf(v, disk, D, a, k)
    <2>1. CASE e.change = "storage" /\ k = e.key
      <3>1. u.dirty[k] = e.prev /\ v.dirty[k] = e.prev /\ e.prev \in Values
        BY <1>2, <1>3, <2>1, EntryFacts
      <3> QED BY <3>1, NilFacts DEF stateOf
    <2>2. CASE ~(e.change = "storage" /\ k = e.key)
      <3>1. u.dirty[k] = o.dirty[k] /\ v.dirty[k] = p.dirty[k]
        BY <1>2, <1>3, <2>2
      <3>2. stateOf(u, disk, D, a, k) = stateOf(o, disk, D, a, k)
        BY <1>6, <3>1, Zenon DEF stateOf
      <3>3. stateOf(v, disk, D, a, k) = stateOf(p, disk, D, a, k)
        BY <1>6, <3>1, Zenon DEF stateOf
      <3> QED BY <1>4, <3>2, <3>3
    <2> QED BY <2>1, <2>2
  <1>8. SameObject(u, v, disk, D, a)
    BY <1>1, <1>4, <1>5, <1>6, <1>7, Zenon DEF SameObject
  <1> QED BY <1>8 DEF u, v

\* An object reads as itself.
LEMMA SameReflexive ==
  ASSUME NEW o, NEW disk, NEW D, NEW a
  PROVE  SameObject(o, o, disk, D, a)
  BY Zenon DEF SameObject

\* Reading the same is transitive.
LEMMA SameTransitive ==
  ASSUME NEW o, NEW p, NEW q, NEW disk, NEW D, NEW a,
         SameObject(o, p, disk, D, a), SameObject(p, q, disk, D, a)
  PROVE  SameObject(o, q, disk, D, a)
  BY Zenon DEF SameObject

\* The marker of another account changes no reading.
LEMMA SameMark ==
  ASSUME NEW o, NEW p, NEW disk, NEW D, NEW E, NEW a, a \in D <=> a \in E,
         SameObject(o, p, disk, D, a)
  PROVE  SameObject(o, p, disk, E, a)
  <1>1. \A x, k : committedOf(x, disk, D, a, k) = committedOf(x, disk, E, a, k)
    BY Zenon DEF committedOf
  <1>2. \A x, k : stateOf(x, disk, D, a, k) = stateOf(x, disk, E, a, k)
    BY <1>1, Zenon DEF stateOf
  <1> QED BY <1>1, <1>2, Zenon DEF SameObject

\* Entry by entry, the undone states remain the same.
LEMMA SameUndo ==
  ASSUME NEW s, Good(s), NEW t, Good(t), NEW d \in Nat, Same(t, s, d), Len(s.entries) > 0
  PROVE  Same(undoLast(t), undoLast(s), d)
  <1> DEFINE e == Last(s.entries)
             a == e.account
             u == undoLast(t)
             r == undoLast(s)
             n == Len(s.entries)
  <1>1. /\ t.disk = s.disk /\ t.destruct = s.destruct /\ t.refund = s.refund /\ t.logs = s.logs
        /\ t.transient = s.transient /\ t.access = s.access /\ t.entries = s.entries
        /\ \A b \in Addrs : t.dirties[b] = s.dirties[b] + IF b = Ripemd THEN d ELSE 0
        /\ \A b \in Addrs : SameObject(loaded(t, b), loaded(s, b), s.disk, s.destruct, b)
    BY DEF Same
  <1>2. s \in DB /\ t \in DB /\ Undoable(s, e) /\ Undoable(t, e)
    BY <1>1, GoodUndo DEF Good
  <1>3. /\ e \in Entry /\ r \in DB /\ r.disk = s.disk
        /\ r.objects = undoneObjects(s.objects, e) /\ r.destruct = undoneDestruct(s.destruct, e)
        /\ r.refund = undoneRefund(s.refund, e) /\ r.logs = undoneLogs(s.logs, e)
        /\ r.transient = undoneTransient(s.transient, e)
        /\ r.access = undoneAccess(s.access, e)
        /\ r.dirties = undoneDirties(s.dirties, e)
        /\ r.entries = SubSeq(s.entries, 1, Len(s.entries) - 1)
    BY <1>2, UndoLastFacts, Zenon
  <1>4. /\ u \in DB /\ u.disk = t.disk
        /\ u.objects = undoneObjects(t.objects, e) /\ u.destruct = undoneDestruct(t.destruct, e)
        /\ u.refund = undoneRefund(t.refund, e) /\ u.logs = undoneLogs(t.logs, e)
        /\ u.transient = undoneTransient(t.transient, e)
        /\ u.access = undoneAccess(t.access, e)
        /\ u.dirties = undoneDirties(t.dirties, e)
        /\ u.entries = SubSeq(t.entries, 1, Len(t.entries) - 1)
    <2>1. Last(t.entries) = e /\ Len(t.entries) > 0
      BY <1>1
    <2>2. Undoable(t, Last(t.entries))
      BY <1>2, <2>1
    <2> HIDE DEF e
    <2> QED BY <1>2, <2>1, <2>2, UndoLastFacts
  <1>5. /\ s.objects \in [Addrs -> Object \cup {Nil}] /\ s.dirties \in [Addrs -> Int]
        /\ t.objects \in [Addrs -> Object \cup {Nil}] /\ t.dirties \in [Addrs -> Int]
        /\ n \in Nat /\ n \in 1..n
    <2>1. n \in Nat
      BY <1>2, DBFacts
    <2> QED BY <1>2, <2>1, DBFacts
  <1>6. e.change \in AccountChanges => a \in Addrs /\ s.objects[a] # Nil /\ t.objects[a] # Nil
    <2> SUFFICES ASSUME e.change \in AccountChanges PROVE a \in Addrs /\ s.objects[a] # Nil /\ t.objects[a] # Nil
      OBVIOUS
    <2>1. a \in Addrs /\ ChangeAt(s.entries, n, a) /\ ChangeAt(t.entries, n, a)
      BY <1>1, <1>3, EntryFacts DEF AccountChanges, ChangeAt, Last
    <2> QED BY <1>1, <1>5, <2>1 DEF Good, Present
  <1> HIDE DEF u, r, e, a, n
  <1>7. ASSUME NEW b \in Addrs PROVE u.dirties[b] = r.dirties[b] + IF b = Ripemd THEN d ELSE 0
    <2>1. CASE e.change \in AccountChanges
      BY <1>1, <1>3, <1>4, <1>5, <1>6, <2>1 DEF undoneDirties, a
    <2>2. CASE e.change \notin AccountChanges
      BY <1>1, <1>3, <1>4, <2>2 DEF undoneDirties
    <2> QED BY <2>1, <2>2
  <1>8. ASSUME NEW b \in Addrs
        PROVE  SameObject(loaded(u, b), loaded(r, b), r.disk, r.destruct, b)
    <2>1. CASE u.objects[b] = r.objects[b]
      <3>1. loaded(u, b) = loaded(r, b)
        BY <1>1, <1>3, <1>4, <2>1 DEF loaded
      <3> QED BY <3>1, SameReflexive
    <2>2. CASE u.objects[b] = t.objects[b] /\ r.objects[b] = s.objects[b] /\ (b \in r.destruct <=> b \in s.destruct)
      <3>1. loaded(u, b) = loaded(t, b) /\ loaded(r, b) = loaded(s, b)
        BY <1>1, <1>3, <1>4, <2>2 DEF loaded
      <3> QED BY <1>1, <1>3, <2>2, <3>1, SameMark
    <2>3. CASE e.change \in {"create", "reset"} /\ b = a
      <3>1. u.objects[b] = r.objects[b]
        BY <1>3, <1>4, <1>5, <2>3 DEF undoneObjects, a
      <3> QED BY <2>1, <3>1
    <2>4. CASE e.change \in {"create", "reset"} /\ b # a
      <3>1. u.objects[b] = t.objects[b] /\ r.objects[b] = s.objects[b] /\ (b \in r.destruct <=> b \in s.destruct)
        BY <1>3, <1>4, <1>5, <2>4 DEF undoneObjects, undoneDestruct, a
      <3> QED BY <2>2, <3>1
    <2>5. CASE e.change \in ObjectChanges /\ b # a
      <3>1. u.objects[b] = t.objects[b] /\ r.objects[b] = s.objects[b] /\ (b \in r.destruct <=> b \in s.destruct)
        BY <1>3, <1>4, <1>5, <2>5 DEF undoneObjects, undoneDestruct, a, ObjectChanges
      <3> QED BY <2>2, <3>1
    <2>6. CASE e.change \in ObjectChanges /\ b = a
      <3>1. s.objects[b] \in Object /\ t.objects[b] \in Object /\ s.objects[b] # Nil /\ t.objects[b] # Nil
        BY <1>5, <1>6, <2>6 DEF ObjectChanges, AccountChanges
      <3>2. /\ u.objects[b] = undoneObject(t.objects[b], e) /\ r.objects[b] = undoneObject(s.objects[b], e)
            /\ r.destruct = s.destruct
        BY <1>3, <1>4, <1>5, <2>6 DEF undoneObjects, undoneDestruct, a, ObjectChanges
      <3>3. loaded(t, b) = t.objects[b] /\ loaded(s, b) = s.objects[b]
        BY <3>1 DEF loaded, loadedObject
      <3>4. SameObject(t.objects[b], s.objects[b], s.disk, s.destruct, b)
        BY <1>1, <3>3
      <3>5. SameObject(u.objects[b], r.objects[b], s.disk, s.destruct, b)
        BY <1>3, <2>6, <3>1, <3>2, <3>4, SameUndone
      <3>6. u.objects[b] # Nil /\ r.objects[b] # Nil
        BY <1>3, <2>6, <3>1, <3>2, UndoneObjectType, NilFacts
      <3>7. loaded(u, b) = u.objects[b] /\ loaded(r, b) = r.objects[b]
        BY <3>6 DEF loaded, loadedObject
      <3> QED BY <1>3, <3>2, <3>5, <3>7
    <2>7. CASE e.change \notin ObjectChanges \cup {"create", "reset"}
      <3>1. u.objects[b] = t.objects[b] /\ r.objects[b] = s.objects[b] /\ (b \in r.destruct <=> b \in s.destruct)
        BY <1>3, <1>4, <2>7 DEF undoneObjects, undoneDestruct
      <3> QED BY <2>2, <3>1
    <2> QED BY <2>3, <2>4, <2>5, <2>6, <2>7
  <1>9. /\ u.disk = r.disk /\ u.destruct = r.destruct /\ u.refund = r.refund /\ u.logs = r.logs
        /\ u.transient = r.transient /\ u.access = r.access /\ u.entries = r.entries
    BY <1>1, <1>3, <1>4
  <1>10. Same(u, r, d)
    BY <1>7, <1>8, <1>9 DEF Same
  <1> QED BY <1>10 DEF u, r

(***************************************************************************)
(* What an operation leaves of the states before it.                        *)
(***************************************************************************)
\* Undone down to a length that s had, t is the same as s undone to it.
Follows(t, s, d) ==
    /\ Len(s.entries) <= Len(t.entries)
    /\ \A n \in 0..Len(s.entries) : Same(revert(t, n), revert(s, n), d)

\* What no entry of the journal concerns is as a transaction begins it.
Clean(s) ==
    /\ Len(s.entries) = 0 => s.refund = 0
    /\ \A a \in Addrs :
          /\ \A i \in 1..Len(s.entries) : ~ChangeAt(s.entries, i, a)
          /\ loaded(s, a) # Nil /\ ~loaded(s, a).deleted
          => /\ ~loaded(s, a).selfDestructed /\ ~loaded(s, a).created
             /\ \A k \in Slots : stateOf(loaded(s, a), s.disk, s.destruct, a, k)
                                   = committedOf(loaded(s, a), s.disk, s.destruct, a, k)

Kept(s) == \A n \in 0..Len(s.entries) : Clean(revert(s, n))

\* A revert keeps the shape, the counts and the table.
LEMMA GoodRevert ==
  ASSUME NEW s, Good(s), NEW n \in 0..Len(s.entries)
  PROVE  Good(revert(s, n)) /\ Len(revert(s, n).entries) = n /\ Len(s.entries) \in Nat
  <1> DEFINE G == {x \in DB : Good(x)}
  <1>1. \A x \in G : Good(x) /\ Len(x.entries) \in Nat
    BY DBFacts
  <1>2. s \in G
    BY DEF Good
  <1>3. ASSUME NEW x \in G, Len(x.entries) > 0
        PROVE  undoLast(x) \in G /\ Len(undoLast(x).entries) = Len(x.entries) - 1
    <2>1. Good(undoLast(x)) /\ Len(undoLast(x).entries) = Len(x.entries) - 1
      BY <1>1, <1>3, GoodUndo
    <2> QED BY <2>1 DEF Good
  <1>4. \A x \in G : /\ Len(x.entries) \in Nat
                     /\ Len(x.entries) > 0 => /\ undoLast(x) \in G
                                              /\ Len(undoLast(x).entries) = Len(x.entries) - 1
    BY <1>1, <1>3
  <1> HIDE DEF G
  <1>5. \A m \in 0..Len(s.entries) : revert(s, m) \in G /\ Len(revert(s, m).entries) = m
    BY <1>2, <1>4, RevertKeeps
  <1> QED BY <1>1, <1>2, <1>5

\* States that read the same, with the same entries, read the same after a revert.
LEMMA SameRevert ==
  ASSUME NEW s, Good(s), NEW t, Good(t), NEW d \in Nat, Same(t, s, d)
  PROVE  \A n \in 0..Len(s.entries) : Same(revert(t, n), revert(s, n), d)
  <1> DEFINE N == Len(s.entries)
             T == {k \in Nat : k <= N => Same(revert(t, N - k), revert(s, N - k), d)}
  <1>1. N \in Nat /\ Len(t.entries) = N
    BY DBFacts DEF Good, Same
  <1> HIDE DEF N
  <1>2. 0 \in T
    <2>1. revert(t, N) = t /\ revert(s, N) = s /\ N - 0 = N
      BY <1>1, RevertNothing DEF N
    <2> QED BY <2>1
  <1>3. ASSUME NEW k \in T PROVE k + 1 \in T
    <2> SUFFICES ASSUME k + 1 <= N PROVE Same(revert(t, N - (k + 1)), revert(s, N - (k + 1)), d)
      OBVIOUS
    <2> DEFINE n == N - (k + 1)
    <2>1. k \in Nat /\ Same(revert(t, N - k), revert(s, N - k), d)
      BY <1>1
    <2>2. n \in Nat /\ n < N /\ n + 1 = N - k /\ n + 1 \in 0..N
      BY <1>1, <2>1
    <2> HIDE DEF n
    <2>3. revert(t, n) = undoLast(revert(t, n + 1)) /\ revert(s, n) = undoLast(revert(s, n + 1))
      BY <1>1, <2>2, RevertOne DEF N
    <2>4. /\ Good(revert(t, n + 1)) /\ Good(revert(s, n + 1)) /\ Len(revert(s, n + 1).entries) > 0
      BY <1>1, <2>2, GoodRevert DEF N
    <2>5. Same(revert(t, n), revert(s, n), d)
      BY <2>1, <2>2, <2>3, <2>4, SameUndo
    <2> QED BY <2>5 DEF n
  <1> HIDE DEF T
  <1>4. T = Nat
    <2>1. T \in SUBSET Nat
      BY DEF T
    <2> QED BY <1>2, <1>3, <2>1, SetInduction
  <1>5. ASSUME NEW n \in 0..N PROVE Same(revert(t, n), revert(s, n), d)
    <2>1. N - n \in T /\ N - n <= N /\ N - (N - n) = n
      BY <1>1, <1>4
    <2> QED BY <2>1 DEF T
  <1> QED BY <1>5 DEF N

\* A revert of a revert is the deeper revert.
LEMMA RevertRevert ==
  ASSUME NEW s, Good(s), NEW n \in 0..Len(s.entries), NEW m \in 0..n
  PROVE  revert(revert(s, n), m) = revert(s, m)
  <1> DEFINE x == revert(s, n)
             T == {k \in Nat : k <= n => revert(x, n - k) = revert(s, n - k)}
  <1>1. Len(s.entries) \in Nat /\ Len(x.entries) = n
    BY GoodRevert
  <1> HIDE DEF x
  <1>2. 0 \in T
    <2>1. revert(x, n) = x /\ n - 0 = n
      BY <1>1, RevertNothing
    <2> QED BY <2>1 DEF x
  <1>3. ASSUME NEW k \in T PROVE k + 1 \in T
    <2> SUFFICES ASSUME k + 1 <= n PROVE revert(x, n - (k + 1)) = revert(s, n - (k + 1))
      OBVIOUS
    <2> DEFINE j == n - (k + 1)
    <2>1. k \in Nat /\ revert(x, n - k) = revert(s, n - k)
      BY <1>1
    <2>2. j \in Nat /\ j < n /\ j < Len(s.entries) /\ j + 1 = n - k
      BY <1>1, <2>1
    <2> HIDE DEF j
    <2>3. revert(x, j) = undoLast(revert(x, j + 1)) /\ revert(s, j) = undoLast(revert(s, j + 1))
      BY <1>1, <2>2, RevertOne
    <2> QED BY <2>1, <2>2, <2>3 DEF j
  <1> HIDE DEF T
  <1>4. T = Nat
    <2>1. T \in SUBSET Nat
      BY DEF T
    <2> QED BY <1>2, <1>3, <2>1, SetInduction
  <1>5. n - m \in T /\ n - m <= n /\ n - (n - m) = m
    BY <1>1, <1>4
  <1> QED BY <1>5 DEF T, x

\* A state that only reads differently cached follows.
LEMMA FollowsSame ==
  ASSUME NEW s, Good(s), NEW t, Good(t), NEW d \in Nat, Same(t, s, d)
  PROVE  Follows(t, s, d)
  <1>1. Len(s.entries) \in Nat /\ Len(t.entries) = Len(s.entries)
    BY DBFacts DEF Good, Same
  <1> QED BY <1>1, SameRevert DEF Follows

\* A state from which undoing one entry leads back follows.
LEMMA FollowsUndone ==
  ASSUME NEW s, Good(s), NEW t, Good(t), NEW d \in Nat, Len(t.entries) = Len(s.entries) + 1,
         Same(undoLast(t), s, d)
  PROVE  Follows(t, s, d)
  <1>1. Len(s.entries) \in Nat
    BY DBFacts DEF Good
  <1>2. Good(undoLast(t)) /\ Len(undoLast(t).entries) = Len(t.entries) - 1
    BY <1>1, GoodUndo
  <1>3. \A n \in 0..Len(s.entries) : Same(revert(undoLast(t), n), revert(s, n), d)
    BY <1>2, SameRevert
  <1>4. \A n \in 0..Len(s.entries) : revert(t, n) = revert(undoLast(t), n)
    BY <1>1, <1>2, RevertFirst, SMTT(30)
  <1> QED BY <1>1, <1>3, <1>4 DEF Follows

\* Operations one after the other follow.
LEMMA FollowsTransitive ==
  ASSUME NEW s, Good(s), NEW t, Good(t), NEW u, Good(u), NEW d \in Nat, NEW c \in Nat,
         Follows(t, s, d), Follows(u, t, c)
  PROVE  Follows(u, s, d + c)
  <1>1. Len(s.entries) \in Nat /\ Len(t.entries) \in Nat /\ Len(u.entries) \in Nat
    BY DBFacts DEF Good
  <1>2. Len(s.entries) <= Len(t.entries) /\ Len(t.entries) <= Len(u.entries)
    BY DEF Follows
  <1>3. ASSUME NEW n \in 0..Len(s.entries) PROVE Same(revert(u, n), revert(s, n), d + c)
    <2> DEFINE x == revert(s, n)
               y == revert(t, n)
               z == revert(u, n)
    <2>1. n \in 0..Len(t.entries)
      BY <1>1, <1>2
    <2>2. Same(y, x, d) /\ Same(z, y, c)
      BY <2>1 DEF Follows
    <2>3. x \in DB
      BY GoodRevert DEF Good
    <2>4. x.dirties \in [Addrs -> Int]
      BY <2>3, DBFacts
    <2> HIDE DEF x, y, z
    <2>5. \A a \in Addrs : z.dirties[a] = x.dirties[a] + IF a = Ripemd THEN d + c ELSE 0
      BY <2>2, <2>4 DEF Same
    <2>6. \A a \in Addrs : SameObject(loaded(z, a), loaded(x, a), x.disk, x.destruct, a)
      <3> TAKE a \in Addrs
      <3>1. SameObject(loaded(z, a), loaded(y, a), x.disk, x.destruct, a)
        BY <2>2 DEF Same
      <3>2. SameObject(loaded(y, a), loaded(x, a), x.disk, x.destruct, a)
        BY <2>2 DEF Same
      <3> QED BY <3>1, <3>2, SameTransitive
    <2>7. Same(z, x, d + c)
      BY <2>2, <2>5, <2>6 DEF Same
    <2> QED BY <2>7 DEF x, z
  <1> QED BY <1>1, <1>2, <1>3 DEF Follows

\* Clean depends on readings alone.
LEMMA CleanSame ==
  ASSUME NEW s, NEW t, NEW d, Same(t, s, d), Clean(s)
  PROVE  Clean(t)
  <1>1. t.entries = s.entries /\ t.refund = s.refund /\ t.disk = s.disk /\ t.destruct = s.destruct
    BY DEF Same
  <1>2. ASSUME NEW a \in Addrs, \A i \in 1..Len(t.entries) : ~ChangeAt(t.entries, i, a),
               loaded(t, a) # Nil, ~loaded(t, a).deleted
        PROVE  /\ ~loaded(t, a).selfDestructed /\ ~loaded(t, a).created
               /\ \A k \in Slots : stateOf(loaded(t, a), t.disk, t.destruct, a, k)
                                     = committedOf(loaded(t, a), t.disk, t.destruct, a, k)
    <2>1. SameObject(loaded(t, a), loaded(s, a), s.disk, s.destruct, a)
      BY DEF Same
    <2>2. loaded(s, a) # Nil /\ ~loaded(s, a).deleted
      BY <1>2, <2>1, Zenon DEF SameObject
    <2>3. /\ ~loaded(s, a).selfDestructed /\ ~loaded(s, a).created
          /\ \A k \in Slots : stateOf(loaded(s, a), s.disk, s.destruct, a, k)
                                = committedOf(loaded(s, a), s.disk, s.destruct, a, k)
      BY <1>1, <1>2, <2>2, Zenon DEF Clean
    <2> QED BY <1>1, <1>2, <2>1, <2>3, Zenon DEF SameObject
  <1>3. Len(t.entries) = 0 => t.refund = 0
    BY <1>1 DEF Clean
  <1> QED BY <1>2, <1>3, Zenon DEF Clean

\* A step keeps clean what reverts would bring back.
LEMMA KeptFollows ==
  ASSUME NEW s, Good(s), Kept(s), NEW t, Good(t), Clean(t), NEW d \in Nat, Follows(t, s, d),
         Len(t.entries) <= Len(s.entries) + 1
  PROVE  Kept(t)
  <1>1. Len(s.entries) \in Nat /\ Len(t.entries) \in Nat
    BY DBFacts DEF Good
  <1>2. ASSUME NEW n \in 0..Len(t.entries) PROVE Clean(revert(t, n))
    <2>1. CASE n <= Len(s.entries)
      <3>1. n \in 0..Len(s.entries)
        BY <1>1, <2>1
      <3>2. Clean(revert(s, n)) /\ Same(revert(t, n), revert(s, n), d)
        BY <3>1 DEF Kept, Follows
      <3> QED BY <3>2, CleanSame
    <2>2. CASE n > Len(s.entries)
      <3>1. n = Len(t.entries)
        BY <1>1, <2>2
      <3> QED BY <1>1, <3>1, RevertNothing
    <2> QED BY <1>1, <2>1, <2>2
  <1> QED BY <1>2 DEF Kept

\* So does a revert.
LEMMA KeptRevert ==
  ASSUME NEW s, Good(s), Kept(s), NEW n \in 0..Len(s.entries)
  PROVE  Kept(revert(s, n))
  <1>1. Len(s.entries) \in Nat /\ Len(revert(s, n).entries) = n
    BY GoodRevert
  <1>2. ASSUME NEW m \in 0..n PROVE Clean(revert(revert(s, n), m))
    <2>1. revert(revert(s, n), m) = revert(s, m) /\ m \in 0..Len(s.entries)
      BY <1>1, RevertRevert
    <2> QED BY <2>1 DEF Kept
  <1> QED BY <1>1, <1>2 DEF Kept

Sound(s) == Good(s) /\ Kept(s)

\* What soundness gives of the present state.
LEMMA SoundFacts ==
  ASSUME NEW s, Sound(s)
  PROVE  Good(s) /\ Kept(s) /\ Clean(s) /\ s \in DB
  <1>1. Good(s) /\ Kept(s) /\ s \in DB /\ Len(s.entries) \in Nat
    BY DBFacts DEF Sound, Good
  <1>2. Clean(s)
    BY <1>1, RevertNothing DEF Kept
  <1> QED BY <1>1, <1>2

\* The last entry of t is e, and s has the others.
LEMMA UndoneFacts ==
  ASSUME NEW s \in DB, NEW t, Good(t), NEW e \in Entry, t.entries = Append(s.entries, e)
  PROVE  LET r == undoLast(t)
         IN  /\ r \in DB /\ r.disk = t.disk
             /\ r.objects = undoneObjects(t.objects, e) /\ r.destruct = undoneDestruct(t.destruct, e)
             /\ r.refund = undoneRefund(t.refund, e) /\ r.logs = undoneLogs(t.logs, e)
             /\ r.transient = undoneTransient(t.transient, e)
             /\ r.access = undoneAccess(t.access, e)
             /\ r.dirties = undoneDirties(t.dirties, e)
             /\ r.entries = s.entries
             /\ Len(t.entries) = Len(s.entries) + 1
  <1> DEFINE r == undoLast(t)
  <1>1. s.entries \in Seq(Entry)
    BY DBFacts
  <1>2. /\ Len(t.entries) = Len(s.entries) + 1 /\ Len(s.entries) \in Nat /\ Last(t.entries) = e
        /\ SubSeq(t.entries, 1, Len(s.entries)) = s.entries
    BY <1>1, AppendFacts
  <1>3. Len(t.entries) > 0 /\ Len(t.entries) - 1 = Len(s.entries)
    BY <1>2
  <1>4. Undoable(t, Last(t.entries)) /\ t \in DB
    BY <1>3, GoodUndo DEF Good
  <1>5. /\ r \in DB /\ r.disk = t.disk
        /\ r.objects = undoneObjects(t.objects, Last(t.entries))
        /\ r.destruct = undoneDestruct(t.destruct, Last(t.entries))
        /\ r.refund = undoneRefund(t.refund, Last(t.entries)) /\ r.logs = undoneLogs(t.logs, Last(t.entries))
        /\ r.transient = undoneTransient(t.transient, Last(t.entries))
        /\ r.access = undoneAccess(t.access, Last(t.entries))
        /\ r.dirties = undoneDirties(t.dirties, Last(t.entries))
        /\ r.entries = SubSeq(t.entries, 1, Len(t.entries) - 1)
    BY <1>3, <1>4, UndoLastFacts
  <1> QED BY <1>2, <1>3, <1>5

\* Undoing a written change brings back an object that reads as the one before.
LEMMA UndoWrote ==
  ASSUME NEW s, Good(s), NEW t, NEW e, NEW o, Remembers(s, e, o), Wrote(s, t, e, o)
  PROVE  Same(undoLast(t), s, bump(e) - 1) /\ bump(e) - 1 \in Nat /\ Len(t.entries) = Len(s.entries) + 1
  <1> DEFINE r == undoLast(t)
             a == e.account
  <1>1. s \in DB /\ e \in Entry /\ e.change \in AccountChanges /\ o \in Object /\ Good(t)
    BY GoodWrote DEF Good, Remembers
  <1>2. /\ a \in Addrs /\ t.objects[a] = o /\ o # Nil
        /\ \A b \in Addrs : b # a => t.objects[b] = s.objects[b]
        /\ t.dirties[a] = s.dirties[a] + bump(e)
        /\ \A b \in Addrs : b # a => t.dirties[b] = s.dirties[b]
    BY <1>1, WroteFacts
  <1>3. /\ t \in DB /\ t.disk = s.disk /\ t.entries = Append(s.entries, e)
        /\ t.destruct = IF e.change = "reset" THEN s.destruct \cup {e.account} ELSE s.destruct
        /\ t.refund = s.refund /\ t.logs = s.logs /\ t.transient = s.transient /\ t.access = s.access
    BY DEF Wrote
  <1>4. /\ r \in DB /\ r.disk = t.disk
        /\ r.objects = undoneObjects(t.objects, e) /\ r.destruct = undoneDestruct(t.destruct, e)
        /\ r.refund = undoneRefund(t.refund, e) /\ r.logs = undoneLogs(t.logs, e)
        /\ r.transient = undoneTransient(t.transient, e)
        /\ r.access = undoneAccess(t.access, e)
        /\ r.dirties = undoneDirties(t.dirties, e)
        /\ r.entries = s.entries
        /\ Len(t.entries) = Len(s.entries) + 1
    BY <1>1, <1>3, UndoneFacts
  <1>5. /\ s.objects \in [Addrs -> Object \cup {Nil}] /\ s.dirties \in [Addrs -> Int]
        /\ t.objects \in [Addrs -> Object \cup {Nil}] /\ t.dirties \in [Addrs -> Int]
        /\ s.destruct \in SUBSET Addrs
    BY <1>1, <1>3, DBFacts
  <1>6. bump(e) \in {1, 2} /\ bump(e) - 1 \in Nat /\ (a # Ripemd => bump(e) = 1)
    BY DEF bump
  <1> HIDE DEF r, a
  <1>7. r.refund = s.refund /\ r.logs = s.logs /\ r.transient = s.transient /\ r.access = s.access
    <2>1. e.change \notin {"refund", "log", "transient", "listAddress", "listSlot"}
      BY <1>1 DEF AccountChanges
    <2> QED BY <1>3, <1>4, <2>1 DEF undoneRefund, undoneLogs, undoneTransient, undoneAccess
  <1>8. r.destruct = s.destruct
    <2>1. CASE e.change = "reset"
      <3>1. e.prevdestruct <=> a \in s.destruct
        BY <2>1 DEF Remembers, a
      <3> QED BY <1>3, <1>4, <2>1, <3>1 DEF undoneDestruct, a
    <2>2. CASE e.change # "reset"
      BY <1>3, <1>4, <2>2 DEF undoneDestruct
    <2> QED BY <2>1, <2>2
  <1>9. ASSUME NEW b \in Addrs
        PROVE  r.dirties[b] = s.dirties[b] + IF b = Ripemd THEN bump(e) - 1 ELSE 0
    <2>1. r.dirties = [t.dirties EXCEPT ![a] = t.dirties[a] - 1]
      BY <1>1, <1>4 DEF undoneDirties, a
    <2>2. s.dirties[b] \in Int /\ s.dirties[a] \in Int
      BY <1>2, <1>5
    <2>3. CASE b = a
      <3>1. r.dirties[b] = s.dirties[b] + bump(e) - 1
        <4>1. r.dirties[b] = t.dirties[a] - 1
          BY <1>2, <1>5, <2>1, <2>3
        <4> QED BY <1>2, <1>6, <2>2, <2>3, <4>1
      <3>2. b # Ripemd => bump(e) = 1
        BY <1>6, <2>3
      <3> QED BY <1>6, <2>2, <3>1, <3>2
    <2>4. CASE b # a
      <3>1. r.dirties[b] = s.dirties[b]
        BY <1>2, <1>5, <2>1, <2>4
      <3>2. b = Ripemd => bump(e) = 1
        BY <2>4 DEF bump, a
      <3> QED BY <1>6, <2>2, <3>1, <3>2
    <2> QED BY <2>3, <2>4
  <1>10. ASSUME NEW b \in Addrs
         PROVE  SameObject(loaded(r, b), loaded(s, b), s.disk, s.destruct, b)
    <2>1. CASE r.objects[b] = s.objects[b]
      <3>1. loaded(r, b) = loaded(s, b)
        BY <1>3, <1>4, <2>1 DEF loaded
      <3> QED BY <3>1, SameReflexive
    <2>2. CASE b # a
      <3>1. r.objects[b] = s.objects[b]
        <4>1. r.objects[b] = t.objects[b]
          BY <1>4, <1>5, <2>2 DEF undoneObjects, a
        <4> QED BY <1>2, <2>2, <4>1
      <3> QED BY <2>1, <3>1
    <2>3. CASE b = a /\ e.change \in {"create", "reset", "touch"}
      <3>1. r.objects[b] = s.objects[b]
        <4>1. CASE e.change = "create"
          BY <1>2, <1>4, <1>5, <2>3, <4>1 DEF undoneObjects, a, Remembers
        <4>2. CASE e.change = "reset"
          BY <1>2, <1>4, <1>5, <2>3, <4>2 DEF undoneObjects, a, Remembers
        <4>3. CASE e.change = "touch"
          BY <1>2, <1>4, <1>5, <2>3, <4>3 DEF undoneObjects, a, Remembers, ObjectChanges
        <4> QED BY <2>3, <4>1, <4>2, <4>3
      <3> QED BY <2>1, <3>1
    <2>4. CASE b = a /\ e.change \in ObjectChanges
      <3>1. r.objects[b] = undoneObject(o, e)
        BY <1>2, <1>4, <1>5, <2>4 DEF undoneObjects, a, ObjectChanges
      <3>2. SameObject(undoneObject(o, e), s.objects[b], s.disk, s.destruct, b)
        BY <2>4 DEF Remembers, a
      <3>3. undoneObject(o, e) # Nil
        BY <1>1, <2>4, UndoneObjectType, NilFacts
      <3>4. s.objects[b] # Nil
        BY <3>2, <3>3, Zenon DEF SameObject
      <3>5. loaded(r, b) = undoneObject(o, e) /\ loaded(s, b) = s.objects[b]
        BY <3>1, <3>3, <3>4 DEF loaded, loadedObject
      <3> QED BY <3>2, <3>5
    <2> QED BY <1>1, <2>2, <2>3, <2>4 DEF AccountChanges, ObjectChanges
  <1>11. Same(r, s, bump(e) - 1)
    BY <1>3, <1>4, <1>7, <1>8, <1>9, <1>10 DEF Same
  <1> QED BY <1>4, <1>6, <1>11 DEF r

\* An operation that writes an account keeps the StateDB sound and follows.
LEMMA WroteSound ==
  ASSUME NEW s, Sound(s), NEW t, NEW e, NEW o, Remembers(s, e, o), Wrote(s, t, e, o)
  PROVE  Sound(t) /\ Follows(t, s, bump(e) - 1) /\ bump(e) - 1 \in Nat
  <1> DEFINE a == e.account
  <1>1. Good(s) /\ Kept(s) /\ Clean(s) /\ s \in DB
    BY SoundFacts
  <1>2. Good(t)
    BY <1>1, GoodWrote
  <1>3. Same(undoLast(t), s, bump(e) - 1) /\ bump(e) - 1 \in Nat /\ Len(t.entries) = Len(s.entries) + 1
    BY <1>1, UndoWrote
  <1>4. Follows(t, s, bump(e) - 1)
    BY <1>1, <1>2, <1>3, FollowsUndone
  <1>5. /\ t.disk = s.disk /\ t.entries = Append(s.entries, e) /\ e \in Entry
        /\ e.change \in AccountChanges
        /\ t.destruct = IF e.change = "reset" THEN s.destruct \cup {a} ELSE s.destruct
        /\ a \in Addrs /\ \A b \in Addrs : b # a => t.objects[b] = s.objects[b]
    BY <1>1, WroteFacts DEF Wrote, Remembers
  <1>6. /\ s.entries \in Seq(Entry) /\ Len(s.entries) \in Nat /\ t.entries[Len(s.entries) + 1] = e
        /\ \A i \in 1..Len(s.entries) : t.entries[i] = s.entries[i]
    BY <1>1, <1>5, DBFacts, AppendFacts
  <1> HIDE DEF a
  <1>7. Clean(t)
    <2>1. Len(t.entries) # 0
      BY <1>3, <1>6
    <2>2. ASSUME NEW b \in Addrs, \A i \in 1..Len(t.entries) : ~ChangeAt(t.entries, i, b),
                 loaded(t, b) # Nil, ~loaded(t, b).deleted
          PROVE  /\ ~loaded(t, b).selfDestructed /\ ~loaded(t, b).created
                 /\ \A k \in Slots : stateOf(loaded(t, b), t.disk, t.destruct, b, k)
                                       = committedOf(loaded(t, b), t.disk, t.destruct, b, k)
      <3>1. Len(s.entries) + 1 \in 1..Len(t.entries)
        BY <1>3, <1>6
      <3>2. b # a
        BY <1>5, <1>6, <2>2, <3>1 DEF ChangeAt, a
      <3>3. \A i \in 1..Len(s.entries) : ~ChangeAt(s.entries, i, b)
        BY <1>3, <1>6, <2>2 DEF ChangeAt
      <3>4. loaded(t, b) = loaded(s, b) /\ (b \in t.destruct <=> b \in s.destruct)
        BY <1>5, <3>2 DEF loaded
      <3>5. /\ ~loaded(s, b).selfDestructed /\ ~loaded(s, b).created
            /\ \A k \in Slots : stateOf(loaded(s, b), s.disk, s.destruct, b, k)
                                  = committedOf(loaded(s, b), s.disk, s.destruct, b, k)
        BY <1>1, <2>2, <3>3, <3>4, Zenon DEF Clean
      <3>6. \A x, k : /\ committedOf(x, t.disk, t.destruct, b, k) = committedOf(x, s.disk, s.destruct, b, k)
                      /\ stateOf(x, t.disk, t.destruct, b, k) = stateOf(x, s.disk, s.destruct, b, k)
        BY <1>5, <3>4, ZenonT(60) DEF committedOf, stateOf
      <3> QED BY <3>4, <3>5, <3>6, Zenon
    <2> QED BY <2>1, <2>2, Zenon DEF Clean
  <1>8. Kept(t)
    BY <1>1, <1>2, <1>3, <1>4, <1>6, <1>7, KeptFollows
  <1> QED BY <1>2, <1>3, <1>4, <1>8 DEF Sound

\* t is s with an entry that concerns no account.
Noted(s, t, e) ==
    /\ e \in Entry /\ e.change \notin AccountChanges
    /\ t \in DB /\ t.disk = s.disk /\ t.objects = s.objects /\ t.destruct = s.destruct
    /\ t.dirties = s.dirties /\ t.entries = Append(s.entries, e)
    /\ t.logs = s.logs + IF e.change = "log" THEN 1 ELSE 0
    /\ undoneRefund(t.refund, e) = s.refund /\ undoneTransient(t.transient, e) = s.transient
    /\ undoneAccess(t.access, e) = s.access /\ Listed(t.access, t.entries)

\* So does one that writes refund, logs, transient storage or access list.
LEMMA NotedSound ==
  ASSUME NEW s, Sound(s), NEW t, NEW e, Noted(s, t, e)
  PROVE  Sound(t) /\ Follows(t, s, 0)
  <1> DEFINE r == undoLast(t)
  <1>1. Good(s) /\ Kept(s) /\ Clean(s) /\ s \in DB
    BY SoundFacts
  <1>2. /\ e \in Entry /\ e.change \notin AccountChanges
        /\ t \in DB /\ t.disk = s.disk /\ t.objects = s.objects /\ t.destruct = s.destruct
        /\ t.dirties = s.dirties /\ t.entries = Append(s.entries, e)
        /\ t.logs = s.logs + IF e.change = "log" THEN 1 ELSE 0
        /\ undoneRefund(t.refund, e) = s.refund /\ undoneTransient(t.transient, e) = s.transient
        /\ undoneAccess(t.access, e) = s.access /\ Listed(t.access, t.entries)
    BY DEF Noted
  <1>3. /\ s.entries \in Seq(Entry) /\ Len(s.entries) \in Nat /\ s.dirties \in [Addrs -> Int] /\ s.logs \in Int
    BY <1>1, DBFacts
  <1>4. e.change # "create" /\ (e \in LogEntries <=> e.change = "log") /\ \A b \in Addrs : e \notin ChangesOf(b)
    BY <1>2 DEF AccountChanges, LogEntries, ChangesOf
  <1>5. Good(t)
    <2>1. \A b \in Addrs : t.dirties[b] = s.dirties[b] + IF e \in ChangesOf(b) THEN bump(e) ELSE 0
      BY <1>2, <1>3, <1>4
    <2>2. t.logs = s.logs + IF e \in LogEntries THEN 1 ELSE 0
      BY <1>2, <1>4
    <2> QED BY <1>1, <1>2, <1>4, <2>1, <2>2, GoodEntry
  <1>6. /\ r \in DB /\ r.disk = t.disk
        /\ r.objects = undoneObjects(t.objects, e) /\ r.destruct = undoneDestruct(t.destruct, e)
        /\ r.refund = undoneRefund(t.refund, e) /\ r.logs = undoneLogs(t.logs, e)
        /\ r.transient = undoneTransient(t.transient, e)
        /\ r.access = undoneAccess(t.access, e)
        /\ r.dirties = undoneDirties(t.dirties, e)
        /\ r.entries = s.entries
        /\ Len(t.entries) = Len(s.entries) + 1
    BY <1>1, <1>2, <1>5, UndoneFacts
  <1> HIDE DEF r
  <1>7. r.objects = s.objects /\ r.destruct = s.destruct /\ r.dirties = s.dirties
    BY <1>2, <1>6 DEF undoneObjects, undoneDestruct, undoneDirties, AccountChanges, ObjectChanges
  <1>8. r.logs = s.logs
    BY <1>2, <1>3, <1>6 DEF undoneLogs
  <1>9. Same(r, s, 0)
    <2>1. \A b \in Addrs : r.dirties[b] = s.dirties[b] + IF b = Ripemd THEN 0 ELSE 0
      BY <1>3, <1>7
    <2>2. \A b \in Addrs : loaded(r, b) = loaded(s, b)
      BY <1>2, <1>6, <1>7 DEF loaded
    <2>3. \A b \in Addrs : SameObject(loaded(r, b), loaded(s, b), s.disk, s.destruct, b)
      BY <2>2, SameReflexive
    <2> QED BY <1>2, <1>6, <1>7, <1>8, <2>1, <2>3 DEF Same
  <1>10. Follows(t, s, 0)
    BY <1>1, <1>5, <1>6, <1>9, FollowsUndone DEF r
  <1>11. Clean(t)
    <2>1. Len(t.entries) # 0
      BY <1>3, <1>6
    <2>2. \A i \in 1..Len(s.entries) : i \in 1..Len(t.entries) /\ t.entries[i] = s.entries[i]
      BY <1>2, <1>3, <1>6, AppendFacts
    <2>3. \A b \in Addrs : (\A i \in 1..Len(t.entries) : ~ChangeAt(t.entries, i, b)) =>
                              \A i \in 1..Len(s.entries) : ~ChangeAt(s.entries, i, b)
      BY <2>2 DEF ChangeAt
    <2>4. \A b \in Addrs : loaded(t, b) = loaded(s, b)
      BY <1>2 DEF loaded
    <2> QED BY <1>1, <1>2, <2>1, <2>3, <2>4, Zenon DEF Clean
  <1>12. Kept(t)
    BY <1>1, <1>3, <1>5, <1>6, <1>10, <1>11, KeptFollows
  <1> QED BY <1>5, <1>10, <1>12 DEF Sound

(***************************************************************************)
(* Reading: an object is loaded, a slot remembered.                         *)
(***************************************************************************)
LEMMA SoundSame ==
  ASSUME NEW s, Sound(s), NEW t, Good(t), Same(t, s, 0)
  PROVE  Sound(t) /\ Follows(t, s, 0)
  <1>1. Good(s) /\ Kept(s) /\ Clean(s) /\ s \in DB
    BY SoundFacts
  <1>2. Follows(t, s, 0)
    BY <1>1, FollowsSame
  <1>3. Clean(t)
    BY <1>1, CleanSame
  <1>4. Len(t.entries) <= Len(s.entries) + 1
    <2>1. t.entries = s.entries /\ Len(s.entries) \in Nat
      BY <1>1, DBFacts DEF Same
    <2> QED BY <2>1
  <1> QED BY <1>1, <1>2, <1>3, <1>4, KeptFollows DEF Sound

\* An object is put in the place of one that reads the same.
LEMMA PutSame ==
  ASSUME NEW s, Sound(s), NEW a \in Addrs, NEW o \in Object \cup {Nil}, s.objects[a] # Nil => o # Nil,
         SameObject(loadedObject(o, s.disk[a]), loaded(s, a), s.disk, s.destruct, a)
  PROVE  LET t == [s EXCEPT !.objects[a] = o]
         IN  /\ Sound(t) /\ Follows(t, s, 0) /\ Same(t, s, 0) /\ t.disk = s.disk /\ t.destruct = s.destruct
             /\ t.objects[a] = o
  <1> DEFINE t == [s EXCEPT !.objects[a] = o]
  <1>1. Good(s) /\ s \in DB
    BY SoundFacts
  <1>2. /\ t \in DB /\ t.disk = s.disk /\ t.destruct = s.destruct /\ t.refund = s.refund /\ t.logs = s.logs
        /\ t.transient = s.transient /\ t.access = s.access /\ t.entries = s.entries
        /\ t.dirties = s.dirties
        /\ t.objects[a] = o /\ \A b \in Addrs : b # a => t.objects[b] = s.objects[b]
    BY <1>1, PutObject
  <1> HIDE DEF t
  <1>3. Good(t)
    <2>1. \A b \in Addrs : s.objects[b] # Nil => t.objects[b] # Nil
      BY <1>2
    <2>2. Present(t)
      BY <1>1, <1>2, <2>1 DEF Good, Present
    <2>3. Counted(t)
      BY <1>1, <1>2 DEF Good, Counted
    <2> QED BY <1>1, <1>2, <2>2, <2>3 DEF Good
  <1>4. Same(t, s, 0)
    <2>1. \A b \in Addrs : t.dirties[b] = s.dirties[b] + IF b = Ripemd THEN 0 ELSE 0
      <3>1. s.dirties \in [Addrs -> Int]
        BY <1>1, DBFacts
      <3> QED BY <1>2, <3>1
    <2>2. \A b \in Addrs : SameObject(loaded(t, b), loaded(s, b), s.disk, s.destruct, b)
      <3> TAKE b \in Addrs
      <3>1. CASE b = a
        BY <1>2, <3>1 DEF loaded
      <3>2. CASE b # a
        <4>1. loaded(t, b) = loaded(s, b)
          BY <1>2, <3>2 DEF loaded
        <4> QED BY <4>1, SameReflexive
      <3> QED BY <3>1, <3>2
    <2> QED BY <1>2, <2>1, <2>2 DEF Same
  <1>5. Sound(t) /\ Follows(t, s, 0)
    BY <1>3, <1>4, SoundSame
  <1> QED BY <1>2, <1>4, <1>5 DEF t

\* Loading an account from disk keeps all readings, and those of all reverts.
LEMMA LoadFacts ==
  ASSUME NEW s, Sound(s), NEW a \in Addrs, NEW t, t = load(s, a)
  PROVE  /\ Sound(t) /\ Follows(t, s, 0) /\ Same(t, s, 0) /\ t.disk = s.disk /\ t.destruct = s.destruct
         /\ t.objects[a] = loaded(s, a) /\ loaded(s, a) \in Object \cup {Nil}
         /\ t.objects[a] = Nil => s.disk[a] = Nil
  <1>1. Good(s) /\ s \in DB
    BY SoundFacts
  <1>2. s.objects \in [Addrs -> Object \cup {Nil}] /\ s.disk[a] \in Account \cup {Nil}
    BY <1>1, DBFacts
  <1>3. CASE s.objects[a] = Nil /\ s.disk[a] # Nil
    <2> DEFINE o == newObject(s.disk[a])
    <2>1. t = [s EXCEPT !.objects[a] = o]
      BY <1>3, Zenon DEF load
    <2>2. o \in Object /\ o # Nil
      BY <1>2, NewObjectFacts
    <2>3. loaded(s, a) = o
      BY <1>3 DEF loaded, loadedObject
    <2> HIDE DEF o
    <2>4. loadedObject(o, s.disk[a]) = o
      BY <2>2 DEF loadedObject
    <2>5. SameObject(loadedObject(o, s.disk[a]), loaded(s, a), s.disk, s.destruct, a)
      BY <2>3, <2>4, SameReflexive
    <2>6. /\ Sound(t) /\ Follows(t, s, 0) /\ Same(t, s, 0) /\ t.disk = s.disk /\ t.destruct = s.destruct
          /\ t.objects[a] = o
      <3>1. o \in Object \cup {Nil} /\ (s.objects[a] # Nil => o # Nil)
        BY <2>2
      <3> QED BY <2>1, <2>5, <3>1, PutSame
    <2> QED BY <2>2, <2>3, <2>6
  <1>4. CASE ~(s.objects[a] = Nil /\ s.disk[a] # Nil)
    <2>1. t = s
      BY <1>4, Zenon DEF load
    <2>2. loaded(s, a) = s.objects[a]
      BY <1>4 DEF loaded, loadedObject
    <2>3. Same(s, s, 0)
      <3>1. \A b \in Addrs : s.dirties[b] = s.dirties[b] + IF b = Ripemd THEN 0 ELSE 0
        <4>1. s.dirties \in [Addrs -> Int]
          BY <1>1, DBFacts
        <4> QED BY <4>1
      <3> QED BY <3>1, SameReflexive DEF Same
    <2>4. Sound(s) /\ Follows(s, s, 0)
      BY <1>1, <2>3, SoundSame
    <2> QED BY <1>2, <1>4, <2>1, <2>2, <2>3, <2>4
  <1> QED BY <1>3, <1>4

\* So does remembering a slot in the cache of original values.
LEMMA CacheFacts ==
  ASSUME NEW s, Sound(s), NEW a \in Addrs, NEW k \in Slots, s.objects[a] # Nil, NEW t, t = cache(s, a, k)
  PROVE  /\ Sound(t) /\ Follows(t, s, 0) /\ Same(t, s, 0) /\ t.disk = s.disk /\ t.destruct = s.destruct
         /\ t.objects[a] # Nil
  <1> DEFINE o == s.objects[a]
  <1>1. Good(s) /\ s \in DB
    BY SoundFacts
  <1>2. o \in Object /\ s.disk \in [Addrs -> Account \cup {Nil}]
    BY <1>1, DBFacts
  <1>3. CASE o.dirty[k] = Nil /\ o.pending[k] = Nil /\ o.origin[k] = Nil /\ a \notin s.destruct
    <2> DEFINE v == CommittedState(s, a, k)
               p == [o EXCEPT !.origin[k] = v]
    <2>1. t = [s EXCEPT !.objects[a] = p]
      BY <1>3, Zenon DEF cache
    <2>2. v = committedOf(o, s.disk, s.destruct, a, k) /\ v \in Values
      BY <1>2, ReadFacts, ReadType
    <2> HIDE DEF v, o
    <2>3. /\ p \in Object /\ p.balance = o.balance /\ p.nonce = o.nonce /\ p.code = o.code
          /\ p.selfDestructed = o.selfDestructed /\ p.deleted = o.deleted /\ p.created = o.created
          /\ p.dirty = o.dirty /\ p.pending = o.pending /\ p.origin = [o.origin EXCEPT ![k] = v]
          /\ o.origin \in [Slots -> Values \cup {Nil}]
      BY <1>2, <2>2 DEF Object
    <2> HIDE DEF p
    <2>4. p # Nil /\ o # Nil
      BY <1>2, <2>3, NilFacts
    <2>5. \A l \in Slots : committedOf(p, s.disk, s.destruct, a, l) = committedOf(o, s.disk, s.destruct, a, l)
      <3> TAKE l \in Slots
      <3>1. CASE l = k
        <4>1. p.origin[l] = v /\ v # Nil /\ p.pending[l] = Nil
          BY <1>3, <2>2, <2>3, <3>1, NilFacts
        <4>2. committedOf(p, s.disk, s.destruct, a, l) = v
          BY <4>1 DEF committedOf
        <4> QED BY <2>2, <3>1, <4>2
      <3>2. CASE l # k
        <4>1. p.origin[l] = o.origin[l]
          BY <2>3, <3>2
        <4> QED BY <2>3, <4>1, Zenon DEF committedOf
      <3> QED BY <3>1, <3>2
    <2>6. \A l \in Slots : stateOf(p, s.disk, s.destruct, a, l) = stateOf(o, s.disk, s.destruct, a, l)
      BY <2>3, <2>5, Zenon DEF stateOf
    <2>7. SameObject(p, o, s.disk, s.destruct, a)
      BY <2>3, <2>4, <2>5, <2>6, Zenon DEF SameObject
    <2>8. loadedObject(p, s.disk[a]) = p /\ loaded(s, a) = o
      BY <2>4 DEF loadedObject, loaded, o
    <2>9. SameObject(loadedObject(p, s.disk[a]), loaded(s, a), s.disk, s.destruct, a)
      BY <2>7, <2>8
    <2> QED BY <2>1, <2>3, <2>4, <2>9, PutSame
  <1>4. CASE ~(o.dirty[k] = Nil /\ o.pending[k] = Nil /\ o.origin[k] = Nil /\ a \notin s.destruct)
    <2>1. t = s
      BY <1>4, Zenon DEF cache
    <2>2. Same(s, s, 0)
      <3>1. \A b \in Addrs : s.dirties[b] = s.dirties[b] + IF b = Ripemd THEN 0 ELSE 0
        <4>1. s.dirties \in [Addrs -> Int]
          BY <1>1, DBFacts
        <4> QED BY <4>1
      <3> QED BY <3>1, SameReflexive DEF Same
    <2> QED BY <1>1, <2>1, <2>2, SoundSame
  <1> QED BY <1>3, <1>4

(***************************************************************************)
(* What the operations write.                                               *)
(***************************************************************************)
LEMMA CreateWrote ==
  ASSUME NEW s, Sound(s), NEW a \in Addrs, s.objects[a] = Nil => s.disk[a] = Nil
  PROVE  \E e : /\ Remembers(s, e, newObject(Nil)) /\ Wrote(s, createObject(s, a), e, newObject(Nil))
                /\ e.account = a /\ e.change \in {"create", "reset"} /\ bump(e) = 1
                /\ e.change = "reset" <=> s.objects[a] # Nil
  <1> DEFINE o == newObject(Nil)
  <1>1. s \in DB
    BY SoundFacts
  <1>2. s.objects \in [Addrs -> Object \cup {Nil}] /\ s.destruct \in SUBSET Addrs
    BY <1>1, DBFacts
  <1>3. o \in Object /\ o # Nil
    BY NewObjectFacts
  <1> HIDE DEF o
  <1>4. CASE s.objects[a] = Nil
    <2> DEFINE e == [change |-> "create", account |-> a]
    <2>1. e \in Entry /\ e.change = "create" /\ e.account = a
      BY DEF Entry
    <2>2. createObject(s, a) = [journal(s, e) EXCEPT !.objects[a] = o]
      BY <1>4, Zenon DEF createObject, o
    <2> HIDE DEF e
    <2>3. e.change \in AccountChanges \ {"touch", "reset"} /\ e.change \notin ObjectChanges
      BY <2>1 DEF AccountChanges, ObjectChanges
    <2>4. Wrote(s, [journal(s, e) EXCEPT !.objects[e.account] = o], e, o)
      BY <1>1, <1>3, <2>1, <2>3, WriteFacts
    <2>5. Wrote(s, createObject(s, a), e, o)
      BY <2>1, <2>2, <2>4
    <2>6. Remembers(s, e, o)
      BY <1>3, <1>4, <2>1, <2>3 DEF Remembers
    <2>7. bump(e) = 1
      BY <2>1 DEF bump
    <2> QED BY <1>4, <2>1, <2>5, <2>6, <2>7 DEF o
  <1>5. CASE s.objects[a] # Nil
    <2> DEFINE x == s.objects[a]
               e == [change |-> "reset", account |-> a, prev |-> x, prevdestruct |-> a \in s.destruct]
    <2>1. x \in Object
      BY <1>2, <1>5
    <2>2. \A p \in BOOLEAN : LET f == [change |-> "reset", account |-> a, prev |-> x, prevdestruct |-> p]
                             IN  f \in Entry /\ f.prevdestruct = p
      BY <2>1 DEF Entry
    <2>3. (a \in s.destruct) \in BOOLEAN
      OBVIOUS
    <2>4. e \in Entry /\ e.prevdestruct = (a \in s.destruct)
      BY <2>2, <2>3, Zenon
    <2>5. e.change = "reset" /\ e.account = a /\ e.prev = x
      OBVIOUS
    <2>6. createObject(s, a) = [[journal(s, e) EXCEPT !.destruct = @ \cup {a}] EXCEPT !.objects[a] = o]
      BY <1>5, Zenon DEF createObject, o
    <2> HIDE DEF e
    <2>7. Wrote(s, [[journal(s, e) EXCEPT !.destruct = @ \cup {e.account}] EXCEPT !.objects[e.account] = o], e, o)
      BY <1>1, <1>3, <2>4, <2>5, ResetFacts, Zenon
    <2>8. Wrote(s, createObject(s, a), e, o)
      BY <2>5, <2>6, <2>7, Zenon
    <2>9. Remembers(s, e, o)
      <3>1. /\ e.change \in AccountChanges /\ e.change \notin ObjectChanges /\ e.change # "touch"
            /\ e.change # "create"
        BY <2>5 DEF AccountChanges, ObjectChanges
      <3>2. e.prevdestruct <=> a \in s.destruct
        BY <2>4, Zenon
      <3> QED BY <1>3, <1>5, <2>4, <2>5, <3>1, <3>2, Zenon DEF Remembers
    <2>10. bump(e) = 1
      BY <2>5 DEF bump
    <2> QED BY <1>5, <2>5, <2>8, <2>9, <2>10 DEF o
  <1> QED BY <1>4, <1>5

\* The object that was written is written anew.
LEMMA WroteAnew ==
  ASSUME NEW s, NEW t, NEW e \in Entry, e.change \in AccountChanges, NEW o, NEW p \in Object,
         Wrote(s, t, e, o), s \in DB
  PROVE  Wrote(s, [t EXCEPT !.objects[e.account] = p], e, p)
  <1> DEFINE a == e.account
             u == [t EXCEPT !.objects[a] = p]
  <1>1. a \in Addrs /\ t \in DB /\ s.objects \in [Addrs -> Object \cup {Nil}]
    BY EntryFacts, DBFacts DEF AccountChanges, Wrote
  <1>2. /\ u \in DB /\ u.disk = t.disk /\ u.destruct = t.destruct /\ u.refund = t.refund /\ u.logs = t.logs
        /\ u.transient = t.transient /\ u.access = t.access /\ u.entries = t.entries
        /\ u.dirties = t.dirties /\ u.objects = [t.objects EXCEPT ![a] = p]
    BY <1>1, PutObject
  <1> HIDE DEF u
  <1>3. u.objects = [s.objects EXCEPT ![a] = p]
    <2>1. t.objects = [s.objects EXCEPT ![a] = o]
      BY DEF Wrote
    <2> QED BY <1>1, <1>2, <2>1
  <1>4. Wrote(s, u, e, p)
    BY <1>2, <1>3 DEF Wrote
  <1> QED BY <1>4 DEF u

\* setBalance, setNonce and setCode are such writes.
LEMMA FieldWrote ==
  ASSUME NEW s, Sound(s), NEW a \in Addrs, s.objects[a] # Nil, NEW f \in {"balance", "nonce", "code"},
         NEW v \in Nat, f = "code" => v \in {0, 1}
  PROVE  LET o == [s.objects[a] EXCEPT ![f] = v]
         IN  \E e : /\ Remembers(s, e, o) /\ Wrote(s, setField(s, a, f, v), e, o)
                    /\ e.account = a /\ e.change = f /\ bump(e) = 1
  <1> DEFINE x == s.objects[a]
             o == [x EXCEPT ![f] = v]
             e == [change |-> f, account |-> a, prev |-> x[f]]
             t == setField(s, a, f, v)
  <1>1. s \in DB
    BY SoundFacts
  <1>2. x \in Object
    BY <1>1, DBFacts
  <1> HIDE DEF x
  <1>3. x[f] \in Nat /\ (f = "code" => x[f] \in {0, 1})
    BY <1>2 DEF Object
  <1>4. e \in Entry /\ e.change = f /\ e.account = a /\ e.prev = x[f]
    BY <1>3 DEF Entry
  <1>5. o \in Object /\ [o EXCEPT ![f] = x[f]] = x
    BY <1>2 DEF Object
  <1>6. t = [journal(s, e) EXCEPT !.objects[a][f] = v]
    BY Zenon DEF setField, x
  <1> HIDE DEF e, o, t
  <1>7. e.change \in AccountChanges \ {"touch", "reset"} /\ e.change \in ObjectChanges /\ e.change # "create"
        /\ e.change \notin {"selfDestruct", "storage"}
    BY <1>4 DEF AccountChanges, ObjectChanges
  <1>8. journal(s, e).objects = s.objects
    BY <1>1, <1>4, JournalFacts
  <1>9. t = [journal(s, e) EXCEPT !.objects[a] = o]
    <2>1. t = [journal(s, e) EXCEPT !.objects[a] = [journal(s, e).objects[a] EXCEPT ![f] = v]]
      BY <1>6, Zenon
    <2>2. o = [journal(s, e).objects[a] EXCEPT ![f] = v]
      BY <1>8, Zenon DEF o, x
    <2> QED BY <2>1, <2>2, Zenon
  <1>10. Wrote(s, [journal(s, e) EXCEPT !.objects[e.account] = o], e, o)
    BY <1>1, <1>4, <1>5, <1>7, WriteFacts
  <1>11. Wrote(s, t, e, o)
    BY <1>4, <1>9, <1>10
  <1>12. undoneObject(o, e) = x
    BY <1>4, <1>5, <1>7 DEF undoneObject
  <1>13. Remembers(s, e, o)
    BY <1>4, <1>5, <1>7, <1>12, SameReflexive DEF Remembers, x
  <1>14. bump(e) = 1
    BY <1>7 DEF bump
  <1> QED BY <1>4, <1>11, <1>13, <1>14, Zenon DEF t, o, x

\* SelfDestruct is such a write.
LEMMA DestructWrote ==
  ASSUME NEW s, Sound(s), NEW a \in Addrs, s.objects[a] # Nil
  PROVE  LET o == [s.objects[a] EXCEPT !.selfDestructed = TRUE, !.balance = 0]
         IN  \E e : /\ Remembers(s, e, o) /\ Wrote(s, selfDestruct(s, a), e, o)
                    /\ e.account = a /\ e.change = "selfDestruct" /\ bump(e) = 1
  <1> DEFINE x == s.objects[a]
             o == [x EXCEPT !.selfDestructed = TRUE, !.balance = 0]
             e == [change |-> "selfDestruct", account |-> a, prev |-> x.selfDestructed,
                   prevbalance |-> x.balance]
             t == selfDestruct(s, a)
             J == journal(s, e)
  <1>1. s \in DB
    BY SoundFacts
  <1>2. x \in Object /\ x.selfDestructed \in BOOLEAN /\ x.balance \in Nat
    BY <1>1, DBFacts, ObjectFacts
  <1> HIDE DEF x
  <1>3. \A p \in BOOLEAN : LET f == [change |-> "selfDestruct", account |-> a, prev |-> p, prevbalance |-> x.balance]
                           IN  f \in Entry /\ f.prev = p
    BY <1>2 DEF Entry
  <1>4. e \in Entry /\ e.prev = x.selfDestructed
    BY <1>2, <1>3, Zenon
  <1>5. e.change = "selfDestruct" /\ e.account = a /\ e.prevbalance = x.balance
    OBVIOUS
  <1>6. t = [J EXCEPT !.objects[a].selfDestructed = TRUE, !.objects[a].balance = 0]
    BY Zenon DEF selfDestruct, x
  <1> HIDE DEF e, t
  <1>7. e.change \in AccountChanges \ {"touch", "reset"} /\ e.change \in ObjectChanges /\ e.change # "create"
    BY <1>5 DEF AccountChanges, ObjectChanges
  <1>8. J \in DB /\ J.objects = s.objects
    BY <1>1, <1>4, JournalFacts
  <1> HIDE DEF J
  <1> DEFINE p == [x EXCEPT !.selfDestructed = TRUE]
             J1 == [J EXCEPT !.objects[a] = p]
             J2 == [J1 EXCEPT !.objects[a] = [J1.objects[a] EXCEPT !.balance = 0]]
  <1>9. o = [p EXCEPT !.balance = 0] /\ t = J2
    <2>1. J.objects[a] = x
      BY <1>8 DEF x
    <2> QED BY <1>6, <2>1, Zenon
  <1>10. p \in Object
    <2>1. \A y \in BOOLEAN : [x EXCEPT !.selfDestructed = y] \in Object
      BY <1>2 DEF Object
    <2> QED BY <2>1, Zenon
  <1> HIDE DEF p
  <1>11. o \in Object
    BY <1>9, <1>10 DEF Object
  <1>12. J1 \in DB /\ J1.objects[a] = p /\ J1.objects = [s.objects EXCEPT ![a] = p]
         /\ J1.disk = J.disk /\ J1.destruct = J.destruct /\ J1.refund = J.refund /\ J1.logs = J.logs
         /\ J1.transient = J.transient /\ J1.access = J.access /\ J1.entries = J.entries
         /\ J1.dirties = J.dirties
    BY <1>8, <1>10, PutObject
  <1> HIDE DEF J1, o
  <1>13. t = [J1 EXCEPT !.objects[a] = o]
    BY <1>9, <1>12, Zenon
  <1>14. [J1 EXCEPT !.objects[a] = o] = [J EXCEPT !.objects[a] = o]
    <2>1. [[s.objects EXCEPT ![a] = p] EXCEPT ![a] = o] = [s.objects EXCEPT ![a] = o]
      BY <1>1, DBFacts
    <2>2. [J1 EXCEPT !.objects[a] = o] = [J1 EXCEPT !.objects = [s.objects EXCEPT ![a] = o]]
      BY <1>12, <2>1, Zenon
    <2>3. ASSUME NEW m PROVE [J1 EXCEPT !.objects = m] = [J EXCEPT !.objects = m]
      BY <1>8, <1>12 DEF DB
    <2>4. [J EXCEPT !.objects[a] = o] = [J EXCEPT !.objects = [s.objects EXCEPT ![a] = o]]
      BY <1>8, Zenon
    <2> QED BY <2>2, <2>3, <2>4, Zenon
  <1>15. Wrote(s, [journal(s, e) EXCEPT !.objects[e.account] = o], e, o)
    BY <1>1, <1>4, <1>7, <1>11, WriteFacts
  <1>16. Wrote(s, t, e, o)
    BY <1>5, <1>13, <1>14, <1>15, Zenon DEF J
  <1>17. undoneObject(o, e) = x
    <2>1. undoneObject(o, e) = [o EXCEPT !.selfDestructed = x.selfDestructed, !.balance = x.balance]
      BY <1>4, <1>5, Zenon DEF undoneObject
    <2>2. \A y, z \in BOOLEAN : [[x EXCEPT !.selfDestructed = y, !.balance = 0]
                                   EXCEPT !.selfDestructed = z, !.balance = x.balance]
                                = [x EXCEPT !.selfDestructed = z]
      BY <1>2 DEF Object
    <2>3. [x EXCEPT !.selfDestructed = x.selfDestructed] = x
      BY <1>2 DEF Object
    <2>4. TRUE \in BOOLEAN
      OBVIOUS
    <2> QED BY <1>2, <2>1, <2>2, <2>3, <2>4, Zenon DEF o
  <1>18. Remembers(s, e, o)
    BY <1>4, <1>5, <1>7, <1>11, <1>17, SameReflexive DEF Remembers, x
  <1>19. bump(e) = 1
    BY <1>5 DEF bump
  <1> QED BY <1>5, <1>16, <1>18, <1>19, Zenon DEF t, o, x

\* SetState is such a write: its entry has the value that was read before.
LEMMA StorageWrote ==
  ASSUME NEW s, Sound(s), NEW a \in Addrs, s.objects[a] # Nil, NEW k \in Slots, NEW v \in Values
  PROVE  LET o == [s.objects[a] EXCEPT !.dirty[k] = v]
             f == [change |-> "storage", account |-> a, key |-> k, prev |-> State(s, a, k)]
         IN  \E e : /\ Remembers(s, e, o)
                    /\ Wrote(s, [journal(s, f) EXCEPT !.objects[a].dirty[k] = v], e, o)
                    /\ e.account = a /\ e.change = "storage" /\ bump(e) = 1
  <1> DEFINE x == s.objects[a]
             o == [x EXCEPT !.dirty[k] = v]
             prev == State(s, a, k)
             e == [change |-> "storage", account |-> a, key |-> k, prev |-> prev]
             t == [journal(s, e) EXCEPT !.objects[a].dirty[k] = v]
             u == undoneObject(o, e)
             c(y, l) == committedOf(y, s.disk, s.destruct, a, l)
             st(y, l) == stateOf(y, s.disk, s.destruct, a, l)
  <1>1. s \in DB
    BY SoundFacts
  <1>2. x \in Object /\ s.disk \in [Addrs -> Account \cup {Nil}]
    BY <1>1, DBFacts
  <1>3. prev = st(x, k) /\ prev \in Values
    BY <1>2, ReadFacts, ReadType
  <1> HIDE DEF x, prev
  <1>4. e \in Entry /\ e.change = "storage" /\ e.account = a /\ e.key = k /\ e.prev = prev
    BY <1>3 DEF Entry
  <1>5. /\ o \in Object /\ o.balance = x.balance /\ o.nonce = x.nonce /\ o.code = x.code
        /\ o.selfDestructed = x.selfDestructed /\ o.deleted = x.deleted /\ o.created = x.created
        /\ o.pending = x.pending /\ o.origin = x.origin /\ o.dirty = [x.dirty EXCEPT ![k] = v]
        /\ x.dirty \in [Slots -> Values \cup {Nil}]
    BY <1>2 DEF Object
  <1> HIDE DEF e, o
  <1>6. e.change \in AccountChanges \ {"touch", "reset"} /\ e.change \in ObjectChanges /\ e.change # "create"
    BY <1>4 DEF AccountChanges, ObjectChanges
  <1>7. journal(s, e).objects = s.objects
    BY <1>1, <1>4, JournalFacts
  <1>8. t = [journal(s, e) EXCEPT !.objects[a] = o]
    <2>1. t = [journal(s, e) EXCEPT !.objects[a] = [journal(s, e).objects[a] EXCEPT !.dirty[k] = v]]
      BY Zenon
    <2>2. o = [journal(s, e).objects[a] EXCEPT !.dirty[k] = v]
      BY <1>7, Zenon DEF o, x
    <2> HIDE DEF t
    <2> QED BY <2>1, <2>2, Zenon
  <1> HIDE DEF t
  <1>9. Wrote(s, [journal(s, e) EXCEPT !.objects[e.account] = o], e, o)
    BY <1>1, <1>4, <1>5, <1>6, WriteFacts
  <1>10. Wrote(s, t, e, o)
    BY <1>4, <1>8, <1>9
  <1>11. /\ u \in Object /\ u.balance = x.balance /\ u.nonce = x.nonce /\ u.code = x.code
         /\ u.selfDestructed = x.selfDestructed /\ u.deleted = x.deleted /\ u.created = x.created
         /\ u.pending = x.pending /\ u.origin = x.origin
         /\ \A l \in Slots : u.dirty[l] = IF l = k THEN prev ELSE x.dirty[l]
    <2>1. u \in Object
      BY <1>4, <1>5, <1>6, UndoneObjectType
    <2>2. /\ u.balance = IF e.change = "balance" THEN e.prev
                         ELSE IF e.change = "selfDestruct" THEN e.prevbalance ELSE o.balance
          /\ u.nonce = IF e.change = "nonce" THEN e.prev ELSE o.nonce
          /\ u.code = IF e.change = "code" THEN e.prev ELSE o.code
          /\ u.selfDestructed = IF e.change = "selfDestruct" THEN e.prev ELSE o.selfDestructed
          /\ u.deleted = o.deleted /\ u.created = o.created
          /\ u.pending = o.pending /\ u.origin = o.origin
          /\ \A l \in Slots : u.dirty[l] = IF e.change = "storage" /\ l = e.key THEN e.prev ELSE o.dirty[l]
      BY <1>4, <1>5, <1>6, UndoneFields, Zenon
    <2> HIDE DEF u
    <2>3. /\ u.balance = o.balance /\ u.nonce = o.nonce /\ u.code = o.code
          /\ u.selfDestructed = o.selfDestructed
          /\ \A l \in Slots : u.dirty[l] = IF l = k THEN prev ELSE o.dirty[l]
      BY <1>4, <2>2
    <2>4. \A l \in Slots : l # k => o.dirty[l] = x.dirty[l]
      BY <1>5
    <2>5. \A l \in Slots : u.dirty[l] = IF l = k THEN prev ELSE x.dirty[l]
      BY <2>3, <2>4
    <2> QED BY <1>5, <2>1, <2>2, <2>3, <2>5
  <1> HIDE DEF u
  <1>12. SameObject(u, x, s.disk, s.destruct, a)
    <2>1. \A l \in Slots : c(u, l) = c(x, l)
      BY <1>11, Zenon DEF committedOf
    <2>2. ASSUME NEW l \in Slots PROVE st(u, l) = st(x, l)
      <3>1. CASE l = k
        <4>1. u.dirty[l] = prev /\ prev # Nil
          BY <1>3, <1>11, <3>1, NilFacts
        <4>2. st(u, l) = prev
          BY <4>1 DEF stateOf
        <4> QED BY <1>3, <3>1, <4>2
      <3>2. CASE l # k
        <4>1. u.dirty[l] = x.dirty[l]
          BY <1>11, <3>2
        <4> QED BY <2>1, <4>1, Zenon DEF stateOf
      <3> QED BY <3>1, <3>2
    <2>3. u # Nil /\ x # Nil
      BY <1>2, <1>11, NilFacts
    <2> QED BY <1>11, <2>1, <2>2, <2>3, Zenon DEF SameObject
  <1>13. Remembers(s, e, o)
    BY <1>4, <1>5, <1>6, <1>12 DEF Remembers, x, u
  <1>14. bump(e) = 1
    BY <1>4 DEF bump
  <1> QED BY <1>4, <1>10, <1>13, <1>14, Zenon DEF t, o, x, e, prev

(***************************************************************************)
(* What the other operations note.                                          *)
(***************************************************************************)
LEMMA RefundNoted ==
  ASSUME NEW s, Sound(s), NEW n \in Nat
  PROVE  LET e == [change |-> "refund", prev |-> s.refund]
             t == [journal(s, e) EXCEPT !.refund = n]
         IN  /\ Noted(s, t, e) /\ t.refund = n /\ t.logs = s.logs /\ t.transient = s.transient
             /\ t.access = s.access
  <1> DEFINE e == [change |-> "refund", prev |-> s.refund]
             u == journal(s, e)
             t == [u EXCEPT !.refund = n]
  <1>1. Good(s) /\ s \in DB
    BY SoundFacts
  <1>2. s.refund \in Nat /\ s.logs \in Int /\ s.access \in AccessList /\ s.entries \in Seq(Entry)
    BY <1>1, DBFacts
  <1>3. e \in Entry /\ e.change = "refund" /\ e.prev = s.refund
    BY <1>2 DEF Entry
  <1> HIDE DEF e
  <1>4. /\ u \in DB /\ u.disk = s.disk /\ u.objects = s.objects /\ u.destruct = s.destruct
        /\ u.refund = s.refund /\ u.logs = s.logs /\ u.transient = s.transient
        /\ u.access = s.access /\ u.entries = Append(s.entries, e)
        /\ u.dirties = IF e.change \in AccountChanges
                       THEN [s.dirties EXCEPT ![e.account] = s.dirties[e.account] + 1] ELSE s.dirties
    BY <1>1, <1>3, JournalFacts, Zenon
  <1> HIDE DEF u
  <1>5. /\ t \in DB /\ t.disk = u.disk /\ t.objects = u.objects /\ t.destruct = u.destruct
        /\ t.refund = n /\ t.logs = u.logs /\ t.transient = u.transient
        /\ t.access = u.access /\ t.entries = u.entries /\ t.dirties = u.dirties
    BY <1>4 DEF DB
  <1> HIDE DEF t
  <1>6. e.change \notin AccountChanges /\ e.change \notin ListChanges
    BY <1>3 DEF AccountChanges, ListChanges
  <1>7. /\ undoneRefund(t.refund, e) = s.refund /\ undoneTransient(t.transient, e) = s.transient
        /\ undoneAccess(t.access, e) = s.access
    BY <1>3, <1>4, <1>5 DEF undoneRefund, undoneTransient, undoneAccess
  <1>8. Listed(t.access, t.entries)
    BY <1>1, <1>2, <1>3, <1>4, <1>5, <1>6, ListedAppend DEF Good
  <1>9. t.logs = s.logs + IF e.change = "log" THEN 1 ELSE 0
    BY <1>2, <1>3, <1>4, <1>5
  <1>10. Noted(s, t, e)
    BY <1>3, <1>4, <1>5, <1>6, <1>7, <1>8, <1>9 DEF Noted
  <1> QED BY <1>4, <1>5, <1>10 DEF t, u, e

\* AddLog.
LEMMA LogNoted ==
  ASSUME NEW s, Sound(s)
  PROVE  LET e == [change |-> "log"]
             t == [journal(s, e) EXCEPT !.logs = @ + 1]
         IN  /\ Noted(s, t, e) /\ t.refund = s.refund /\ t.logs = s.logs + 1 /\ t.transient = s.transient
             /\ t.access = s.access
  <1> DEFINE e == [change |-> "log"]
             u == journal(s, e)
             n == s.logs + 1
             t == [u EXCEPT !.logs = n]
  <1>1. Good(s) /\ s \in DB
    BY SoundFacts
  <1>2. s.refund \in Nat /\ s.logs \in Int /\ s.access \in AccessList /\ s.entries \in Seq(Entry) /\ n \in Int
    BY <1>1, DBFacts
  <1>3. e \in Entry /\ e.change = "log"
    BY DEF Entry
  <1> HIDE DEF e
  <1>4. /\ u \in DB /\ u.disk = s.disk /\ u.objects = s.objects /\ u.destruct = s.destruct
        /\ u.refund = s.refund /\ u.logs = s.logs /\ u.transient = s.transient
        /\ u.access = s.access /\ u.entries = Append(s.entries, e)
        /\ u.dirties = IF e.change \in AccountChanges
                       THEN [s.dirties EXCEPT ![e.account] = s.dirties[e.account] + 1] ELSE s.dirties
    BY <1>1, <1>3, JournalFacts, Zenon
  <1>0. t = [u EXCEPT !.logs = @ + 1]
    BY <1>4, Zenon
  <1> HIDE DEF u, n
  <1>5. /\ t \in DB /\ t.disk = u.disk /\ t.objects = u.objects /\ t.destruct = u.destruct
        /\ t.refund = u.refund /\ t.logs = n /\ t.transient = u.transient
        /\ t.access = u.access /\ t.entries = u.entries /\ t.dirties = u.dirties
    BY <1>2, <1>4 DEF DB
  <1> HIDE DEF t
  <1>6. e.change \notin AccountChanges /\ e.change \notin ListChanges
    BY <1>3 DEF AccountChanges, ListChanges
  <1>7. /\ undoneRefund(t.refund, e) = s.refund /\ undoneTransient(t.transient, e) = s.transient
        /\ undoneAccess(t.access, e) = s.access
    BY <1>3, <1>4, <1>5 DEF undoneRefund, undoneTransient, undoneAccess
  <1>8. Listed(t.access, t.entries)
    BY <1>1, <1>2, <1>3, <1>4, <1>5, <1>6, ListedAppend DEF Good
  <1>9. t.logs = s.logs + IF e.change = "log" THEN 1 ELSE 0
    BY <1>2, <1>3, <1>5 DEF n
  <1>10. Noted(s, t, e)
    BY <1>3, <1>4, <1>5, <1>6, <1>7, <1>8, <1>9 DEF Noted
  <1>11. /\ Noted(s, t, e) /\ t.refund = s.refund /\ t.logs = s.logs + 1 /\ t.transient = s.transient
         /\ t.access = s.access
    BY <1>4, <1>5, <1>10 DEF n
  <1> QED BY <1>0, <1>11, Zenon DEF u, e

NotedTransient(s, t, e, m) ==
    /\ Noted(s, t, e) /\ t.refund = s.refund /\ t.logs = s.logs /\ t.transient = m
    /\ t.access = s.access

\* SetTransientState.
LEMMA TransientNoted ==
  ASSUME NEW s, Sound(s), NEW a \in Addrs, NEW k \in Slots, NEW v \in Values
  PROVE  LET e == [change |-> "transient", account |-> a, key |-> k, prev |-> s.transient[a][k]]
             t == [journal(s, e) EXCEPT !.transient[a][k] = v]
         IN  NotedTransient(s, t, e, [s.transient EXCEPT ![a][k] = v])
  <1> DEFINE e == [change |-> "transient", account |-> a, key |-> k, prev |-> s.transient[a][k]]
             u == journal(s, e)
             m == [s.transient EXCEPT ![a][k] = v]
             t == [u EXCEPT !.transient = m]
  <1>1. Good(s) /\ s \in DB
    BY SoundFacts
  <1>2. /\ s.refund \in Nat /\ s.logs \in Int /\ s.access \in AccessList /\ s.entries \in Seq(Entry)
        /\ s.transient \in [Addrs -> [Slots -> Values]]
    BY <1>1, DBFacts
  <1>3. e \in Entry /\ e.change = "transient" /\ e.account = a /\ e.key = k /\ e.prev = s.transient[a][k]
    BY <1>2 DEF Entry
  <1> HIDE DEF e
  <1>4. /\ u \in DB /\ u.disk = s.disk /\ u.objects = s.objects /\ u.destruct = s.destruct
        /\ u.refund = s.refund /\ u.logs = s.logs /\ u.transient = s.transient
        /\ u.access = s.access /\ u.entries = Append(s.entries, e)
        /\ u.dirties = IF e.change \in AccountChanges
                       THEN [s.dirties EXCEPT ![e.account] = s.dirties[e.account] + 1] ELSE s.dirties
    BY <1>1, <1>3, JournalFacts, Zenon
  <1>0. t = [u EXCEPT !.transient[a][k] = v]
    BY <1>4, Zenon
  <1>01. m \in [Addrs -> [Slots -> Values]] /\ [m EXCEPT ![a][k] = s.transient[a][k]] = s.transient
    BY <1>2
  <1> HIDE DEF u, m
  <1>5. /\ t \in DB /\ t.disk = u.disk /\ t.objects = u.objects /\ t.destruct = u.destruct
        /\ t.refund = u.refund /\ t.logs = u.logs /\ t.transient = m
        /\ t.access = u.access /\ t.entries = u.entries /\ t.dirties = u.dirties
    BY <1>01, <1>4 DEF DB
  <1> HIDE DEF t
  <1>6. e.change \notin AccountChanges /\ e.change \notin ListChanges
    BY <1>3 DEF AccountChanges, ListChanges
  <1>7. /\ undoneRefund(t.refund, e) = s.refund /\ undoneTransient(t.transient, e) = s.transient
        /\ undoneAccess(t.access, e) = s.access
    <2>1. undoneTransient(t.transient, e) = [m EXCEPT ![a][k] = s.transient[a][k]]
      BY <1>3, <1>5, Zenon DEF undoneTransient
    <2> QED BY <1>01, <1>3, <1>4, <1>5, <2>1 DEF undoneRefund, undoneAccess
  <1>8. Listed(t.access, t.entries)
    BY <1>1, <1>2, <1>3, <1>4, <1>5, <1>6, ListedAppend DEF Good
  <1>9. t.logs = s.logs + IF e.change = "log" THEN 1 ELSE 0
    BY <1>2, <1>3, <1>4, <1>5
  <1>10. Noted(s, t, e)
    BY <1>3, <1>4, <1>5, <1>6, <1>7, <1>8, <1>9 DEF Noted
  <1>11. NotedTransient(s, t, e, m)
    BY <1>4, <1>5, <1>10 DEF NotedTransient
  <1> QED BY <1>0, <1>11, Zenon DEF u, e, m

\* AddAddress on a list that lacks it.
LEMMA PutAddress ==
  ASSUME NEW al \in AccessList, NEW a, NEW x
  PROVE  [al EXCEPT !.addresses[a] = x] = [addresses |-> [al.addresses EXCEPT ![a] = x], slots |-> al.slots]
  BY DEF AccessList

\* An operation that journals a change of the access list.
LEMMA AccessNoted ==
  ASSUME NEW s, Sound(s), NEW e \in Entry, e.change \in ListChanges, NEW al \in AccessList,
         undoneAccess(al, e) = s.access, Listed(al, Append(s.entries, e))
  PROVE  LET t == [journal(s, e) EXCEPT !.access = al]
         IN  /\ Noted(s, t, e) /\ t.refund = s.refund /\ t.logs = s.logs /\ t.transient = s.transient
             /\ t.access = al
  <1> DEFINE u == journal(s, e)
             t == [u EXCEPT !.access = al]
  <1>1. Good(s) /\ s \in DB
    BY SoundFacts
  <1>2. /\ u \in DB /\ u.disk = s.disk /\ u.objects = s.objects /\ u.destruct = s.destruct
        /\ u.refund = s.refund /\ u.logs = s.logs /\ u.transient = s.transient
        /\ u.access = s.access /\ u.entries = Append(s.entries, e)
        /\ u.dirties = IF e.change \in AccountChanges
                       THEN [s.dirties EXCEPT ![e.account] = s.dirties[e.account] + 1] ELSE s.dirties
    BY <1>1, JournalFacts, Zenon
  <1> HIDE DEF u
  <1>3. /\ t \in DB /\ t.disk = u.disk /\ t.objects = u.objects /\ t.destruct = u.destruct
        /\ t.refund = u.refund /\ t.logs = u.logs /\ t.transient = u.transient
        /\ t.access = al /\ t.entries = u.entries /\ t.dirties = u.dirties
    BY <1>2 DEF DB
  <1> HIDE DEF t
  <1>4. e.change \notin AccountChanges /\ e.change \notin {"refund", "log", "transient"}
    BY DEF AccountChanges, ListChanges
  <1>5. /\ undoneRefund(t.refund, e) = s.refund /\ undoneTransient(t.transient, e) = s.transient
        /\ undoneAccess(t.access, e) = s.access
    BY <1>2, <1>3, <1>4 DEF undoneRefund, undoneTransient
  <1>6. t.logs = s.logs + IF e.change = "log" THEN 1 ELSE 0
    BY <1>1, <1>2, <1>3, <1>4, DBFacts
  <1>7. Noted(s, t, e)
    BY <1>2, <1>3, <1>4, <1>5, <1>6 DEF Noted
  <1>8. /\ Noted(s, t, e) /\ t.refund = s.refund /\ t.logs = s.logs /\ t.transient = s.transient
        /\ t.access = al
    BY <1>2, <1>3, <1>7
  <1> QED BY <1>8, Zenon DEF t, u

\* AddAddressToAccessList.
LEMMA AddressNoted ==
  ASSUME NEW s, Sound(s), NEW a \in Addrs, s.access.addresses[a] = Nil
  PROVE  LET e == [change |-> "listAddress", account |-> a]
             t == [journal(s, e) EXCEPT !.access = listAddress(@, a)]
         IN  /\ Noted(s, t, e) /\ t.refund = s.refund /\ t.logs = s.logs /\ t.transient = s.transient
             /\ t.access = listAddress(s.access, a)
             /\ t = [journal(s, e) EXCEPT !.access = listAddress(s.access, a)]
  <1> DEFINE e == [change |-> "listAddress", account |-> a]
             al == listAddress(s.access, a)
  <1>1. Good(s) /\ s \in DB
    BY SoundFacts
  <1>2. s.access \in AccessList /\ s.entries \in Seq(Entry)
    BY <1>1, DBFacts
  <1>3. e \in Entry /\ e.change = "listAddress" /\ e.account = a
    BY DEF Entry
  <1> HIDE DEF e
  <1>4. journal(s, e).access = s.access
    BY <1>1, <1>3, JournalFacts, Zenon
  <1>5. Listed(al, Append(s.entries, e)) /\ al \in AccessList
    BY <1>1, <1>2, <1>3, ListedAddress DEF Good
  <1>6. undoneAccess(al, e) = s.access
    <2>1. al = [s.access EXCEPT !.addresses[a] = NoSlots]
      BY DEF listAddress
    <2>2. undoneAccess(al, e) = [al EXCEPT !.addresses[a] = Nil]
      BY <1>3, Zenon DEF undoneAccess
    <2>3. s.access.addresses \in [Addrs -> Nat \cup {Nil}]
      BY <1>2, AccessFacts
    <2>4. al \in AccessList /\ al.addresses = [s.access.addresses EXCEPT ![a] = NoSlots] /\ al.slots = s.access.slots
      BY <1>2, <1>5, <2>1 DEF AccessList
    <2>5. [al EXCEPT !.addresses[a] = Nil] = [addresses |-> [al.addresses EXCEPT ![a] = Nil], slots |-> al.slots]
      BY <2>4, PutAddress
    <2>6. [al.addresses EXCEPT ![a] = Nil] = s.access.addresses
      BY <2>3, <2>4
    <2>7. s.access = [addresses |-> s.access.addresses, slots |-> s.access.slots]
      BY <1>2 DEF AccessList
    <2> QED BY <2>2, <2>4, <2>5, <2>6, <2>7, Zenon
  <1> HIDE DEF al
  <1> DEFINE t == [journal(s, e) EXCEPT !.access = al]
  <1>7. /\ Noted(s, t, e) /\ t.refund = s.refund /\ t.logs = s.logs /\ t.transient = s.transient
        /\ t.access = al
    BY <1>3, <1>5, <1>6, AccessNoted, Zenon DEF ListChanges
  <1>8. t = [journal(s, e) EXCEPT !.access = listAddress(@, a)]
    BY <1>4, Zenon DEF al
  <1> HIDE DEF t
  <1> QED BY <1>7, <1>8, Zenon DEF e, al, t

\* DeleteSlot takes back what AddSlot did.
LEMMA UnlistListed ==
  ASSUME NEW al \in AccessList, Table(al), NEW a \in Addrs, NEW k \in Slots,
         al.addresses[a] # Nil, ~ContainsSlot(al, a, k)
  PROVE  unlistSlot(listSlot(al, a, k), a, k) = al
  <1> DEFINE u == listSlot(al, a, k)
             v == unlistSlot(u, a, k)
  <1>1. al.addresses \in [Addrs -> Nat \cup {Nil}] /\ al.slots \in Seq(SUBSET Slots) /\ Len(al.slots) \in Nat
    BY AccessFacts
  <1>2. CASE HasSlots(al, a)
    <2> DEFINE i == al.addresses[a]
    <2>1. i \in 1..Len(al.slots) /\ al.slots[i] # {} /\ k \notin al.slots[i] /\ al.slots[i] \in SUBSET Slots
      BY <1>1, <1>2, TableFacts DEF ContainsSlot, HasSlots, SlotsOf
    <2>2. u = [al EXCEPT !.slots = [al.slots EXCEPT ![i] = al.slots[i] \cup {k}]]
      BY <1>2 DEF listSlot, HasSlots
    <2>3. u.addresses = al.addresses /\ u.slots = [al.slots EXCEPT ![i] = al.slots[i] \cup {k}]
      BY <2>2 DEF AccessList
    <2>4. u.slots[i] \ {k} = al.slots[i]
      BY <1>1, <2>1, <2>3
    <2>5. v = [u EXCEPT !.slots[i] = al.slots[i]]
      BY <2>1, <2>3, <2>4 DEF unlistSlot
    <2>6. v = [al EXCEPT !.slots = [u.slots EXCEPT ![i] = al.slots[i]]]
      BY <2>2, <2>5 DEF AccessList
    <2>7. [u.slots EXCEPT ![i] = al.slots[i]] = al.slots
      BY <1>1, <2>1, <2>3
    <2> QED BY <2>6, <2>7 DEF AccessList
  <1>3. CASE ~HasSlots(al, a)
    <2> DEFINE n == Len(al.slots)
    <2>1. al.addresses[a] = NoSlots
      BY <1>3 DEF HasSlots
    <2>2. u = [addresses |-> [al.addresses EXCEPT ![a] = n + 1], slots |-> Append(al.slots, {k})]
      BY <2>1 DEF listSlot
    <2>3. u.addresses = [al.addresses EXCEPT ![a] = n + 1] /\ u.slots = Append(al.slots, {k})
      BY <2>2
    <2>4. u.addresses[a] = n + 1 /\ u.slots[n + 1] = {k}
      BY <1>1, <2>3
    <2>5. v = [addresses |-> [u.addresses EXCEPT ![a] = NoSlots], slots |-> SubSeq(u.slots, 1, n + 1 - 1)]
      <3>1. u.slots[u.addresses[a]] \ {k} = {}
        BY <2>4
      <3>2. v = [addresses |-> [u.addresses EXCEPT ![a] = NoSlots], slots |-> SubSeq(u.slots, 1, u.addresses[a] - 1)]
        BY <3>1, Zenon DEF unlistSlot
      <3> QED BY <2>4, <3>2
    <2>6. SubSeq(Append(al.slots, {k}), 1, n) = al.slots
      <3>1. Append(al.slots, {k}) \in Seq(SUBSET Slots) /\ Len(Append(al.slots, {k})) = n + 1
        BY <1>1
      <3> DEFINE q == SubSeq(Append(al.slots, {k}), 1, n)
      <3>2. q \in Seq(SUBSET Slots) /\ Len(q) = n /\ \A i \in 1..n : q[i] = Append(al.slots, {k})[i]
        BY <1>1, <3>1, CutSeq
      <3>3. \A i \in 1..n : q[i] = al.slots[i]
        BY <1>1, <3>2
      <3> HIDE DEF q
      <3>4. q = al.slots
        BY <1>1, <3>2, <3>3
      <3> QED BY <3>4 DEF q
    <2>7. [u.addresses EXCEPT ![a] = NoSlots] = al.addresses
      BY <1>1, <2>1, <2>3
    <2>8. SubSeq(u.slots, 1, n + 1 - 1) = al.slots
      BY <1>1, <2>3, <2>6
    <2> HIDE DEF u, n
    <2>9. v = [addresses |-> al.addresses, slots |-> al.slots]
      BY <2>5, <2>7, <2>8
    <2> QED BY <2>9 DEF AccessList, u
  <1> QED BY <1>2, <1>3

\* AddSlotToAccessList, the address being listed.
LEMMA SlotNoted ==
  ASSUME NEW s, Sound(s), NEW a \in Addrs, NEW k \in Slots, s.access.addresses[a] # Nil,
         ~ContainsSlot(s.access, a, k)
  PROVE  LET e == [change |-> "listSlot", account |-> a, key |-> k]
             t == [journal(s, e) EXCEPT !.access = listSlot(@, a, k)]
         IN  /\ Noted(s, t, e) /\ t.refund = s.refund /\ t.logs = s.logs /\ t.transient = s.transient
             /\ t.access = listSlot(s.access, a, k)
             /\ t = [journal(s, e) EXCEPT !.access = listSlot(s.access, a, k)]
  <1> DEFINE e == [change |-> "listSlot", account |-> a, key |-> k]
             al == listSlot(s.access, a, k)
  <1>1. Good(s) /\ s \in DB
    BY SoundFacts
  <1>2. s.access \in AccessList /\ s.entries \in Seq(Entry)
    BY <1>1, DBFacts
  <1>3. e \in Entry /\ e.change = "listSlot" /\ e.account = a /\ e.key = k
    BY DEF Entry
  <1> HIDE DEF e
  <1>4. journal(s, e).access = s.access
    BY <1>1, <1>3, JournalFacts, Zenon
  <1>5. Listed(al, Append(s.entries, e)) /\ al \in AccessList
    BY <1>1, <1>2, <1>3, ListedSlot DEF Good
  <1>6. undoneAccess(al, e) = s.access
    <2>1. unlistSlot(al, a, k) = s.access
      BY <1>1, <1>2, UnlistListed DEF Good, Listed
    <2> QED BY <1>3, <2>1, Zenon DEF undoneAccess
  <1> HIDE DEF al
  <1> DEFINE t == [journal(s, e) EXCEPT !.access = al]
  <1>7. /\ Noted(s, t, e) /\ t.refund = s.refund /\ t.logs = s.logs /\ t.transient = s.transient
        /\ t.access = al
    BY <1>3, <1>5, <1>6, AccessNoted, Zenon DEF ListChanges
  <1>8. t = [journal(s, e) EXCEPT !.access = listSlot(@, a, k)]
    BY <1>4, Zenon DEF al
  <1> HIDE DEF t
  <1> QED BY <1>7, <1>8, Zenon DEF e, al, t

\* A StateDB is the record of its fields.
LEMMA DBRecord ==
  ASSUME NEW s \in DB
  PROVE  s = [disk |-> s.disk, objects |-> s.objects, destruct |-> s.destruct, refund |-> s.refund,
              logs |-> s.logs, transient |-> s.transient, access |-> s.access, entries |-> s.entries,
              dirties |-> s.dirties]
  BY DEF DB

\* Two with the same fields are equal.
LEMMA DBEqual ==
  ASSUME NEW s \in DB, NEW t \in DB, t.disk = s.disk, t.objects = s.objects, t.destruct = s.destruct,
         t.refund = s.refund, t.logs = s.logs, t.transient = s.transient, t.access = s.access,
         t.entries = s.entries, t.dirties = s.dirties
  PROVE  t = s
  BY DBRecord, Zenon

\* A slot is listed together with its address, with an entry for each.
LEMMA SlotAnew ==
  ASSUME NEW s, Sound(s), NEW a \in Addrs, NEW k \in Slots, s.access.addresses[a] = Nil
  PROVE  LET t == [journal(journal(s, [change |-> "listAddress", account |-> a]),
                           [change |-> "listSlot", account |-> a, key |-> k])
                      EXCEPT !.access = listSlot(@, a, k)]
         IN  /\ Sound(t) /\ Follows(t, s, 0)
             /\ t.disk = s.disk /\ t.objects = s.objects /\ t.destruct = s.destruct
             /\ t.dirties = s.dirties /\ t.refund = s.refund /\ t.logs = s.logs
             /\ t.transient = s.transient /\ t.access = listSlot(s.access, a, k)
  <1> DEFINE e == [change |-> "listAddress", account |-> a]
             f == [change |-> "listSlot", account |-> a, key |-> k]
             al == listAddress(s.access, a)
             bl == listSlot(s.access, a, k)
             u == [journal(s, e) EXCEPT !.access = al]
             v == [journal(u, f) EXCEPT !.access = bl]
             w == journal(journal(s, e), f)
             t == [w EXCEPT !.access = bl]
  <1>1. Good(s) /\ s \in DB /\ s.access \in AccessList /\ s.entries \in Seq(Entry)
    BY SoundFacts, DBFacts
  <1>2. e \in Entry /\ f \in Entry /\ e.change = "listAddress" /\ f.change = "listSlot" /\ e.account = a
    BY DEF Entry
  <1>3. /\ Noted(s, u, e) /\ u.refund = s.refund /\ u.logs = s.logs /\ u.transient = s.transient
        /\ u.access = al
    BY AddressNoted, ZenonT(60)
  <1>4. Sound(u) /\ Follows(u, s, 0)
    BY <1>3, NotedSound
  <1>5. al.addresses[a] = NoSlots /\ al.slots = s.access.slots /\ al = [s.access EXCEPT !.addresses[a] = NoSlots]
    BY <1>1, <1>2, ListedAddress DEF Good, listAddress
  <1>6. listSlot(al, a, k) = bl
    <2>1. /\ listSlot(al, a, k) = [addresses |-> [al.addresses EXCEPT ![a] = Len(al.slots) + 1],
                                   slots |-> Append(al.slots, {k})]
          /\ bl = [addresses |-> [s.access.addresses EXCEPT ![a] = Len(s.access.slots) + 1],
                   slots |-> Append(s.access.slots, {k})]
      BY <1>5 DEF listSlot
    <2>2. al.addresses = [s.access.addresses EXCEPT ![a] = NoSlots]
      BY <1>1, <1>5 DEF AccessList
    <2>3. \A x : [al.addresses EXCEPT ![a] = x] = [s.access.addresses EXCEPT ![a] = x]
      <3>1. s.access.addresses \in [Addrs -> Nat \cup {Nil}]
        BY <1>1, AccessFacts
      <3> QED BY <2>2, <3>1
    <2> HIDE DEF al, bl
    <2> QED BY <1>5, <2>1, <2>3, Zenon
  <1>7. /\ Noted(u, v, f) /\ v.refund = u.refund /\ v.logs = u.logs /\ v.transient = u.transient
        /\ v.access = bl
    <2>1. u.access.addresses[a] # Nil /\ ~ContainsSlot(u.access, a, k)
      <3> HIDE DEF u, al
      <3>1. 0 # Nil
        BY NilFacts
      <3> QED BY <1>3, <1>5, <3>1 DEF ContainsSlot, NoSlots
    <2>2. listSlot(u.access, a, k) = bl
      BY <1>3, <1>6
    <2> HIDE DEF u, v, bl, e, al
    <2> DEFINE x == [journal(u, f) EXCEPT !.access = listSlot(@, a, k)]
    <2>3. /\ Noted(u, x, f) /\ x.refund = u.refund /\ x.logs = u.logs /\ x.transient = u.transient
          /\ x.access = listSlot(u.access, a, k)
          /\ x = [journal(u, f) EXCEPT !.access = listSlot(u.access, a, k)]
      BY <1>4, <2>1, SlotNoted
    <2> HIDE DEF x
    <2> QED BY <2>2, <2>3, Zenon DEF v
  <1>8. Sound(v) /\ Follows(v, u, 0)
    BY <1>4, <1>7, NotedSound
  <1>9. Follows(v, s, 0)
    <2>1. Good(u) /\ Good(v) /\ 0 + 0 = 0
      BY <1>4, <1>8, SoundFacts
    <2> HIDE DEF u, v
    <2> QED BY <1>1, <1>4, <1>8, <2>1, FollowsTransitive
  <1>10. /\ v.disk = s.disk /\ v.objects = s.objects /\ v.destruct = s.destruct /\ v.dirties = s.dirties
         /\ v.refund = s.refund /\ v.logs = s.logs /\ v.transient = s.transient /\ v.access = bl
         /\ v.entries = Append(Append(s.entries, e), f) /\ v \in DB /\ bl \in AccessList
    <2> HIDE DEF u, v, bl
    <2>1. v \in DB
      BY <1>8, SoundFacts
    <2>2. v.access = bl /\ bl \in AccessList
      BY <1>7, <2>1, DBFacts
    <2> QED BY <1>3, <1>7, <2>1, <2>2 DEF Noted
  <1> HIDE DEF u, v, e, f, al, bl
  <1>11. /\ w \in DB /\ w.disk = s.disk /\ w.objects = s.objects /\ w.destruct = s.destruct
         /\ w.dirties = s.dirties /\ w.refund = s.refund /\ w.logs = s.logs /\ w.transient = s.transient
         /\ w.access = s.access /\ w.entries = Append(Append(s.entries, e), f)
    <2> DEFINE x == journal(s, e)
    <2>1. /\ x \in DB /\ x.disk = s.disk /\ x.objects = s.objects /\ x.destruct = s.destruct
          /\ x.dirties = s.dirties /\ x.refund = s.refund /\ x.logs = s.logs /\ x.transient = s.transient
          /\ x.access = s.access /\ x.entries = Append(s.entries, e)
      <3>1. e.change \notin AccountChanges
        BY <1>2 DEF AccountChanges
      <3> QED BY <1>1, <1>2, <3>1, JournalFacts, Zenon
    <2> HIDE DEF x
    <2>2. /\ journal(x, f) \in DB /\ journal(x, f).disk = x.disk /\ journal(x, f).objects = x.objects
          /\ journal(x, f).destruct = x.destruct /\ journal(x, f).dirties = x.dirties
          /\ journal(x, f).refund = x.refund /\ journal(x, f).logs = x.logs
          /\ journal(x, f).transient = x.transient
          /\ journal(x, f).access = x.access /\ journal(x, f).entries = Append(x.entries, f)
      <3>1. f.change \notin AccountChanges
        BY <1>2 DEF AccountChanges
      <3> QED BY <1>2, <2>1, <3>1, JournalFacts, Zenon
    <2> QED BY <2>1, <2>2 DEF x
  <1>12. t = [w EXCEPT !.access = listSlot(@, a, k)]
    BY <1>11, Zenon DEF bl
  <1> HIDE DEF w
  <1>13. /\ t \in DB /\ t.disk = w.disk /\ t.objects = w.objects /\ t.destruct = w.destruct
         /\ t.dirties = w.dirties /\ t.refund = w.refund /\ t.logs = w.logs /\ t.transient = w.transient
         /\ t.access = bl /\ t.entries = w.entries
    BY <1>10, <1>11 DEF DB
  <1> HIDE DEF t
  <1>14. t = v
    BY <1>10, <1>11, <1>13, DBEqual, SMTT(30)
  <1>15. /\ Sound(t) /\ Follows(t, s, 0)
         /\ t.disk = s.disk /\ t.objects = s.objects /\ t.destruct = s.destruct
         /\ t.dirties = s.dirties /\ t.refund = s.refund /\ t.logs = s.logs
         /\ t.transient = s.transient /\ t.access = bl
    BY <1>8, <1>9, <1>10, <1>14
  <1> QED BY <1>12, <1>15, Zenon DEF w, e, f, bl

(***************************************************************************)
(* Prepare and Finalise.                                                    *)
(***************************************************************************)
\* Alike but for the access list, the transient storage and the logs.
Beside(t, s) ==
    /\ t.disk = s.disk /\ t.objects = s.objects /\ t.destruct = s.destruct /\ t.refund = s.refund
    /\ t.entries = s.entries

\* Undoing keeps two states beside each other that differ in what no entry concerns.
LEMMA BesideUndo ==
  ASSUME NEW s, Good(s), NEW t, Good(t), Beside(t, s), Len(s.entries) > 0
  PROVE  Beside(undoLast(t), undoLast(s))
  <1> DEFINE e == Last(s.entries)
             u == undoLast(t)
             r == undoLast(s)
  <1>1. s \in DB /\ t \in DB /\ Undoable(s, e) /\ Undoable(t, e) /\ t.entries = s.entries
    BY GoodUndo DEF Good, Beside
  <1>2. /\ r.disk = s.disk /\ r.objects = undoneObjects(s.objects, e)
        /\ r.destruct = undoneDestruct(s.destruct, e) /\ r.refund = undoneRefund(s.refund, e)
        /\ r.entries = SubSeq(s.entries, 1, Len(s.entries) - 1)
    BY <1>1, UndoLastFacts, Zenon
  <1>3. /\ u.disk = t.disk /\ u.objects = undoneObjects(t.objects, e)
        /\ u.destruct = undoneDestruct(t.destruct, e) /\ u.refund = undoneRefund(t.refund, e)
        /\ u.entries = SubSeq(t.entries, 1, Len(t.entries) - 1)
    BY <1>1, UndoLastFacts, ZenonT(60)
  <1> HIDE DEF u, r, e
  <1>4. Beside(u, r)
    BY <1>2, <1>3, Zenon DEF Beside
  <1> QED BY <1>4 DEF u, r

\* So does a revert.
LEMMA BesideRevert ==
  ASSUME NEW s, Good(s), NEW t, Good(t), Beside(t, s)
  PROVE  \A n \in 0..Len(s.entries) : Beside(revert(t, n), revert(s, n))
  <1> DEFINE N == Len(s.entries)
             T == {k \in Nat : k <= N => Beside(revert(t, N - k), revert(s, N - k))}
  <1>1. N \in Nat /\ Len(t.entries) = N
    BY DBFacts DEF Good, Beside
  <1> HIDE DEF N
  <1>2. 0 \in T
    <2>1. revert(t, N) = t /\ revert(s, N) = s /\ N - 0 = N
      BY <1>1, RevertNothing DEF N
    <2> QED BY <2>1
  <1>3. ASSUME NEW k \in T PROVE k + 1 \in T
    <2> SUFFICES ASSUME k + 1 <= N PROVE Beside(revert(t, N - (k + 1)), revert(s, N - (k + 1)))
      OBVIOUS
    <2> DEFINE n == N - (k + 1)
    <2>1. k \in Nat /\ Beside(revert(t, N - k), revert(s, N - k))
      BY <1>1
    <2>2. n \in Nat /\ n < N /\ n + 1 = N - k /\ n + 1 \in 0..N
      BY <1>1, <2>1
    <2> HIDE DEF n
    <2>3. revert(t, n) = undoLast(revert(t, n + 1)) /\ revert(s, n) = undoLast(revert(s, n + 1))
      BY <1>1, <2>2, RevertOne DEF N
    <2>4. /\ Good(revert(t, n + 1)) /\ Good(revert(s, n + 1)) /\ Len(revert(s, n + 1).entries) > 0
      BY <1>1, <2>2, GoodRevert DEF N
    <2>5. Beside(revert(t, n), revert(s, n))
      BY <2>1, <2>2, <2>3, <2>4, BesideUndo
    <2> QED BY <2>5 DEF n
  <1> HIDE DEF T
  <1>4. T = Nat
    <2>1. T \in SUBSET Nat
      BY DEF T
    <2> QED BY <1>2, <1>3, <2>1, SetInduction
  <1>5. ASSUME NEW n \in 0..N PROVE Beside(revert(t, n), revert(s, n))
    <2>1. N - n \in T /\ N - n <= N /\ N - (N - n) = n
      BY <1>1, <1>4
    <2> QED BY <2>1 DEF T
  <1> QED BY <1>5 DEF N

\* A new access list and an empty transient storage, while no entry of the journal is about them.
LEMMA PrepareSound ==
  ASSUME NEW s, Sound(s), NEW al \in AccessList, Table(al), NEW m \in [Addrs -> [Slots -> Values]],
         \A i \in 1..Len(s.entries) : s.entries[i].change \notin ListChanges
  PROVE  LET t == [s EXCEPT !.access = al, !.transient = m]
         IN  /\ Sound(t) /\ t.disk = s.disk /\ t.objects = s.objects /\ t.destruct = s.destruct
             /\ t.dirties = s.dirties /\ t.refund = s.refund /\ t.logs = s.logs
             /\ t.transient = m /\ t.access = al
  <1> DEFINE t == [s EXCEPT !.access = al, !.transient = m]
  <1>1. Good(s) /\ Kept(s) /\ s \in DB
    BY SoundFacts
  <1>2. /\ t \in DB /\ t.disk = s.disk /\ t.objects = s.objects /\ t.destruct = s.destruct
        /\ t.dirties = s.dirties /\ t.refund = s.refund /\ t.logs = s.logs
        /\ t.transient = m /\ t.access = al /\ t.entries = s.entries
    BY <1>1 DEF DB
  <1> HIDE DEF t
  <1>3. Good(t)
    <2>1. Listed(t.access, t.entries)
      BY <1>2, ListedTable
    <2> QED BY <1>1, <1>2, <2>1, Zenon DEF Good, Present, Counted
  <1>4. Beside(t, s)
    BY <1>2 DEF Beside
  <1>5. ASSUME NEW n \in 0..Len(t.entries) PROVE Clean(revert(t, n))
    <2>1. Beside(revert(t, n), revert(s, n)) /\ Clean(revert(s, n))
      BY <1>1, <1>2, <1>3, <1>4, <1>5, BesideRevert DEF Kept
    <2> QED BY <2>1, Zenon DEF Beside, Clean, loaded
  <1>6. Sound(t)
    BY <1>3, <1>5 DEF Sound, Kept
  <1> QED BY <1>2, <1>6 DEF t

\* Finalise removes the objects that are gone and commits the storage of the others.
Gone(o, d) == o.selfDestructed \/ (d /\ empty(o))

\* Finalise on one object.
LEMMA FinalObject ==
  ASSUME NEW o \in Object, NEW d \in BOOLEAN
  PROVE  LET p == finaliseObject(o, d)
         IN  /\ p \in Object /\ p.balance = o.balance /\ p.nonce = o.nonce /\ p.code = o.code
             /\ p.selfDestructed = o.selfDestructed /\ ~p.created /\ p.origin = o.origin
             /\ p.deleted <=> o.deleted \/ Gone(o, d)
             /\ ~Gone(o, d) => /\ p.dirty = NoCache
                               /\ \A k \in Slots : p.pending[k] = IF o.dirty[k] # Nil THEN o.dirty[k]
                                                                  ELSE o.pending[k]
  <1> DEFINE c == [k \in Slots |-> IF o.dirty[k] # Nil THEN o.dirty[k] ELSE o.pending[k]]
             p == finaliseObject(o, d)
  <1>1. /\ o.dirty \in [Slots -> Values \cup {Nil}] /\ o.pending \in [Slots -> Values \cup {Nil}]
        /\ NoCache \in [Slots -> Values \cup {Nil}]
    BY ObjectFacts DEF NoCache
  <1>2. c \in [Slots -> Values \cup {Nil}]
    BY <1>1
  <1>3. \A x \in BOOLEAN, y \in BOOLEAN :
           LET r == [o EXCEPT !.deleted = x, !.created = y]
           IN  /\ r \in Object /\ r.balance = o.balance /\ r.nonce = o.nonce /\ r.code = o.code
               /\ r.selfDestructed = o.selfDestructed /\ r.origin = o.origin /\ r.deleted = x /\ r.created = y
    BY DEF Object
  <1>5. CASE Gone(o, d)
    <2>1. p = [o EXCEPT !.deleted = TRUE, !.created = FALSE]
      BY <1>5, Zenon DEF finaliseObject, Gone
    <2>2. TRUE \in BOOLEAN /\ FALSE \in BOOLEAN
      OBVIOUS
    <2>3. /\ p \in Object /\ p.balance = o.balance /\ p.nonce = o.nonce /\ p.code = o.code
          /\ p.selfDestructed = o.selfDestructed /\ p.origin = o.origin /\ p.deleted = TRUE /\ p.created = FALSE
      BY <1>3, <2>1, <2>2, Zenon
    <2> HIDE DEF p
    <2> QED BY <1>5, <2>3, Zenon DEF p
  <1>6. CASE ~Gone(o, d)
    <2> DEFINE F == FALSE
    <2>1. p = [o EXCEPT !.pending = c, !.dirty = NoCache, !.created = F]
      BY <1>6, Zenon DEF finaliseObject, Gone
    <2>2. F \in BOOLEAN /\ ~F
      OBVIOUS
    <2>3. \A k \in Slots : c[k] = IF o.dirty[k] # Nil THEN o.dirty[k] ELSE o.pending[k]
      OBVIOUS
    <2> HIDE DEF c, p, F
    <2>4. /\ p \in Object /\ p.balance = o.balance /\ p.nonce = o.nonce /\ p.code = o.code
          /\ p.selfDestructed = o.selfDestructed /\ p.origin = o.origin /\ p.deleted = o.deleted
          /\ p.created = F /\ p.pending = c /\ p.dirty = NoCache
      <3>1. p \in Object
        BY <1>1, <1>2, <2>1, <2>2 DEF Object
      <3>2. /\ p.balance = o.balance /\ p.nonce = o.nonce /\ p.code = o.code
            /\ p.selfDestructed = o.selfDestructed /\ p.origin = o.origin /\ p.deleted = o.deleted
        BY <2>1 DEF Object
      <3>3. p.created = F /\ p.pending = c /\ p.dirty = NoCache
        BY <2>1 DEF Object
      <3> QED BY <3>1, <3>2, <3>3, Zenon
    <2> QED BY <1>6, <2>2, <2>3, <2>4, Zenon DEF p
  <1> QED BY <1>5, <1>6

Changed(s) == {a \in Addrs : s.dirties[a] > 0 /\ s.objects[a] # Nil}

finalObjects(s, d) ==
    [a \in Addrs |-> IF a \in Changed(s) THEN finaliseObject(s.objects[a], d) ELSE s.objects[a]]

finalDestruct(s, d) == s.destruct \cup {a \in Changed(s) : finalObjects(s, d)[a].deleted}

finalState(s, d) ==
    LET u == [s EXCEPT !.objects = finalObjects(s, d), !.destruct = finalDestruct(s, d)]
    IN  IF s.entries = <<>> THEN u
        ELSE [u EXCEPT !.entries = <<>>, !.dirties = [a \in Addrs |-> 0], !.refund = 0]

\* Finalise, field by field.
LEMMA FinalFacts ==
  ASSUME NEW s, Sound(s), NEW d \in BOOLEAN
  PROVE  LET t == finalState(s, d)
         IN  /\ t \in DB /\ t.disk = s.disk /\ t.objects = finalObjects(s, d)
             /\ t.destruct = finalDestruct(s, d) /\ t.refund = 0 /\ t.logs = s.logs
             /\ t.transient = s.transient /\ t.access = s.access /\ t.entries = <<>>
             /\ s.entries = <<>> => t.dirties = s.dirties
             /\ s.entries # <<>> => t.dirties = [a \in Addrs |-> 0]
  <1> DEFINE O == finalObjects(s, d)
             D == finalDestruct(s, d)
             Z == [a \in Addrs |-> 0]
             u == [s EXCEPT !.objects = O, !.destruct = D]
             t == finalState(s, d)
  <1>1. s \in DB /\ Clean(s) /\ s.objects \in [Addrs -> Object \cup {Nil}] /\ s.destruct \in SUBSET Addrs
    BY SoundFacts, DBFacts
  <1>2. O \in [Addrs -> Object \cup {Nil}]
    <2>1. \A a \in Addrs : O[a] \in Object \cup {Nil}
      <3> TAKE a \in Addrs
      <3>1. CASE a \in Changed(s)
        <4>1. s.objects[a] \in Object
          BY <1>1, <3>1 DEF Changed
        <4>2. finaliseObject(s.objects[a], d) \in Object
          BY <4>1, FinalObject
        <4> QED BY <3>1, <4>2 DEF finalObjects
      <3>2. CASE a \notin Changed(s)
        BY <1>1, <3>2 DEF finalObjects
      <3> QED BY <3>1, <3>2
    <2> QED BY <2>1, Zenon DEF finalObjects
  <1>3. D \in SUBSET Addrs
    BY <1>1 DEF finalDestruct, Changed
  <1>4. Z \in [Addrs -> Int] /\ <<>> \in Seq(Entry)
    OBVIOUS
  <1>5. t = IF s.entries = <<>> THEN u ELSE [u EXCEPT !.entries = <<>>, !.dirties = Z, !.refund = 0]
    BY Zenon DEF finalState
  <1> HIDE DEF O, D, Z, t
  <1>6. /\ u \in DB /\ u.disk = s.disk /\ u.objects = O
        /\ u.destruct = D /\ u.refund = s.refund /\ u.logs = s.logs
        /\ u.transient = s.transient /\ u.access = s.access /\ u.entries = s.entries /\ u.dirties = s.dirties
    BY <1>1, <1>2, <1>3 DEF DB
  <1> HIDE DEF u
  <1>7. CASE s.entries = <<>>
    <2>1. s.refund = 0
      BY <1>1, <1>7 DEF Clean
    <2>2. t = u
      BY <1>5, <1>7, Zenon
    <2> QED BY <1>6, <1>7, <2>1, <2>2 DEF t, O, D
  <1>8. CASE s.entries # <<>>
    <2> DEFINE v == [u EXCEPT !.entries = <<>>, !.dirties = Z, !.refund = 0]
    <2>1. /\ v \in DB /\ v.disk = u.disk /\ v.objects = u.objects
          /\ v.destruct = u.destruct /\ v.refund = 0 /\ v.logs = u.logs
          /\ v.transient = u.transient /\ v.access = u.access /\ v.entries = <<>> /\ v.dirties = Z
      BY <1>4, <1>6 DEF DB
    <2>2. t = v
      BY <1>5, <1>8, Zenon
    <2> HIDE DEF v
    <2> QED BY <1>6, <1>8, <2>1, <2>2, Zenon DEF t, O, D, Z
  <1> QED BY <1>7, <1>8

\* An account that is not finalised has no entry in the journal.
LEMMA UnchangedClean ==
  ASSUME NEW s, Sound(s), NEW a \in Addrs, a \notin Changed(s)
  PROVE  /\ loaded(s, a) # Nil /\ ~loaded(s, a).deleted
         => /\ ~loaded(s, a).selfDestructed /\ ~loaded(s, a).created
            /\ \A k \in Slots : stateOf(loaded(s, a), s.disk, s.destruct, a, k)
                                  = committedOf(loaded(s, a), s.disk, s.destruct, a, k)
  <1>1. Good(s) /\ Clean(s) /\ s \in DB /\ s.entries \in Seq(Entry) /\ s.dirties \in [Addrs -> Int]
    BY SoundFacts, DBFacts
  <1>2. \A i \in 1..Len(s.entries) : ~ChangeAt(s.entries, i, a)
    <2>1. CASE s.objects[a] = Nil
      BY <1>1, <2>1 DEF Good, Present
    <2>2. CASE s.objects[a] # Nil
      <3>1. ~(s.dirties[a] > 0)
        BY <2>2 DEF Changed
      <3>2. IsFiniteSet(Positions(s.entries, ChangesOf(a))) /\ Count(s.entries, ChangesOf(a)) \in Nat
        BY <1>1, CountType
      <3>3. s.dirties[a] >= Count(s.entries, ChangesOf(a))
        BY <1>1, <3>2 DEF Good, Counted
      <3>4. Cardinality(Positions(s.entries, ChangesOf(a))) = 0
        BY <1>1, <3>1, <3>2, <3>3 DEF Count
      <3>5. Positions(s.entries, ChangesOf(a)) = {}
        BY <3>2, <3>4, FS_EmptySet
      <3>6. \A i \in 1..Len(s.entries) : s.entries[i] \in Entry
        BY <1>1
      <3> QED BY <3>5, <3>6 DEF Positions, ChangesOf, ChangeAt
    <2> QED BY <2>1, <2>2
  <1> QED BY <1>1, <1>2, Zenon DEF Clean

\* Finalise keeps the StateDB sound.
LEMMA FinaliseSound ==
  ASSUME NEW s, Sound(s), NEW d \in BOOLEAN
  PROVE  Sound(finalState(s, d))
  <1> DEFINE t == finalState(s, d)
  <1>1. Good(s) /\ Clean(s) /\ s \in DB /\ s.entries \in Seq(Entry) /\ s.objects \in [Addrs -> Object \cup {Nil}]
    BY SoundFacts, DBFacts
  <1>2. /\ t \in DB /\ t.disk = s.disk /\ t.objects = finalObjects(s, d)
        /\ t.destruct = finalDestruct(s, d) /\ t.refund = 0 /\ t.logs = s.logs
        /\ t.transient = s.transient /\ t.access = s.access /\ t.entries = <<>>
        /\ s.entries = <<>> => t.dirties = s.dirties
        /\ s.entries # <<>> => t.dirties = [a \in Addrs |-> 0]
    BY FinalFacts, Zenon
  <1> HIDE DEF t
  <1>3. Len(t.entries) = 0
    BY <1>2
  <1>4. \A a \in Addrs : /\ a \in Changed(s) => /\ s.objects[a] \in Object
                                                /\ t.objects[a] = finaliseObject(s.objects[a], d)
                                                /\ t.objects[a] # Nil
                         /\ a \notin Changed(s) => t.objects[a] = s.objects[a]
    <2> TAKE a \in Addrs
    <2>1. ASSUME a \in Changed(s)
          PROVE  /\ s.objects[a] \in Object /\ t.objects[a] = finaliseObject(s.objects[a], d)
                 /\ t.objects[a] # Nil
      <3>1. s.objects[a] \in Object
        BY <1>1, <2>1 DEF Changed
      <3>2. finaliseObject(s.objects[a], d) \in Object
        BY <3>1, FinalObject
      <3>3. t.objects[a] = finaliseObject(s.objects[a], d)
        BY <1>2, <2>1 DEF finalObjects
      <3> QED BY <3>1, <3>2, <3>3, NilFacts
    <2>2. ASSUME a \notin Changed(s) PROVE t.objects[a] = s.objects[a]
      BY <1>2, <2>2 DEF finalObjects
    <2> QED BY <2>1, <2>2
  <1>5. Good(t)
    <2>1. Present(t)
      <3>1. \A i \in 1..Len(t.entries) : FALSE
        BY <1>3
      <3>2. ASSUME NEW a \in Addrs, t.dirties[a] > 0, t.disk[a] # Nil PROVE t.objects[a] # Nil
        <4>1. s.entries = <<>> /\ s.dirties[a] > 0
          BY <1>2, <3>2
        <4>2. s.objects[a] # Nil
          BY <1>1, <1>2, <3>2, <4>1 DEF Good, Present
        <4> QED BY <1>4, <4>2
      <3> QED BY <3>1, <3>2 DEF Present
    <2>2. Counted(t)
      <3>1. \A P : Count(t.entries, P) = 0
        <4> SUFFICES ASSUME NEW P PROVE Count(t.entries, P) = 0
          OBVIOUS
        <4>1. Positions(t.entries, P) = {}
          BY <1>3 DEF Positions
        <4> QED BY <4>1, FS_EmptySet DEF Count
      <3>2. s.logs >= Count(s.entries, LogEntries) /\ Count(s.entries, LogEntries) \in Nat /\ s.logs \in Int
        BY <1>1, CountType, DBFacts DEF Good, Counted
      <3>3. t.logs >= Count(t.entries, LogEntries)
        BY <1>2, <3>1, <3>2
      <3>4. ASSUME NEW a \in Addrs
            PROVE  IF a = Ripemd THEN t.dirties[a] >= Count(t.entries, ChangesOf(a))
                   ELSE t.dirties[a] = Count(t.entries, ChangesOf(a))
        <4>1. CASE s.entries = <<>>
          BY <1>1, <1>2, <4>1 DEF Good, Counted
        <4>2. CASE s.entries # <<>>
          BY <1>2, <3>1, <4>2
        <4> QED BY <4>1, <4>2
      <3> QED BY <3>3, <3>4 DEF Counted
    <2>3. Listed(t.access, t.entries)
      <3>1. t.access \in AccessList /\ Table(t.access)
        BY <1>1, <1>2, DBFacts DEF Good, Listed
      <3>2. \A i \in 1..Len(t.entries) : t.entries[i].change \notin ListChanges
        BY <1>3
      <3> QED BY <3>1, <3>2, ListedTable
    <2> QED BY <1>2, <2>1, <2>2, <2>3 DEF Good
  <1>6. Clean(t)
    <2>1. ASSUME NEW a \in Addrs, loaded(t, a) # Nil, ~loaded(t, a).deleted
          PROVE  /\ ~loaded(t, a).selfDestructed /\ ~loaded(t, a).created
                 /\ \A k \in Slots : stateOf(loaded(t, a), t.disk, t.destruct, a, k)
                                       = committedOf(loaded(t, a), t.disk, t.destruct, a, k)
      <3>1. CASE a \in Changed(s)
        <4> DEFINE o == s.objects[a]
                   p == finaliseObject(o, d)
        <4>1. o \in Object /\ loaded(t, a) = p /\ p # Nil
          BY <1>4, <3>1 DEF loaded, loadedObject
        <4>2. /\ p.selfDestructed = o.selfDestructed /\ ~p.created
              /\ p.deleted <=> o.deleted \/ Gone(o, d)
              /\ ~Gone(o, d) => p.dirty = NoCache
          BY <4>1, FinalObject, Zenon
        <4> HIDE DEF p, o
        <4>3. ~Gone(o, d)
          BY <2>1, <4>1, <4>2, Zenon
        <4>4. ~p.selfDestructed /\ \A k \in Slots : p.dirty[k] = Nil
          <5>1. ~o.selfDestructed
            BY <4>3, Zenon DEF Gone
          <5>2. \A k \in Slots : NoCache[k] = Nil
            BY DEF NoCache
          <5> QED BY <4>2, <4>3, <5>1, <5>2, Zenon
        <4> QED BY <4>1, <4>2, <4>4, Zenon DEF stateOf
      <3>2. CASE a \notin Changed(s)
        <4>1. loaded(t, a) = loaded(s, a)
          BY <1>2, <1>4, <3>2 DEF loaded
        <4>2. a \in t.destruct <=> a \in s.destruct
          BY <1>2, <3>2 DEF finalDestruct
        <4>3. /\ ~loaded(s, a).selfDestructed /\ ~loaded(s, a).created
              /\ \A k \in Slots : stateOf(loaded(s, a), s.disk, s.destruct, a, k)
                                    = committedOf(loaded(s, a), s.disk, s.destruct, a, k)
          BY <2>1, <3>2, <4>1, UnchangedClean, Zenon
        <4>4. \A o, k : /\ committedOf(o, t.disk, t.destruct, a, k) = committedOf(o, s.disk, s.destruct, a, k)
                        /\ stateOf(o, t.disk, t.destruct, a, k) = stateOf(o, s.disk, s.destruct, a, k)
          BY <1>2, <4>2 DEF stateOf, committedOf
        <4> QED BY <4>1, <4>3, <4>4, Zenon
      <3> QED BY <3>1, <3>2
    <2>2. t.refund = 0
      BY <1>2
    <2> QED BY <2>1, <2>2, Zenon DEF Clean
  <1>7. Kept(t)
    <2>1. revert(t, 0) = t
      BY <1>3, RevertNothing
    <2>2. \A n \in 0..Len(t.entries) : n = 0
      BY <1>3
    <2> QED BY <1>6, <2>1, <2>2 DEF Kept
  <1> QED BY <1>5, <1>7 DEF Sound, t
=============================================================================
