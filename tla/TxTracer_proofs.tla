--------------------------- MODULE TxTracer_proofs ---------------------------
(***************************************************************************)
(* Proofs about TxTracer, for all accounts, keys, values and amounts, every *)
(* initial state, and any number of instructions and depth of calls.        *)
(***************************************************************************)
EXTENDS TxTracer, FiniteSetTheorems, TLAPS

(***************************************************************************)
(* Cells and maps of cells.                                                 *)
(***************************************************************************)
LEMMA CellFacts ==
  ASSUME NEW a \in Accounts
  PROVE  /\ Balance(a) \in Cells /\ Nonce(a) \in Cells /\ Code(a) \in Cells
         /\ Balance(a) # Nonce(a) /\ Balance(a) # Code(a) /\ Nonce(a) # Code(a)
         /\ Balance(a) \notin Slots /\ Nonce(a) \notin Slots /\ Code(a) \notin Slots
         /\ Balance(a)[2] = a /\ Nonce(a)[2] = a /\ Code(a)[2] = a
         /\ \A k \in Keys : /\ Storage(a, k) \in Cells /\ Storage(a, k) \in Slots
                            /\ Storage(a, k)[2] = a
  BY DEF Balance, Nonce, Code, Storage, Cells, Slots, Balances, Nonces, Codes

LEMMA CellsDiffer ==
  ASSUME NEW a \in Accounts, NEW b \in Accounts
  PROVE  /\ Balance(a) # Nonce(b) /\ Balance(a) # Code(b) /\ Nonce(a) # Code(b)
         /\ Balance(a) = Balance(b) <=> a = b
         /\ Nonce(a) = Nonce(b) <=> a = b
         /\ Code(a) = Code(b) <=> a = b
  BY DEF Balance, Nonce, Code

LEMMA CellForm ==
  ASSUME NEW c \in Cells
  PROVE  /\ c[2] \in Accounts
         /\ c \in Slots \/ c \in {Balance(c[2]), Nonce(c[2]), Code(c[2])}
  BY DEF Balance, Nonce, Code, Cells, Slots, Balances, Nonces, Codes

LEMMA AbsentFacts == \A v \in Int : v # Absent
  BY EvmAssumption

LEMMA AddFacts ==
  ASSUME NEW m, DOMAIN m = Cells, NEW c \in Cells, NEW v
  PROVE  /\ DOMAIN Add(m, c, v) = Cells /\ DOMAIN Put(m, c, v) = Cells
         /\ Add(m, c, v) = [d \in Cells |-> IF d = c THEN m[c] + v ELSE m[d]]
         /\ Add(m, c, v)[c] = m[c] + v
         /\ \A d \in Cells \ {c} : Add(m, c, v)[d] = m[d]
         /\ Put(m, c, v)[c] = v
         /\ \A d \in Cells \ {c} : Put(m, c, v)[d] = m[d]
  BY DEF Add, Put

LEMMA AddType ==
  ASSUME NEW m \in [Cells -> Int], NEW c \in Cells, NEW v \in Int
  PROVE  Add(m, c, v) \in [Cells -> Int] /\ Put(m, c, v) \in [Cells -> Int]
  BY DEF Add, Put

\* A transfer touches two balances.
LEMMA TransferFacts ==
  ASSUME NEW m \in [Cells -> Int], NEW a \in Accounts, NEW b \in Accounts, NEW v \in Int
  PROVE  /\ Transfer(m, a, b, v) \in [Cells -> Int]
         /\ \A c \in Cells \ {Balance(a), Balance(b)} : Transfer(m, a, b, v)[c] = m[c]
         /\ a = b => Transfer(m, a, b, v)[Balance(a)] = m[Balance(a)]
         /\ a # b => /\ Transfer(m, a, b, v)[Balance(a)] = m[Balance(a)] - v
                     /\ Transfer(m, a, b, v)[Balance(b)] = m[Balance(b)] + v
  <1> DEFINE n == Add(m, Balance(a), -v)
  <1>1. Balance(a) \in Cells /\ Balance(b) \in Cells /\ (Balance(a) = Balance(b) <=> a = b)
    BY CellFacts, CellsDiffer
  <1>2. -v \in Int
    OBVIOUS
  <1>3. /\ n \in [Cells -> Int] /\ n[Balance(a)] = m[Balance(a)] + (-v)
        /\ \A d \in Cells \ {Balance(a)} : n[d] = m[d]
    BY <1>1, <1>2, AddType, AddFacts
  <1> HIDE DEF n
  <1>4. Transfer(m, a, b, v) = Add(n, Balance(b), v)
    BY DEF Transfer, n
  <1>5. /\ Add(n, Balance(b), v) \in [Cells -> Int]
        /\ Add(n, Balance(b), v)[Balance(b)] = n[Balance(b)] + v
        /\ \A d \in Cells \ {Balance(b)} : Add(n, Balance(b), v)[d] = n[d]
    BY <1>1, <1>3, AddType, AddFacts
  <1>6. m[Balance(a)] \in Int /\ m[Balance(b)] \in Int
    BY <1>1
  <1> QED BY <1>1, <1>3, <1>4, <1>5, <1>6

(***************************************************************************)
(* Recorded states.  An account is recorded with balance, nonce and code or *)
(* not at all, and what is recorded later is what the StateDB holds by then.*)
(***************************************************************************)
Uniform(pre) ==
    \A a \in Accounts : /\ pre[Balance(a)] = Absent <=> pre[Nonce(a)] = Absent
                        /\ pre[Balance(a)] = Absent <=> pre[Code(a)] = Absent

Grows(p, q, m) == \A c \in Cells : q[c] = p[c] \/ (p[c] = Absent /\ q[c] = m[c])

LEMMA LookupAccount ==
  ASSUME NEW pre \in Map, Uniform(pre), NEW m \in [Cells -> Int], NEW a \in Accounts
  PROVE  LET q == lookupAccount(pre, m, a)
         IN  q \in Map /\ Uniform(q) /\ Grows(pre, q, m) /\ a \in Recorded(q)
  <1> DEFINE q == lookupAccount(pre, m, a)
             cs == {Balance(a), Nonce(a), Code(a)}
  <1>1. CASE a \in Recorded(pre)
    <2>1. q = pre
      BY <1>1 DEF lookupAccount
    <2> HIDE DEF q
    <2> QED BY <1>1, <2>1 DEF Grows, q
  <1>2. CASE a \notin Recorded(pre)
    <2>1. q = [c \in Cells |-> IF c \in cs THEN m[c] ELSE pre[c]]
      BY <1>2 DEF lookupAccount
    <2>2. pre[Balance(a)] = Absent /\ pre[Nonce(a)] = Absent /\ pre[Code(a)] = Absent
      BY <1>2 DEF Recorded, Uniform
    <2>3. q \in Map
      BY <2>1 DEF Map
    <2>4. Grows(pre, q, m)
      BY <2>1, <2>2 DEF Grows
    <2>5. /\ q[Balance(a)] \in Int /\ q[Nonce(a)] \in Int /\ q[Code(a)] \in Int
          /\ \A b \in Accounts \ {a} : /\ q[Balance(b)] = pre[Balance(b)]
                                       /\ q[Nonce(b)] = pre[Nonce(b)] /\ q[Code(b)] = pre[Code(b)]
      BY <2>1, CellFacts, CellsDiffer
    <2> HIDE DEF q
    <2>6. Uniform(q) /\ a \in Recorded(q)
      BY <2>5, AbsentFacts DEF Uniform, Recorded
    <2> QED BY <2>3, <2>4, <2>6 DEF q
  <1> QED BY <1>1, <1>2

LEMMA LookupStorage ==
  ASSUME NEW pre \in Map, Uniform(pre), NEW m \in [Cells -> Int], NEW c \in Slots
  PROVE  LET q == lookupStorage(pre, m, c)
         IN  q \in Map /\ Uniform(q) /\ Grows(pre, q, m) /\ q[c] # Absent
  <1> DEFINE q == lookupStorage(pre, m, c)
  <1>1. c \in Cells
    BY DEF Cells
  <1>2. CASE pre[c] # Absent
    <2>1. q = pre
      BY <1>2 DEF lookupStorage
    <2> HIDE DEF q
    <2> QED BY <1>2, <2>1 DEF Grows, q
  <1>3. CASE pre[c] = Absent
    <2>1. q = [pre EXCEPT ![c] = m[c]]
      BY <1>3 DEF lookupStorage, Put
    <2>2. q \in Map /\ q[c] = m[c] /\ \A d \in Cells \ {c} : q[d] = pre[d]
      BY <1>1, <2>1 DEF Map
    <2> HIDE DEF q
    <2>3. Grows(pre, q, m) /\ q[c] # Absent
      BY <1>1, <1>3, <2>2, AbsentFacts DEF Grows
    <2>4. Uniform(q)
      <3>1. \A a \in Accounts : /\ q[Balance(a)] = pre[Balance(a)] /\ q[Nonce(a)] = pre[Nonce(a)]
                                /\ q[Code(a)] = pre[Code(a)]
        <4> TAKE a \in Accounts
        <4>1. Balance(a) \in Cells \ {c} /\ Nonce(a) \in Cells \ {c} /\ Code(a) \in Cells \ {c}
          BY CellFacts
        <4> QED BY <2>2, <4>1
      <3> QED BY <3>1 DEF Uniform
    <2> QED BY <2>2, <2>3, <2>4 DEF q
  <1> QED BY <1>2, <1>3

NoCells == [c \in Cells |-> Absent]

LEMMA NoCellsFacts == NoCells \in Map /\ Uniform(NoCells)
  BY CellFacts DEF NoCells, Map, Uniform

LEMMA GrowsKeeps ==
  ASSUME NEW p \in Map, NEW q \in Map, NEW m \in [Cells -> Int], Grows(p, q, m)
  PROVE  /\ \A c \in Cells : p[c] # Absent => q[c] # Absent
         /\ Recorded(p) \subseteq Recorded(q)
  BY CellFacts DEF Grows, Recorded

\* The state before a call, taken after its transfer: the accounts of the call and the others,
\* with the balances as they were before it.
LEMMA PreStateFacts ==
  ASSUME NEW m \in [Cells -> Int], NEW from \in Accounts, NEW to \in Accounts, NEW v \in Int,
         NEW others \in SUBSET Accounts
  PROVE  LET q == PreState(m, from, to, v, others)
         IN  /\ q \in Map /\ Uniform(q)
             /\ from \in Recorded(q) /\ to \in Recorded(q)
             /\ \A c \in Cells \ {Balance(from), Balance(to)} : q[c] = Absent \/ q[c] = m[c]
             /\ from = to => q[Balance(to)] = m[Balance(to)]
             /\ from # to => /\ q[Balance(to)] = m[Balance(to)] - v
                             /\ q[Balance(from)] = m[Balance(from)] + v
  <1> DEFINE one == lookupAccount(NoCells, m, from)
             seen == lookupAccount(one, m, to)
             all == [c \in Cells |-> IF c[2] \in others /\ c \notin Slots THEN m[c] ELSE seen[c]]
             mid == Add(all, Balance(to), -v)
             q == Add(mid, Balance(from), v)
  <1>1. one \in Map /\ Uniform(one) /\ from \in Recorded(one) /\ Grows(NoCells, one, m)
    BY NoCellsFacts, LookupAccount
  <1> HIDE DEF one
  <1>2. seen \in Map /\ Uniform(seen) /\ Grows(one, seen, m) /\ to \in Recorded(seen)
    BY <1>1, LookupAccount
  <1> HIDE DEF seen
  <1>3. from \in Recorded(seen)
    BY <1>1, <1>2, GrowsKeeps
  <1>4. \A c \in Cells : seen[c] = Absent \/ seen[c] = m[c]
    BY <1>1, <1>2 DEF Grows, NoCells
  <1>5. /\ all \in Map
        /\ \A c \in Cells : all[c] = Absent \/ all[c] = m[c]
    BY <1>2, <1>4 DEF Map
  <1>6. \A a \in Accounts : IF a \in others
          THEN /\ all[Balance(a)] = m[Balance(a)] /\ all[Nonce(a)] = m[Nonce(a)]
               /\ all[Code(a)] = m[Code(a)]
          ELSE /\ all[Balance(a)] = seen[Balance(a)] /\ all[Nonce(a)] = seen[Nonce(a)]
               /\ all[Code(a)] = seen[Code(a)]
    BY CellFacts
  <1> HIDE DEF all
  <1>7. Uniform(all) /\ from \in Recorded(all) /\ to \in Recorded(all)
    BY <1>2, <1>3, <1>6, CellFacts, AbsentFacts DEF Uniform, Recorded
  <1>8. /\ Balance(from) \in Cells /\ Balance(to) \in Cells
        /\ all[Balance(to)] = m[Balance(to)] /\ all[Balance(from)] = m[Balance(from)]
        /\ m[Balance(to)] \in Int /\ m[Balance(from)] \in Int
        /\ (Balance(from) = Balance(to) <=> from = to)
    BY <1>5, <1>7, CellFacts, CellsDiffer DEF Recorded
  <1>9. /\ DOMAIN mid = Cells /\ mid[Balance(to)] = all[Balance(to)] + (-v)
        /\ \A d \in Cells \ {Balance(to)} : mid[d] = all[d]
    BY <1>5, <1>8, AddFacts DEF Map
  <1> HIDE DEF mid
  <1>10. /\ q = [d \in Cells |-> IF d = Balance(from) THEN mid[Balance(from)] + v ELSE mid[d]]
         /\ q[Balance(from)] = mid[Balance(from)] + v
         /\ \A d \in Cells \ {Balance(from)} : q[d] = mid[d]
    BY <1>8, <1>9, AddFacts
  <1> HIDE DEF q
  <1>11. /\ from = to => q[Balance(to)] = m[Balance(to)]
         /\ from # to => /\ q[Balance(to)] = m[Balance(to)] - v
                         /\ q[Balance(from)] = m[Balance(from)] + v
    BY <1>8, <1>9, <1>10
  <1>12. \A c \in Cells \ {Balance(from), Balance(to)} : q[c] = all[c]
    BY <1>8, <1>9, <1>10
  <1>13. q[Balance(from)] \in Int /\ q[Balance(to)] \in Int
    BY <1>8, <1>11
  <1>14. q \in Map
    BY <1>5, <1>8, <1>10, <1>12, <1>13 DEF Map
  <1>15. Uniform(q) /\ from \in Recorded(q) /\ to \in Recorded(q)
    <2>1. \A a \in Accounts : /\ q[Nonce(a)] = all[Nonce(a)] /\ q[Code(a)] = all[Code(a)]
                              /\ (q[Balance(a)] = Absent <=> all[Balance(a)] = Absent)
      <3> TAKE a \in Accounts
      <3>1. q[Nonce(a)] = all[Nonce(a)] /\ q[Code(a)] = all[Code(a)]
        BY <1>12, CellFacts, CellsDiffer
      <3>2. CASE a \in {from, to}
        BY <1>8, <1>13, <3>1, <3>2, AbsentFacts
      <3>3. CASE a \notin {from, to}
        BY <1>12, <3>1, <3>3, CellFacts, CellsDiffer
      <3> QED BY <3>2, <3>3
    <2> QED BY <1>7, <2>1 DEF Uniform, Recorded
  <1>16. PreState(m, from, to, v, others) = q
    BY Zenon DEF PreState, q, mid, all, seen, one, NoCells
  <1> QED BY <1>5, <1>11, <1>12, <1>14, <1>15, <1>16

(***************************************************************************)
(* Frames and what the tracer notes in them.                                *)
(***************************************************************************)
LEMMA FrameFields ==
  ASSUME NEW f \in Frame
  PROVE  /\ f.kind \in CallKinds \cup CreateKinds
         /\ f.from \in Accounts /\ f.to \in Accounts /\ f.self \in Accounts
         /\ f.readOnly \in BOOLEAN /\ f.runs \in BOOLEAN /\ f.isState \in BOOLEAN
         /\ f.pre \in Map /\ f.created \in SUBSET Accounts /\ f.deleted \in SUBSET Accounts
         /\ f.location \in 0..MaxOps /\ f.at \in 0..MaxOps
         /\ f.save \in [Cells -> Int] /\ f.gone \in SUBSET Accounts
         /\ f.unseen \in SUBSET Accounts
  BY DEF Frame

SameCall(f, g) ==
    /\ g.kind = f.kind /\ g.from = f.from /\ g.to = f.to /\ g.self = f.self
    /\ g.isState = f.isState /\ g.location = f.location /\ g.at = f.at
    /\ g.save = f.save /\ g.gone = f.gone

\* g is the call f after an instruction has been looked at while the StateDB was m.
Noted(f, g, m) ==
    /\ g \in Frame /\ SameCall(f, g)
    /\ Uniform(g.pre) /\ Grows(f.pre, g.pre, m)
    /\ f.created \subseteq g.created /\ f.deleted \subseteq g.deleted
    /\ f.unseen \subseteq g.unseen

LEMMA NotedSelf ==
  ASSUME NEW f \in Frame, Uniform(f.pre), NEW m
  PROVE  Noted(f, f, m)
  BY DEF Noted, SameCall, Grows

LEMMA NewPre ==
  ASSUME NEW f \in Frame, NEW q \in Map, Uniform(q), NEW m, Grows(f.pre, q, m)
  PROVE  /\ Noted(f, [f EXCEPT !.pre = q], m)
         /\ [f EXCEPT !.pre = q].pre = q
         /\ [f EXCEPT !.pre = q].created = f.created
         /\ [f EXCEPT !.pre = q].deleted = f.deleted
  <1> DEFINE g == [f EXCEPT !.pre = q]
  <1>1. /\ g \in Frame /\ g.pre = q /\ g.created = f.created /\ g.deleted = f.deleted
        /\ g.unseen = f.unseen /\ SameCall(f, g)
    BY DEF Frame, SameCall
  <1> HIDE DEF g
  <1>2. Noted(f, g, m)
    BY <1>1 DEF Noted
  <1> QED BY <1>1, <1>2 DEF g

LEMMA SeeAccountFacts ==
  ASSUME TypeOK, NEW f \in Frame, Uniform(f.pre), NEW a \in Accounts
  PROVE  /\ Noted(f, SeeAccount(f, a), db) /\ a \in Recorded(SeeAccount(f, a).pre)
         /\ SeeAccount(f, a).created = f.created /\ SeeAccount(f, a).deleted = f.deleted
  <1> DEFINE q == lookupAccount(f.pre, db, a)
  <1>1. f.pre \in Map /\ db \in [Cells -> Int]
    BY FrameFields DEF TypeOK
  <1>2. q \in Map /\ Uniform(q) /\ Grows(f.pre, q, db) /\ a \in Recorded(q)
    BY <1>1, LookupAccount
  <1>3. SeeAccount(f, a) = [f EXCEPT !.pre = q]
    BY DEF SeeAccount
  <1> HIDE DEF q
  <1> QED BY <1>2, <1>3, NewPre

LEMMA SeeSlotFacts ==
  ASSUME TypeOK, NEW f \in Frame, Uniform(f.pre), NEW c \in Slots
  PROVE  Noted(f, SeeSlot(f, c), db) /\ SeeSlot(f, c).pre[c] # Absent
  <1> DEFINE q == lookupStorage(f.pre, db, c)
  <1>1. f.pre \in Map /\ db \in [Cells -> Int]
    BY FrameFields DEF TypeOK
  <1>2. q \in Map /\ Uniform(q) /\ Grows(f.pre, q, db) /\ q[c] # Absent
    BY <1>1, LookupStorage
  <1>3. SeeSlot(f, c) = [f EXCEPT !.pre = q]
    BY DEF SeeSlot
  <1> HIDE DEF q
  <1> QED BY <1>2, <1>3, NewPre

LEMMA SeeCreateFacts ==
  ASSUME TypeOK, NEW f \in Frame, Uniform(f.pre), NEW a \in Accounts
  PROVE  Noted(f, SeeCreate(f, a), db) /\ a \in Recorded(SeeCreate(f, a).pre)
  <1> DEFINE g == SeeAccount(f, a)
  <1>1. Noted(f, g, db) /\ a \in Recorded(g.pre) /\ g.created = f.created
    BY SeeAccountFacts
  <1>2. SeeCreate(f, a) = [g EXCEPT !.created = @ \cup {a}]
    BY DEF SeeCreate
  <1> HIDE DEF g
  <1> DEFINE h == [g EXCEPT !.created = @ \cup {a}]
  <1>3. /\ h \in Frame /\ h.pre = g.pre /\ h.created = g.created \cup {a} /\ h.deleted = g.deleted
        /\ h.unseen = g.unseen /\ SameCall(g, h)
    BY <1>1 DEF Noted, Frame, SameCall
  <1> HIDE DEF h
  <1>4. Noted(f, h, db) /\ a \in Recorded(h.pre)
    BY <1>1, <1>3 DEF Noted, SameCall
  <1> QED BY <1>2, <1>4 DEF h

LEMMA SeeSelfdestructFacts ==
  ASSUME TypeOK, NEW f \in Frame, Uniform(f.pre), NEW a \in Accounts, Top \in Frame
  PROVE  /\ Noted(f, SeeSelfdestruct(f, a), db) /\ a \in Recorded(SeeSelfdestruct(f, a).pre)
         /\ Top.self \in SeeSelfdestruct(f, a).deleted
  <1> DEFINE g == SeeAccount(f, a)
             me == Top.self
  <1>1. Noted(f, g, db) /\ a \in Recorded(g.pre) /\ g.deleted = f.deleted
    BY SeeAccountFacts
  <1>2. SeeSelfdestruct(f, a) = [g EXCEPT !.deleted = @ \cup {me}]
    BY DEF SeeSelfdestruct
  <1>3. me \in Accounts
    BY FrameFields
  <1> HIDE DEF g, me
  <1> DEFINE h == [g EXCEPT !.deleted = @ \cup {me}]
  <1>4. /\ h \in Frame /\ h.pre = g.pre /\ h.created = g.created /\ h.deleted = g.deleted \cup {me}
        /\ h.unseen = g.unseen /\ SameCall(g, h)
    BY <1>1, <1>3 DEF Noted, Frame, SameCall
  <1> HIDE DEF h
  <1>5. Noted(f, h, db) /\ a \in Recorded(h.pre) /\ me \in h.deleted
    BY <1>1, <1>4 DEF Noted, SameCall
  <1> QED BY <1>2, <1>5 DEF h, me

(***************************************************************************)
(* The inductive invariant, of a call stack s, the StateDB m and the set g  *)
(* of self-destructed accounts.  For every stated call i: it knows, that is *)
(* has recorded or missed in a CREATE2, the accounts of all calls inside    *)
(* it; what it recorded is the state at its entry; what it neither recorded *)
(* nor missed is untouched, in m and in all that an error of an inner call  *)
(* may bring back; and it has noted every account that self-destructed      *)
(* since, whatever inner call is undone.                                    *)
(***************************************************************************)
StatedIn(s) == {i \in DOMAIN s : s[i].isState}

EntryIn(s, i) == IF i = 1 THEN Add(s[i].save, Nonce(s[i].from), -1) ELSE s[i].save

LateIn(s, i) == IF i = 1 /\ s[i].kind = "CREATE" THEN {Nonce(s[i].to)} ELSE {}

Known(f) == Recorded(f.pre) \cup f.unseen

Unknown(f, c) == f.pre[c] = Absent /\ c[2] \notin f.unseen

Visible(s, i) ==
    /\ s[i].from \in Recorded(s[i].pre)
    /\ \A j \in i..Len(s) : s[j].self \in Known(s[i]) /\ s[j].to \in Known(s[i])

SeenAtEntry(s, i) ==
    \A c \in Cells \ LateIn(s, i) : s[i].pre[c] # Absent /\ c[2] \notin s[i].unseen
                                       => s[i].pre[c] = EntryIn(s, i)[c]

Untouched(s, i, m) ==
    \A c \in Cells : Unknown(s[i], c) =>
        /\ m[c] = EntryIn(s, i)[c]
        /\ \A j \in (i + 1)..Len(s) : s[j].save[c] = EntryIn(s, i)[c]

DeletedKnown(s, i, g) ==
    /\ g \ s[i].gone \subseteq s[i].deleted
    /\ \A j \in (i + 1)..Len(s) : s[j].gone \ s[i].gone \subseteq s[i].deleted

Located(s, i) == (i > 1 /\ \E j \in StatedIn(s) : j < i) => s[i].location = s[i].at

Good(s, m, g) ==
    /\ s \in Seq(Frame) /\ s # <<>> /\ m \in [Cells -> Int] /\ g \in SUBSET Accounts
    /\ \A i \in 1..Len(s) : Uniform(s[i].pre)
    /\ \A i \in StatedIn(s) :
          /\ Visible(s, i) /\ SeenAtEntry(s, i) /\ Untouched(s, i, m)
          /\ DeletedKnown(s, i, g) /\ Located(s, i)

Aligned(s, pts) ==
    /\ pts \in Seq(1..Len(s))
    /\ {pts[j] : j \in DOMAIN pts} = StatedIn(s)
    /\ Len(pts) = Cardinality(StatedIn(s))
    /\ \A i, j \in 1..Len(pts) : i < j => pts[i] < pts[j]

\* Every call of s has been noted in t while the StateDB was m.
NotedAll(s, t, m) ==
    /\ t \in Seq(Frame) /\ Len(t) = Len(s)
    /\ \A i \in 1..Len(s) : Noted(s[i], t[i], m)

\* A known account is known in all its cells but the slots.
LEMMA KnownCells ==
  ASSUME NEW f \in Frame, Uniform(f.pre), NEW a \in Known(f), a \in Accounts
  PROVE  ~Unknown(f, Balance(a)) /\ ~Unknown(f, Nonce(a)) /\ ~Unknown(f, Code(a))
  <1>1. CASE a \in f.unseen
    BY <1>1, CellFacts DEF Unknown
  <1>2. CASE a \in Recorded(f.pre)
    BY <1>2 DEF Unknown, Recorded, Uniform
  <1> QED BY <1>1, <1>2 DEF Known

LEMMA EntryType ==
  ASSUME NEW s \in Seq(Frame), NEW i \in 1..Len(s)
  PROVE  EntryIn(s, i) \in [Cells -> Int]
  <1>1. s[i] \in Frame
    OBVIOUS
  <1>2. s[i].save \in [Cells -> Int] /\ s[i].from \in Accounts
    BY <1>1, FrameFields
  <1>3. Nonce(s[i].from) \in Cells
    BY <1>2, CellFacts
  <1>4. -1 \in Int
    OBVIOUS
  <1>5. Add(s[i].save, Nonce(s[i].from), -1) \in [Cells -> Int]
    BY <1>2, <1>3, <1>4, AddType, Zenon
  <1> QED BY <1>2, <1>5 DEF EntryIn

LEMMA NotedAllFacts ==
  ASSUME NEW s \in Seq(Frame), NEW t, NEW m \in [Cells -> Int], NotedAll(s, t, m)
  PROVE  /\ StatedIn(t) = StatedIn(s)
         /\ \A i \in 1..Len(s) : /\ EntryIn(t, i) = EntryIn(s, i) /\ LateIn(t, i) = LateIn(s, i)
                                 /\ Recorded(s[i].pre) \subseteq Recorded(t[i].pre)
                                 /\ Known(s[i]) \subseteq Known(t[i])
                                 /\ \A c \in Cells : Unknown(t[i], c) => Unknown(s[i], c)
  <1>1. DOMAIN t = 1..Len(s) /\ DOMAIN s = 1..Len(s)
    BY DEF NotedAll
  <1>2. \A i \in 1..Len(s) : SameCall(s[i], t[i]) /\ Grows(s[i].pre, t[i].pre, m)
                             /\ s[i].pre \in Map /\ t[i].pre \in Map
                             /\ s[i].unseen \subseteq t[i].unseen
    <2> TAKE i \in 1..Len(s)
    <2>1. s[i] \in Frame /\ Noted(s[i], t[i], m)
      BY DEF NotedAll
    <2> QED BY <2>1, FrameFields DEF Noted
  <1>3. StatedIn(t) = StatedIn(s)
    BY <1>1, <1>2 DEF StatedIn, SameCall
  <1>4. ASSUME NEW i \in 1..Len(s)
        PROVE  EntryIn(t, i) = EntryIn(s, i) /\ LateIn(t, i) = LateIn(s, i)
    BY <1>2 DEF EntryIn, LateIn, SameCall
  <1>5. ASSUME NEW i \in 1..Len(s)
        PROVE  /\ Recorded(s[i].pre) \subseteq Recorded(t[i].pre)
               /\ Known(s[i]) \subseteq Known(t[i])
               /\ \A c \in Cells : Unknown(t[i], c) => Unknown(s[i], c)
    <2>1. /\ Recorded(s[i].pre) \subseteq Recorded(t[i].pre)
          /\ \A c \in Cells : s[i].pre[c] # Absent => t[i].pre[c] # Absent
      BY <1>2, GrowsKeeps
    <2>2. s[i].unseen \subseteq t[i].unseen
      BY <1>2
    <2> QED BY <2>1, <2>2 DEF Known, Unknown
  <1> QED BY <1>3, <1>4, <1>5

LEMMA NoteKeeps ==
  ASSUME NEW s, NEW t, NEW m, NEW g, Good(s, m, g), NotedAll(s, t, m)
  PROVE  Good(t, m, g)
  <1>1. s \in Seq(Frame) /\ s # <<>> /\ m \in [Cells -> Int] /\ g \in SUBSET Accounts
    BY DEF Good
  <1>2. t \in Seq(Frame) /\ t # <<>> /\ Len(t) = Len(s) /\ DOMAIN t = 1..Len(s)
    BY <1>1 DEF NotedAll
  <1>3. \A i \in 1..Len(s) : Noted(s[i], t[i], m)
    BY DEF NotedAll
  <1>4. \A i \in 1..Len(t) : Uniform(t[i].pre)
    BY <1>2, <1>3 DEF Noted
  <1>5. ASSUME NEW i \in StatedIn(t)
        PROVE  /\ Visible(t, i) /\ SeenAtEntry(t, i) /\ Untouched(t, i, m)
               /\ DeletedKnown(t, i, g) /\ Located(t, i)
    <2>1. i \in StatedIn(s) /\ i \in 1..Len(s) /\ StatedIn(t) = StatedIn(s)
      BY <1>1, <1>2, NotedAllFacts DEF StatedIn
    <2>2. /\ Visible(s, i) /\ SeenAtEntry(s, i) /\ Untouched(s, i, m)
          /\ DeletedKnown(s, i, g) /\ Located(s, i)
      BY <2>1 DEF Good
    <2>3. /\ EntryIn(t, i) = EntryIn(s, i) /\ LateIn(t, i) = LateIn(s, i)
          /\ Recorded(s[i].pre) \subseteq Recorded(t[i].pre)
          /\ Known(s[i]) \subseteq Known(t[i])
          /\ \A c \in Cells : Unknown(t[i], c) => Unknown(s[i], c)
      BY <1>1, <2>1, NotedAllFacts
    <2>4. /\ Grows(s[i].pre, t[i].pre, m) /\ s[i].deleted \subseteq t[i].deleted
          /\ s[i].unseen \subseteq t[i].unseen
      BY <1>3, <2>1 DEF Noted
    <2>5. \A j \in 1..Len(s) : SameCall(s[j], t[j])
      BY <1>3 DEF Noted
    <2>6. Visible(t, i)
      <3>1. t[i].from \in Recorded(t[i].pre)
        BY <2>1, <2>2, <2>3, <2>5 DEF Visible, SameCall
      <3>2. ASSUME NEW j \in i..Len(t)
            PROVE  t[j].self \in Known(t[i]) /\ t[j].to \in Known(t[i])
        <4>1. j \in i..Len(s) /\ j \in 1..Len(s)
          BY <1>2, <2>1
        <4> QED BY <2>2, <2>3, <2>5, <4>1 DEF Visible, SameCall
      <3> QED BY <3>1, <3>2 DEF Visible
    <2>7. SeenAtEntry(t, i)
      BY <2>2, <2>3, <2>4 DEF SeenAtEntry, Untouched, Grows, Unknown
    <2>8. Untouched(t, i, m)
      <3> SUFFICES ASSUME NEW c \in Cells, Unknown(t[i], c)
                   PROVE  /\ m[c] = EntryIn(t, i)[c]
                          /\ \A j \in (i + 1)..Len(t) : t[j].save[c] = EntryIn(t, i)[c]
        BY DEF Untouched
      <3>1. Unknown(s[i], c)
        BY <2>3
      <3>2. ASSUME NEW j \in (i + 1)..Len(t)
            PROVE  t[j].save[c] = s[j].save[c] /\ j \in (i + 1)..Len(s)
        <4>1. j \in 1..Len(s) /\ j \in (i + 1)..Len(s)
          BY <1>2, <2>1
        <4> QED BY <4>1, <2>5 DEF SameCall
      <3> QED BY <2>2, <2>3, <3>1, <3>2 DEF Untouched
    <2>9. DeletedKnown(t, i, g)
      <3>1. t[i].gone = s[i].gone
        BY <2>1, <2>5 DEF SameCall
      <3>2. ASSUME NEW j \in (i + 1)..Len(t)
            PROVE  t[j].gone = s[j].gone /\ j \in (i + 1)..Len(s)
        <4>1. j \in 1..Len(s) /\ j \in (i + 1)..Len(s)
          BY <1>2, <2>1
        <4> QED BY <4>1, <2>5 DEF SameCall
      <3> QED BY <2>2, <2>4, <3>1, <3>2 DEF DeletedKnown
    <2>10. Located(t, i)
      BY <2>1, <2>2, <2>5 DEF Located, SameCall
    <2> QED BY <2>6, <2>7, <2>8, <2>9, <2>10
  <1> QED BY <1>1, <1>2, <1>4, <1>5 DEF Good

\* A write to what every stated call has recorded.
LEMMA WriteKeeps ==
  ASSUME NEW s, NEW m, NEW g, Good(s, m, g),
         NEW n \in [Cells -> Int], NEW h \in SUBSET Accounts,
         \A i \in StatedIn(s) : /\ \A c \in Cells : Unknown(s[i], c) => n[c] = m[c]
                                /\ h \ g \subseteq s[i].deleted
  PROVE  Good(s, n, h)
  <1>1. ASSUME NEW i \in StatedIn(s)
        PROVE  /\ Visible(s, i) /\ SeenAtEntry(s, i) /\ Untouched(s, i, n)
               /\ DeletedKnown(s, i, h) /\ Located(s, i)
    <2>1. /\ Visible(s, i) /\ SeenAtEntry(s, i) /\ Untouched(s, i, m)
          /\ DeletedKnown(s, i, g) /\ Located(s, i)
      BY DEF Good
    <2>2. Untouched(s, i, n)
      BY <2>1 DEF Untouched
    <2>3. DeletedKnown(s, i, h)
      BY <2>1 DEF DeletedKnown
    <2> QED BY <2>1, <2>2, <2>3
  <1> QED BY <1>1 DEF Good

\* What a call does not know is the same in n as in m.
SameUnknown(s, n, m) ==
    \A i \in StatedIn(s) : \A c \in Cells : Unknown(s[i], c) => n[c] = m[c]

LEMMA WriteKeepsSame ==
  ASSUME NEW s, NEW m, NEW g \in SUBSET Accounts, Good(s, m, g),
         NEW n \in [Cells -> Int], SameUnknown(s, n, m)
  PROVE  Good(s, n, g)
  <1>1. \A i \in StatedIn(s) : /\ \A c \in Cells : Unknown(s[i], c) => n[c] = m[c]
                               /\ g \ g \subseteq s[i].deleted
    BY DEF SameUnknown
  <1>2. Good(s, n, g)
    BY <1>1, WriteKeeps
  <1> QED BY <1>2

LEMMA PushKeeps ==
  ASSUME NEW s, NEW m, NEW g, Good(s, m, g), NEW f \in Frame, Uniform(f.pre), f.gone = g,
         NEW n \in [Cells -> Int],
         \A i \in StatedIn(s) :
            /\ f.self \in Known(s[i]) /\ f.to \in Known(s[i])
            /\ \A c \in Cells : Unknown(s[i], c) => f.save[c] = m[c] /\ n[c] = m[c],
         f.isState =>
            /\ {f.from, f.to, f.self} \subseteq Recorded(f.pre)
            /\ \A c \in Cells : f.pre[c] # Absent => f.pre[c] = f.save[c]
            /\ \A c \in Cells : f.pre[c] = Absent => n[c] = f.save[c]
            /\ (StatedIn(s) # {} => f.location = f.at)
  PROVE  Good(Append(s, f), n, g)
  <1> DEFINE t == Append(s, f)
  <1>1. s \in Seq(Frame) /\ s # <<>> /\ g \in SUBSET Accounts
    BY DEF Good
  <1>2. /\ t \in Seq(Frame) /\ t # <<>> /\ Len(t) = Len(s) + 1 /\ Len(s) \in Nat /\ Len(s) >= 1
        /\ DOMAIN t = 1..(Len(s) + 1) /\ DOMAIN s = 1..Len(s)
        /\ \A i \in 1..Len(s) : t[i] = s[i]
        /\ t[Len(s) + 1] = f
    BY <1>1
  <1> HIDE DEF t
  <1>3. \A i \in 1..Len(t) : Uniform(t[i].pre)
    <2> TAKE i \in 1..Len(t)
    <2>1. i \in 1..Len(s) \/ i = Len(s) + 1
      BY <1>2
    <2> QED BY <1>2, <2>1 DEF Good
  <1>4. ASSUME NEW i \in StatedIn(s)
        PROVE  /\ Visible(t, i) /\ SeenAtEntry(t, i) /\ Untouched(t, i, n)
               /\ DeletedKnown(t, i, g) /\ Located(t, i)
    <2>1. /\ Visible(s, i) /\ SeenAtEntry(s, i) /\ Untouched(s, i, m)
          /\ DeletedKnown(s, i, g) /\ Located(s, i)
      BY DEF Good
    <2>2. i \in 1..Len(s) /\ t[i] = s[i]
      BY <1>2 DEF StatedIn
    <2>3. EntryIn(t, i) = EntryIn(s, i) /\ LateIn(t, i) = LateIn(s, i)
      BY <2>2 DEF EntryIn, LateIn
    <2>4. \A j \in 1..Len(t) : (j \in 1..Len(s) /\ t[j] = s[j]) \/ (j = Len(s) + 1 /\ t[j] = f)
      BY <1>2
    <2>5. Visible(t, i)
      <3>1. ASSUME NEW j \in i..Len(t)
            PROVE  t[j].self \in Known(s[i]) /\ t[j].to \in Known(s[i])
        <4>1. CASE j \in 1..Len(s)
          <5>1. j \in i..Len(s) /\ t[j] = s[j]
            BY <1>2, <2>2, <4>1
          <5> QED BY <2>1, <5>1 DEF Visible
        <4>2. CASE j = Len(s) + 1
          BY <1>2, <4>2
        <4> QED BY <1>2, <2>2, <2>4, <4>1, <4>2
      <3> QED BY <2>1, <2>2, <3>1 DEF Visible
    <2>6. SeenAtEntry(t, i)
      BY <2>1, <2>2, <2>3 DEF SeenAtEntry
    <2>7. Untouched(t, i, n)
      <3> SUFFICES ASSUME NEW c \in Cells, Unknown(t[i], c)
                   PROVE  /\ n[c] = EntryIn(t, i)[c]
                          /\ \A j \in (i + 1)..Len(t) : t[j].save[c] = EntryIn(t, i)[c]
        BY DEF Untouched
      <3>1. /\ m[c] = EntryIn(s, i)[c] /\ n[c] = m[c] /\ f.save[c] = m[c]
            /\ \A j \in (i + 1)..Len(s) : s[j].save[c] = EntryIn(s, i)[c]
        BY <2>1, <2>2 DEF Untouched
      <3>2. ASSUME NEW j \in (i + 1)..Len(t)
            PROVE  t[j].save[c] = EntryIn(s, i)[c]
        <4>1. CASE j \in 1..Len(s)
          <5>1. j \in (i + 1)..Len(s) /\ t[j] = s[j]
            BY <1>2, <2>2, <4>1
          <5> QED BY <3>1, <5>1
        <4>2. CASE j = Len(s) + 1
          BY <1>2, <3>1, <4>2
        <4> QED BY <1>2, <2>2, <4>1, <4>2
      <3> QED BY <2>3, <3>1, <3>2
    <2>8. DeletedKnown(t, i, g)
      <3>1. ASSUME NEW j \in (i + 1)..Len(t)
            PROVE  t[j].gone \ s[i].gone \subseteq s[i].deleted
        <4>1. CASE j \in 1..Len(s)
          <5>1. j \in (i + 1)..Len(s) /\ t[j] = s[j]
            BY <1>2, <2>2, <4>1
          <5> QED BY <2>1, <5>1 DEF DeletedKnown
        <4>2. CASE j = Len(s) + 1
          BY <1>2, <2>1, <4>2 DEF DeletedKnown
        <4> QED BY <1>2, <2>2, <4>1, <4>2
      <3> QED BY <2>1, <2>2, <3>1 DEF DeletedKnown
    <2>9. Located(t, i)
      <3>1. \A j \in StatedIn(t) : j < i => j \in StatedIn(s)
        BY <1>2, <2>2 DEF StatedIn
      <3> QED BY <2>1, <2>2, <3>1 DEF Located
    <2> QED BY <2>5, <2>6, <2>7, <2>8, <2>9
  <1>5. ASSUME NEW i, i = Len(s) + 1, f.isState
        PROVE  /\ Visible(t, i) /\ SeenAtEntry(t, i) /\ Untouched(t, i, n)
               /\ DeletedKnown(t, i, g) /\ Located(t, i)
    <2>1. t[i] = f /\ i > 1 /\ EntryIn(t, i) = f.save /\ LateIn(t, i) = {}
      BY <1>2, <1>5 DEF EntryIn, LateIn
    <2>2. (\A j \in i..Len(t) : j = i) /\ (i + 1)..Len(t) = {}
      BY <1>2, <1>5
    <2>3. Visible(t, i)
      BY <1>5, <2>1, <2>2 DEF Visible, Known
    <2>4. SeenAtEntry(t, i) /\ Untouched(t, i, n)
      BY <1>5, <2>1, <2>2 DEF SeenAtEntry, Untouched, Unknown
    <2>5. DeletedKnown(t, i, g)
      BY <1>5, <2>1, <2>2 DEF DeletedKnown
    <2>6. Located(t, i)
      <3>1. \A j \in StatedIn(t) : j < i => j \in StatedIn(s)
        BY <1>2, <1>5 DEF StatedIn
      <3> QED BY <1>5, <2>1, <3>1 DEF Located
    <2> QED BY <2>3, <2>4, <2>5, <2>6
  <1>6. \A i \in StatedIn(t) : i \in StatedIn(s) \/ (i = Len(s) + 1 /\ f.isState)
    BY <1>2 DEF StatedIn
  <1>7. Good(t, n, g)
    BY <1>1, <1>2, <1>3, <1>4, <1>5, <1>6 DEF Good
  <1> QED BY <1>7 DEF t

\* The StateDB and the self-destructed accounts after the innermost call of s, whose StateDB
\* was m with g, has ended.
LeftBy(s, ok, m, n, g, h) ==
    LET f == s[Len(s)]
    IN  n = Left(ok, f, m, f.save) /\ h = IF ok THEN g ELSE f.gone

LEMMA LeftFacts ==
  ASSUME NEW s, NEW m, NEW g, Good(s, m, g), NEW ok \in BOOLEAN, NEW n, NEW h,
         LeftBy(s, ok, m, n, g, h)
  PROVE  /\ n \in [Cells -> Int] /\ h \in SUBSET Accounts
         /\ ~ok => n = s[Len(s)].save /\ h = s[Len(s)].gone
         /\ ok => h = g /\ \A c \in Cells \ {Code(s[Len(s)].to)} : n[c] = m[c]
  <1> DEFINE f == s[Len(s)]
  <1>1. s \in Seq(Frame) /\ s # <<>> /\ m \in [Cells -> Int] /\ g \in SUBSET Accounts
    BY DEF Good
  <1>2. f \in Frame
    BY <1>1
  <1>3. f.save \in [Cells -> Int] /\ f.gone \in SUBSET Accounts /\ f.to \in Accounts
    BY <1>2, FrameFields
  <1> HIDE DEF f
  <1>4. n = Left(ok, f, m, f.save) /\ h = IF ok THEN g ELSE f.gone
    BY DEF LeftBy, f
  <1>5. CASE ~ok
    <2>1. n = f.save
      BY <1>4, <1>5, Zenon DEF Left
    <2> QED BY <1>3, <1>4, <1>5, <2>1 DEF f
  <1>6. CASE ok /\ f.kind \in CreateKinds
    <2>1. n = Put(m, Code(f.to), IF f.runs THEN 1 ELSE 0)
      BY <1>4, <1>6, Zenon DEF Left
    <2>2. Code(f.to) \in Cells
      BY <1>3, CellFacts
    <2> DEFINE v == IF f.runs THEN 1 ELSE 0
    <2>3. v \in Int
      OBVIOUS
    <2> HIDE DEF v
    <2>4. n = Put(m, Code(f.to), v)
      BY <2>1 DEF v
    <2>5. n \in [Cells -> Int]
      BY <1>1, <2>2, <2>3, <2>4, AddType, Zenon
    <2>6. \A c \in Cells \ {Code(f.to)} : n[c] = m[c]
      BY <1>1, <2>2, <2>4, AddFacts
    <2> QED BY <1>1, <1>4, <1>6, <2>5, <2>6 DEF f
  <1>7. CASE ok /\ f.kind \notin CreateKinds
    <2>1. n = m
      BY <1>4, <1>7, Zenon DEF Left
    <2> QED BY <1>1, <1>4, <1>7, <2>1
  <1> QED BY <1>5, <1>6, <1>7

LEMMA PopKeeps ==
  ASSUME NEW s, NEW m, NEW g, Good(s, m, g), NEW ok \in BOOLEAN, NEW n, NEW h,
         LeftBy(s, ok, m, n, g, h)
  PROVE  /\ Good(s, n, IF ok THEN g ELSE s[Len(s)].gone) /\ h = IF ok THEN g ELSE s[Len(s)].gone
         /\ Len(s) > 1 => Good(SubSeq(s, 1, Len(s) - 1), n, h)
  <1> DEFINE t == SubSeq(s, 1, Len(s) - 1)
             f == s[Len(s)]
  <1>1. s \in Seq(Frame) /\ s # <<>> /\ g \in SUBSET Accounts /\ Len(s) \in Nat /\ Len(s) >= 1
    BY DEF Good
  <1>2. /\ n \in [Cells -> Int] /\ h \in SUBSET Accounts
        /\ ~ok => n = f.save /\ h = f.gone
        /\ ok => h = g /\ \A c \in Cells \ {Code(f.to)} : n[c] = m[c]
    BY LeftFacts
  <1>3. f \in Frame /\ f.to \in Accounts /\ f.save \in [Cells -> Int] /\ f.from \in Accounts
    BY <1>1, FrameFields
  <1>4. ASSUME NEW i \in StatedIn(s)
        PROVE  Untouched(s, i, n) /\ DeletedKnown(s, i, h)
    <2>1. /\ Visible(s, i) /\ Untouched(s, i, m) /\ DeletedKnown(s, i, g)
      BY DEF Good
    <2>2. i \in 1..Len(s)
      BY <1>1 DEF StatedIn
    <2>3. ASSUME NEW c \in Cells, Unknown(s[i], c)
          PROVE  n[c] = EntryIn(s, i)[c]
      <3>1. f.to \in Known(s[i])
        BY <1>1, <2>1, <2>2 DEF Visible
      <3>2. Uniform(s[i].pre) /\ s[i] \in Frame
        BY <1>1, <2>2 DEF Good
      <3>3. c # Code(f.to)
        BY <1>3, <2>3, <3>1, <3>2, KnownCells
      <3>4. CASE ok
        BY <1>2, <2>1, <2>3, <3>3, <3>4 DEF Untouched
      <3>5. CASE ~ok /\ i < Len(s)
        <4>1. Len(s) \in (i + 1)..Len(s)
          BY <1>1, <2>2, <3>5
        <4> QED BY <1>2, <2>1, <2>3, <3>5, <4>1 DEF Untouched
      <3>6. CASE ~ok /\ i = Len(s)
        <4>1. n[c] = f.save[c]
          BY <1>2, <3>6
        <4>2. CASE i # 1
          BY <3>6, <4>1, <4>2 DEF EntryIn
        <4>3. CASE i = 1
          <5>1. f.from \in Recorded(s[i].pre)
            BY <2>1, <3>6 DEF Visible
          <5>2. c # Nonce(f.from)
            BY <1>3, <2>3, <3>2, <5>1, KnownCells DEF Known
          <5>3. EntryIn(s, i) = Add(f.save, Nonce(f.from), -1)
            BY <3>6, <4>3 DEF EntryIn
          <5>4. Nonce(f.from) \in Cells /\ DOMAIN f.save = Cells
            BY <1>3, CellFacts
          <5>5. Add(f.save, Nonce(f.from), -1)[c] = f.save[c]
            BY <5>2, <5>4, AddFacts
          <5> QED BY <4>1, <5>3, <5>5
        <4> QED BY <4>2, <4>3
      <3> QED BY <1>1, <2>2, <3>4, <3>5, <3>6
    <2>4. Untouched(s, i, n)
      BY <2>1, <2>3 DEF Untouched
    <2>5. h \ s[i].gone \subseteq s[i].deleted
      <3>1. CASE ok
        BY <1>2, <2>1, <3>1 DEF DeletedKnown
      <3>2. CASE ~ok /\ i < Len(s)
        <4>1. Len(s) \in (i + 1)..Len(s)
          BY <1>1, <2>2, <3>2
        <4> QED BY <1>2, <2>1, <3>2, <4>1 DEF DeletedKnown
      <3>3. CASE ~ok /\ i = Len(s)
        BY <1>2, <3>3
      <3> QED BY <1>1, <2>2, <3>1, <3>2, <3>3
    <2>6. DeletedKnown(s, i, h)
      BY <2>1, <2>5 DEF DeletedKnown
    <2> QED BY <2>4, <2>6
  <1>5. Good(s, n, h)
    BY <1>2, <1>4 DEF Good
  <1>6. h = IF ok THEN g ELSE f.gone
    BY <1>2
  <1>7. ASSUME Len(s) > 1
        PROVE  Good(t, n, h)
    <2> HIDE DEF f
    <2>a. /\ t \in Seq(Frame) /\ Len(t) = Len(s) - 1
          /\ DOMAIN t = 1..(Len(s) - 1) /\ DOMAIN s = 1..Len(s)
          /\ \A i \in 1..(Len(s) - 1) : t[i] = s[i]
      BY <1>1, <1>7
    <2> HIDE DEF t
    <2>b. t # <<>>
      BY <1>1, <1>7, <2>a
    <2>1. /\ t \in Seq(Frame) /\ t # <<>> /\ Len(t) = Len(s) - 1
          /\ DOMAIN t = 1..(Len(s) - 1) /\ DOMAIN s = 1..Len(s)
          /\ \A i \in 1..(Len(s) - 1) : t[i] = s[i]
      BY <2>a, <2>b
    <2>2. \A i \in 1..Len(t) : i \in 1..Len(s) /\ t[i] = s[i]
      BY <1>1, <2>1
    <2>3. \A i \in 1..Len(t) : Uniform(t[i].pre)
      BY <2>2 DEF Good
    <2>4. ASSUME NEW i \in StatedIn(t)
          PROVE  /\ Visible(t, i) /\ SeenAtEntry(t, i) /\ Untouched(t, i, n)
                 /\ DeletedKnown(t, i, h) /\ Located(t, i)
      <3>1. i \in 1..Len(t) /\ i \in 1..Len(s) /\ i \in StatedIn(s) /\ t[i] = s[i]
        BY <2>1, <2>2 DEF StatedIn
      <3>2. /\ Visible(s, i) /\ SeenAtEntry(s, i) /\ Untouched(s, i, n)
            /\ DeletedKnown(s, i, h) /\ Located(s, i)
        BY <1>5, <3>1 DEF Good
      <3>3. EntryIn(t, i) = EntryIn(s, i) /\ LateIn(t, i) = LateIn(s, i)
        BY <3>1 DEF EntryIn, LateIn
      <3>4. /\ \A j \in i..Len(t) : j \in i..Len(s) /\ t[j] = s[j]
            /\ \A j \in (i + 1)..Len(t) : j \in (i + 1)..Len(s) /\ t[j] = s[j]
        BY <1>1, <2>1, <3>1
      <3>5. Visible(t, i)
        BY <3>1, <3>2, <3>4 DEF Visible
      <3>6. SeenAtEntry(t, i)
        BY <3>1, <3>2, <3>3 DEF SeenAtEntry
      <3>7. Untouched(t, i, n)
        BY <3>1, <3>2, <3>3, <3>4 DEF Untouched
      <3>8. DeletedKnown(t, i, h)
        BY <3>1, <3>2, <3>4 DEF DeletedKnown
      <3>9. Located(t, i)
        <4>1. \A j \in StatedIn(t) : j \in StatedIn(s)
          BY <2>1, <2>2 DEF StatedIn
        <4> QED BY <3>1, <3>2, <4>1 DEF Located
      <3> QED BY <3>5, <3>6, <3>7, <3>8, <3>9
    <2> QED BY <1>2, <2>1, <2>3, <2>4 DEF Good
  <1> QED BY <1>5, <1>6, <1>7

(***************************************************************************)
(* The list of pointers.                                                    *)
(***************************************************************************)
LEMMA StatedFinite ==
  ASSUME NEW s \in Seq(Frame)
  PROVE  IsFiniteSet(StatedIn(s)) /\ StatedIn(s) \subseteq 1..Len(s)
  <1>1. IsFiniteSet(1..Len(s)) /\ StatedIn(s) \subseteq 1..Len(s)
    BY FS_Interval DEF StatedIn
  <1> QED BY <1>1, FS_Subset

\* The pointer to the innermost stated call is the last one.
LEMMA LastPointer ==
  ASSUME NEW s \in Seq(Frame), s # <<>>, NEW pts, Aligned(s, pts), s[Len(s)].isState
  PROVE  pts # <<>> /\ pts[Len(pts)] = Len(s)
  <1>1. Len(s) \in StatedIn(s) /\ Len(s) \in Nat
    BY DEF StatedIn
  <1>2. pts \in Seq(1..Len(s)) /\ DOMAIN pts = 1..Len(pts) /\ Len(pts) \in Nat
    BY DEF Aligned
  <1>3. PICK j \in 1..Len(pts) : pts[j] = Len(s)
    BY <1>1, <1>2 DEF Aligned
  <1>4. Len(pts) \in 1..Len(pts) /\ pts[Len(pts)] \in 1..Len(s)
    BY <1>2, <1>3
  <1>5. j = Len(pts)
    <2>1. j < Len(pts) => pts[j] < pts[Len(pts)]
      BY <1>4 DEF Aligned
    <2>2. ~(j < Len(pts))
      BY <1>1, <1>3, <1>4, <2>1
    <2>3. Len(pts) \in Nat
      BY <1>2
    <2> QED BY <2>2, <2>3
  <1> QED BY <1>2, <1>3, <1>5

LEMMA PushAligned ==
  ASSUME NEW s \in Seq(Frame), NEW pts, Aligned(s, pts), NEW f \in Frame
  PROVE  Aligned(Append(s, f), IF f.isState THEN Append(pts, Len(s) + 1) ELSE pts)
  <1> DEFINE t == Append(s, f)
             q == Append(pts, Len(s) + 1)
  <1>1. /\ t \in Seq(Frame) /\ Len(t) = Len(s) + 1 /\ Len(s) \in Nat
        /\ DOMAIN t = 1..(Len(s) + 1) /\ DOMAIN s = 1..Len(s)
        /\ \A i \in 1..Len(s) : t[i] = s[i]
        /\ t[Len(s) + 1] = f
    OBVIOUS
  <1>2. pts \in Seq(1..Len(s)) /\ DOMAIN pts = 1..Len(pts) /\ Len(pts) \in Nat
    BY DEF Aligned
  <1>3. \A j \in 1..Len(pts) : pts[j] \in 1..Len(s)
    BY <1>2
  <1>4. IsFiniteSet(StatedIn(s)) /\ StatedIn(s) \subseteq 1..Len(s)
    BY StatedFinite
  <1>5. CASE f.isState
    <2>1. StatedIn(t) = StatedIn(s) \cup {Len(s) + 1}
      BY <1>1, <1>5 DEF StatedIn
    <2>2. Cardinality(StatedIn(t)) = Cardinality(StatedIn(s)) + 1
      <3>1. Len(s) + 1 \notin StatedIn(s)
        BY <1>1, <1>4
      <3> QED BY <1>4, <2>1, <3>1, FS_AddElement
    <2>3. /\ q \in Seq(1..Len(t)) /\ Len(q) = Len(pts) + 1 /\ DOMAIN q = 1..(Len(pts) + 1)
          /\ \A j \in 1..Len(pts) : q[j] = pts[j]
          /\ q[Len(pts) + 1] = Len(s) + 1
      <3>1. pts \in Seq(1..Len(t)) /\ Len(s) + 1 \in 1..Len(t)
        BY <1>1, <1>2, <1>3
      <3> QED BY <1>2, <3>1
    <2> HIDE DEF q, t
    <2>4. {q[j] : j \in DOMAIN q} = StatedIn(t)
      <3>1. {q[j] : j \in DOMAIN q} = {pts[j] : j \in DOMAIN pts} \cup {Len(s) + 1}
        <4>1. \A j \in DOMAIN q : (j \in DOMAIN pts /\ q[j] = pts[j]) \/ q[j] = Len(s) + 1
          BY <1>2, <2>3
        <4>2. \A j \in DOMAIN pts : j \in DOMAIN q /\ q[j] = pts[j]
          BY <1>2, <2>3
        <4>3. Len(pts) + 1 \in DOMAIN q /\ q[Len(pts) + 1] = Len(s) + 1
          BY <1>2, <2>3
        <4> QED BY <4>1, <4>2, <4>3, Zenon
      <3> QED BY <2>1, <3>1 DEF Aligned
    <2>5. \A i, j \in 1..Len(q) : i < j => q[i] < q[j]
      <3> SUFFICES ASSUME NEW i \in 1..Len(q), NEW j \in 1..Len(q), i < j PROVE q[i] < q[j]
        OBVIOUS
      <3>1. i \in 1..Len(pts) /\ q[i] = pts[i]
        BY <1>2, <2>3, SMTT(30)
      <3>2. CASE j \in 1..Len(pts)
        BY <2>3, <3>1, <3>2 DEF Aligned
      <3>3. CASE j = Len(pts) + 1
        BY <1>1, <1>3, <2>3, <3>1, <3>3
      <3>4. Len(pts) \in Nat /\ Len(q) = Len(pts) + 1
        BY <1>2, <2>3
      <3>5. j \in 1..Len(pts) \/ j = Len(pts) + 1
        BY <3>4
      <3> QED BY <3>2, <3>3, <3>5
    <2>6. Len(q) = Cardinality(StatedIn(t))
      BY <2>2, <2>3 DEF Aligned
    <2>7. Aligned(t, q)
      BY <2>3, <2>4, <2>5, <2>6 DEF Aligned
    <2> QED BY <1>5, <2>7 DEF q, t
  <1>6. CASE ~f.isState
    <2>1. StatedIn(t) = StatedIn(s)
      BY <1>1, <1>6 DEF StatedIn
    <2>2. pts \in Seq(1..Len(t))
      BY <1>1, <1>2, <1>3
    <2> HIDE DEF t
    <2>3. Aligned(t, pts)
      BY <2>1, <2>2 DEF Aligned
    <2> QED BY <1>6, <2>3 DEF t
  <1> QED BY <1>5, <1>6

LEMMA PopAligned ==
  ASSUME NEW s \in Seq(Frame), Len(s) > 1, NEW pts, Aligned(s, pts)
  PROVE  Aligned(SubSeq(s, 1, Len(s) - 1),
                 IF s[Len(s)].isState THEN SubSeq(pts, 1, Len(pts) - 1) ELSE pts)
  <1> DEFINE t == SubSeq(s, 1, Len(s) - 1)
             q == SubSeq(pts, 1, Len(pts) - 1)
  <1>1. /\ t \in Seq(Frame) /\ Len(t) = Len(s) - 1 /\ Len(s) \in Nat
        /\ DOMAIN t = 1..(Len(s) - 1) /\ DOMAIN s = 1..Len(s)
        /\ \A i \in 1..(Len(s) - 1) : t[i] = s[i]
    OBVIOUS
  <1>2. pts \in Seq(1..Len(s)) /\ DOMAIN pts = 1..Len(pts) /\ Len(pts) \in Nat
    BY DEF Aligned
  <1>3. \A j \in 1..Len(pts) : pts[j] \in 1..Len(s)
    BY <1>2
  <1>4. IsFiniteSet(StatedIn(s)) /\ StatedIn(s) \subseteq 1..Len(s)
    BY StatedFinite
  <1>5. CASE s[Len(s)].isState
    <2>1. StatedIn(t) = StatedIn(s) \ {Len(s)} /\ Len(s) \in StatedIn(s)
      BY <1>1, <1>5 DEF StatedIn
    <2>2. Cardinality(StatedIn(t)) = Cardinality(StatedIn(s)) - 1
      BY <1>4, <2>1, FS_RemoveElement
    <2>3. pts # <<>> /\ pts[Len(pts)] = Len(s)
      <3>1. s # <<>>
        OBVIOUS
      <3> QED BY <1>5, <3>1, LastPointer
    <2>4. Len(pts) >= 1
      BY <1>2, <2>3
    <2>5. /\ Len(q) = Len(pts) - 1 /\ DOMAIN q = 1..(Len(pts) - 1)
          /\ \A j \in 1..(Len(pts) - 1) : q[j] = pts[j]
          /\ q \in Seq(1..Len(s))
      BY <1>2, <2>4
    <2>6. \A j \in 1..(Len(pts) - 1) : pts[j] < Len(s)
      <3> TAKE j \in 1..(Len(pts) - 1)
      <3>1. j \in 1..Len(pts) /\ Len(pts) \in 1..Len(pts) /\ j < Len(pts)
        BY <1>2, <2>4
      <3> QED BY <2>3, <3>1 DEF Aligned
    <2> HIDE DEF q, t
    <2>7. q \in Seq(1..Len(t))
      <3>1. \A j \in 1..Len(q) : q[j] \in 1..Len(t)
        BY <1>1, <1>2, <1>3, <2>5, <2>6, SMTT(30)
      <3> QED BY <2>5, <3>1
    <2>8. {q[j] : j \in DOMAIN q} = StatedIn(t)
      <3>1. {pts[j] : j \in DOMAIN pts} = {q[j] : j \in DOMAIN q} \cup {Len(s)}
        <4>1. \A j \in DOMAIN pts : (j \in DOMAIN q /\ q[j] = pts[j]) \/ pts[j] = Len(s)
          BY <1>2, <2>3, <2>5, SMTT(30)
        <4>a. Len(pts) \in Nat /\ DOMAIN q = 1..(Len(pts) - 1) /\ DOMAIN pts = 1..Len(pts)
          BY <1>2, <2>5
        <4>b. \A j \in DOMAIN q : j \in DOMAIN pts
          BY <4>a
        <4>2. \A j \in DOMAIN q : j \in DOMAIN pts /\ q[j] = pts[j]
          BY <2>5, <4>b
        <4>3. Len(pts) \in DOMAIN pts /\ pts[Len(pts)] = Len(s)
          BY <1>2, <2>3, <2>4
        <4> QED BY <4>1, <4>2, <4>3, Zenon
      <3>2. Len(s) \notin {q[j] : j \in DOMAIN q}
        <4>1. \A j \in DOMAIN q : q[j] # Len(s)
          <5> TAKE j \in DOMAIN q
          <5>1. j \in 1..(Len(pts) - 1)
            BY <2>5
          <5>2. q[j] = pts[j] /\ pts[j] < Len(s)
            BY <2>5, <2>6, <5>1
          <5>3. Len(s) \in Nat
            OBVIOUS
          <5> QED BY <5>2, <5>3
        <4> QED BY <4>1, Zenon
      <3> QED BY <2>1, <3>1, <3>2 DEF Aligned
    <2>9. \A i, j \in 1..Len(q) : i < j => q[i] < q[j]
      <3> SUFFICES ASSUME NEW i \in 1..Len(q), NEW j \in 1..Len(q), i < j PROVE q[i] < q[j]
        OBVIOUS
      <3>1. i \in 1..Len(pts) /\ j \in 1..Len(pts)
        BY <1>2, <2>5, SMTT(30)
      <3>2. q[i] = pts[i] /\ q[j] = pts[j]
        BY <1>2, <2>5
      <3> QED BY <3>1, <3>2 DEF Aligned
    <2>10. Len(q) = Cardinality(StatedIn(t))
      BY <2>2, <2>5 DEF Aligned
    <2>11. Aligned(t, q)
      BY <2>7, <2>8, <2>9, <2>10 DEF Aligned
    <2> QED BY <1>5, <2>11 DEF q, t
  <1>6. CASE ~s[Len(s)].isState
    <2>1. StatedIn(t) = StatedIn(s)
      BY <1>1, <1>6 DEF StatedIn
    <2>2. \A j \in 1..Len(pts) : pts[j] \in 1..Len(t)
      <3> TAKE j \in 1..Len(pts)
      <3>1. pts[j] \in StatedIn(t)
        BY <1>2, <2>1 DEF Aligned
      <3> QED BY <1>1, <3>1 DEF StatedIn
    <2>3. pts \in Seq(1..Len(t))
      BY <1>2, <2>2
    <2> HIDE DEF t
    <2>4. Aligned(t, pts)
      BY <2>1, <2>3 DEF Aligned
    <2> QED BY <1>6, <2>4 DEF t
  <1> QED BY <1>5, <1>6

(***************************************************************************)
(* The state of the tracer between two instructions, and what CaptureState  *)
(* makes of its stack.                                                      *)
(***************************************************************************)
Tracing == Good(callstack, db, gone) /\ Aligned(callstack, statedCall)

LEMMA TracingFacts ==
  ASSUME Tracing
  PROVE  /\ callstack \in Seq(Frame) /\ callstack # <<>> /\ DOMAIN callstack = 1..Len(callstack)
         /\ Len(callstack) \in Nat /\ Len(callstack) >= 1
         /\ db \in [Cells -> Int] /\ gone \in SUBSET Accounts
         /\ Top \in Frame /\ Top.self \in Accounts
         /\ Pointed = StatedIn(callstack)
         /\ \A i \in StatedIn(callstack) : Top.self \in Known(callstack[i])
  <1>1. /\ callstack \in Seq(Frame) /\ callstack # <<>>
        /\ db \in [Cells -> Int] /\ gone \in SUBSET Accounts
    BY DEF Tracing, Good
  <1>2. Len(callstack) \in Nat /\ Len(callstack) >= 1 /\ DOMAIN callstack = 1..Len(callstack)
    BY <1>1
  <1>3. Top \in Frame
    BY <1>1, <1>2 DEF Top
  <1>4. Top.self \in Accounts
    BY <1>3, FrameFields
  <1>5. Pointed = StatedIn(callstack)
    BY DEF Tracing, Aligned, Pointed
  <1>6. ASSUME NEW i \in StatedIn(callstack)
        PROVE  Top.self \in Known(callstack[i])
    <2>1. Len(callstack) \in i..Len(callstack)
      BY <1>2 DEF StatedIn
    <2> QED BY <2>1 DEF Tracing, Good, Visible, Top
  <1> QED BY <1>1, <1>2, <1>3, <1>4, <1>5, <1>6

LEMMA NotedPointed ==
  ASSUME Tracing, NEW t, DOMAIN t = DOMAIN callstack, t = [i \in DOMAIN callstack |-> t[i]],
         \A i \in DOMAIN callstack :
            IF i \in Pointed THEN Noted(callstack[i], t[i], db) ELSE t[i] = callstack[i]
  PROVE  NotedAll(callstack, t, db)
  <1>1. callstack \in Seq(Frame) /\ DOMAIN callstack = 1..Len(callstack) /\ Len(callstack) \in Nat
    BY TracingFacts
  <1>2. \A i \in 1..Len(callstack) : callstack[i] \in Frame /\ Uniform(callstack[i].pre)
    BY <1>1 DEF Tracing, Good
  <1>3. ASSUME NEW i \in 1..Len(callstack)
        PROVE  Noted(callstack[i], t[i], db)
    <2>1. CASE i \in Pointed
      BY <1>1, <2>1
    <2>2. CASE i \notin Pointed
      BY <1>1, <1>2, <2>2, NotedSelf
    <2> QED BY <2>1, <2>2
  <1>4. \A i \in 1..Len(callstack) : t[i] \in Frame
    BY <1>3 DEF Noted
  <1>5. t \in Seq(Frame) /\ Len(t) = Len(callstack)
    BY <1>1, <1>4
  <1> QED BY <1>3, <1>5 DEF NotedAll

LEMMA CaptureSlot ==
  ASSUME TypeOK, Tracing, NEW c \in Slots
  PROVE  LET t == CaptureState("slot", c)
         IN  /\ NotedAll(callstack, t, db)
             /\ \A i \in StatedIn(callstack) : t[i].pre[c] # Absent
  <1> DEFINE t == [i \in DOMAIN callstack |->
                     IF i \in Pointed THEN SeeSlot(callstack[i], c) ELSE callstack[i]]
  <1>1. CaptureState("slot", c) = t
    BY Zenon DEF CaptureState
  <1>2. \A i \in DOMAIN callstack : callstack[i] \in Frame /\ Uniform(callstack[i].pre)
    BY TracingFacts DEF Tracing, Good
  <1>3. \A i \in DOMAIN callstack :
           /\ Noted(callstack[i], SeeSlot(callstack[i], c), db)
           /\ SeeSlot(callstack[i], c).pre[c] # Absent
    BY <1>2, SeeSlotFacts
  <1>4. /\ DOMAIN t = DOMAIN callstack /\ t = [i \in DOMAIN callstack |-> t[i]]
        /\ \A i \in DOMAIN callstack :
              t[i] = IF i \in Pointed THEN SeeSlot(callstack[i], c) ELSE callstack[i]
    BY Zenon
  <1> HIDE DEF t
  <1>5. NotedAll(callstack, t, db)
    BY <1>3, <1>4, NotedPointed
  <1>6. \A i \in StatedIn(callstack) : i \in Pointed /\ i \in DOMAIN callstack
    BY TracingFacts DEF StatedIn
  <1> QED BY <1>1, <1>3, <1>4, <1>5, <1>6

LEMMA CaptureAccount ==
  ASSUME TypeOK, Tracing, NEW a \in Accounts
  PROVE  LET t == CaptureState("account", a)
         IN  /\ NotedAll(callstack, t, db)
             /\ \A i \in StatedIn(callstack) : a \in Recorded(t[i].pre)
  <1> DEFINE t == [i \in DOMAIN callstack |->
                     IF i \in Pointed THEN SeeAccount(callstack[i], a) ELSE callstack[i]]
  <1>1. CaptureState("account", a) = t
    BY Zenon DEF CaptureState
  <1>2. \A i \in DOMAIN callstack : callstack[i] \in Frame /\ Uniform(callstack[i].pre)
    BY TracingFacts DEF Tracing, Good
  <1>3. \A i \in DOMAIN callstack :
           /\ Noted(callstack[i], SeeAccount(callstack[i], a), db)
           /\ a \in Recorded(SeeAccount(callstack[i], a).pre)
    BY <1>2, SeeAccountFacts
  <1>4. /\ DOMAIN t = DOMAIN callstack /\ t = [i \in DOMAIN callstack |-> t[i]]
        /\ \A i \in DOMAIN callstack :
              t[i] = IF i \in Pointed THEN SeeAccount(callstack[i], a) ELSE callstack[i]
    BY Zenon
  <1> HIDE DEF t
  <1>5. NotedAll(callstack, t, db)
    BY <1>3, <1>4, NotedPointed
  <1>6. \A i \in StatedIn(callstack) : i \in Pointed /\ i \in DOMAIN callstack
    BY TracingFacts DEF StatedIn
  <1> QED BY <1>1, <1>3, <1>4, <1>5, <1>6

LEMMA CaptureCreate ==
  ASSUME TypeOK, Tracing, NEW a \in Accounts
  PROVE  LET t == CaptureState("CREATE", a)
         IN  /\ NotedAll(callstack, t, db)
             /\ \A i \in StatedIn(callstack) : a \in Recorded(t[i].pre)
  <1> DEFINE t == [i \in DOMAIN callstack |->
                     IF i \in Pointed THEN SeeCreate(callstack[i], a) ELSE callstack[i]]
  <1>1. CaptureState("CREATE", a) = t
    BY Zenon DEF CaptureState
  <1>2. \A i \in DOMAIN callstack : callstack[i] \in Frame /\ Uniform(callstack[i].pre)
    BY TracingFacts DEF Tracing, Good
  <1>3. \A i \in DOMAIN callstack :
           /\ Noted(callstack[i], SeeCreate(callstack[i], a), db)
           /\ a \in Recorded(SeeCreate(callstack[i], a).pre)
    BY <1>2, SeeCreateFacts
  <1>4. /\ DOMAIN t = DOMAIN callstack /\ t = [i \in DOMAIN callstack |-> t[i]]
        /\ \A i \in DOMAIN callstack :
              t[i] = IF i \in Pointed THEN SeeCreate(callstack[i], a) ELSE callstack[i]
    BY Zenon
  <1> HIDE DEF t
  <1>5. NotedAll(callstack, t, db)
    BY <1>3, <1>4, NotedPointed
  <1>6. \A i \in StatedIn(callstack) : i \in Pointed /\ i \in DOMAIN callstack
    BY TracingFacts DEF StatedIn
  <1> QED BY <1>1, <1>3, <1>4, <1>5, <1>6

LEMMA CreateMissed ==
  ASSUME TypeOK, Tracing, NEW a \in Accounts
  PROVE  LET t == MissCreate(a)
         IN  /\ NotedAll(callstack, t, db)
             /\ \A i \in StatedIn(callstack) : a \in Known(t[i])
  <1> DEFINE h(i) == [callstack[i] EXCEPT !.unseen = @ \cup {a}]
             t == [i \in DOMAIN callstack |->
                     IF i \in Pointed /\ a \notin Recorded(callstack[i].pre)
                       THEN h(i) ELSE callstack[i]]
  <1>1. MissCreate(a) = t
    BY Zenon DEF MissCreate
  <1>2. \A i \in DOMAIN callstack : callstack[i] \in Frame /\ Uniform(callstack[i].pre)
    BY TracingFacts DEF Tracing, Good
  <1>3. ASSUME NEW i \in DOMAIN callstack
        PROVE  Noted(callstack[i], h(i), db) /\ a \in h(i).unseen
    <2> DEFINE f == callstack[i]
               g == [f EXCEPT !.unseen = @ \cup {a}]
    <2>1. f \in Frame /\ Uniform(f.pre)
      BY <1>2
    <2> HIDE DEF f
    <2>2. /\ g \in Frame /\ g.pre = f.pre /\ g.created = f.created /\ g.deleted = f.deleted
          /\ g.unseen = f.unseen \cup {a} /\ SameCall(f, g)
      BY <2>1 DEF Frame, SameCall
    <2> HIDE DEF g
    <2>3. Noted(f, g, db) /\ a \in g.unseen
      BY <2>1, <2>2 DEF Noted, Grows
    <2> QED BY <2>3 DEF f, g
  <1> HIDE DEF h
  <1>4. /\ DOMAIN t = DOMAIN callstack /\ t = [i \in DOMAIN callstack |-> t[i]]
        /\ \A i \in DOMAIN callstack :
              t[i] = IF i \in Pointed /\ a \notin Recorded(callstack[i].pre)
                       THEN h(i) ELSE callstack[i]
    BY Zenon
  <1> HIDE DEF t
  <1>5. \A i \in DOMAIN callstack :
            IF i \in Pointed THEN Noted(callstack[i], t[i], db) ELSE t[i] = callstack[i]
    BY <1>2, <1>3, <1>4, NotedSelf
  <1>6. NotedAll(callstack, t, db)
    BY <1>4, <1>5, NotedPointed
  <1>7. \A i \in StatedIn(callstack) : a \in Known(t[i])
    <2> TAKE i \in StatedIn(callstack)
    <2>1. i \in Pointed /\ i \in DOMAIN callstack
      BY TracingFacts DEF StatedIn
    <2> QED BY <1>3, <1>4, <2>1 DEF Known
  <1> QED BY <1>1, <1>6, <1>7

LEMMA CaptureSelfdestruct ==
  ASSUME TypeOK, Tracing, NEW a \in Accounts
  PROVE  LET t == CaptureState("SELFDESTRUCT", a)
         IN  /\ NotedAll(callstack, t, db)
             /\ \A i \in StatedIn(callstack) :
                   a \in Recorded(t[i].pre) /\ Top.self \in t[i].deleted
  <1> DEFINE t == [i \in DOMAIN callstack |->
                     IF i \in Pointed THEN SeeSelfdestruct(callstack[i], a) ELSE callstack[i]]
  <1>1. CaptureState("SELFDESTRUCT", a) = t
    BY Zenon DEF CaptureState
  <1>2. \A i \in DOMAIN callstack : callstack[i] \in Frame /\ Uniform(callstack[i].pre)
    BY TracingFacts DEF Tracing, Good
  <1>3. \A i \in DOMAIN callstack :
           /\ Noted(callstack[i], SeeSelfdestruct(callstack[i], a), db)
           /\ a \in Recorded(SeeSelfdestruct(callstack[i], a).pre)
           /\ Top.self \in SeeSelfdestruct(callstack[i], a).deleted
    BY <1>2, TracingFacts, SeeSelfdestructFacts
  <1>4. /\ DOMAIN t = DOMAIN callstack /\ t = [i \in DOMAIN callstack |-> t[i]]
        /\ \A i \in DOMAIN callstack :
              t[i] = IF i \in Pointed THEN SeeSelfdestruct(callstack[i], a) ELSE callstack[i]
    BY Zenon
  <1> HIDE DEF t
  <1>5. NotedAll(callstack, t, db)
    BY <1>3, <1>4, NotedPointed
  <1>6. \A i \in StatedIn(callstack) : i \in Pointed /\ i \in DOMAIN callstack
    BY TracingFacts DEF StatedIn
  <1> QED BY <1>1, <1>3, <1>4, <1>5, <1>6

(***************************************************************************)
(* The invariant of the tracer.                                             *)
(***************************************************************************)
Inv ==
    /\ TypeOK
    /\ phase = "ready" => done = <<>> /\ gone = {} /\ statedCall = <<>>
    /\ phase \in {"tx", "panicked"} => Tracing
    /\ phase = "panicked" => NilAccount(Top.self)
    /\ phase = "ended" => statedCall = <<>> /\ Len(callstack) = 1
    /\ DiffExact

LEMMA NoneDone == done = <<>> => DiffExact
  BY DEF DiffExact

LEMMA SeqOfOthers ==
  ASSUME NEW S, NEW T, NEW q \in Seq(S), \A j \in 1..Len(q) : q[j] \in T
  PROVE  q \in Seq(T)
  OBVIOUS

LEMMA AlignedSame ==
  ASSUME NEW s, NEW t, NEW pts, Aligned(s, pts), Len(t) = Len(s), StatedIn(t) = StatedIn(s)
  PROVE  Aligned(t, pts)
  BY DEF Aligned

\* An instruction that leaves the transaction running with stack s and pointers pts.
LEMMA StillTracing ==
  ASSUME Inv, NEW s, NEW m, NEW g, NEW pts, Good(s, m, g), Aligned(s, pts), Len(s) <= MaxDepth,
         callstack' = s, db' = m, gone' = g, statedCall' = pts, phase' = "tx",
         targetAddress' = targetAddress, tmpCallLocation' \in 0..MaxOps, pc' \in 0..MaxOps,
         done' \in {<<>>} \cup [{1} -> Done], DiffExact'
  PROVE  Inv'
  <1>1. s \in Seq(Frame) /\ s # <<>> /\ m \in [Cells -> Int] /\ g \in SUBSET Accounts
    BY DEF Good
  <1>2. pts \in Seq(1..MaxDepth)
    <2>1. pts \in Seq(1..Len(s)) /\ Len(s) \in Nat
      BY <1>1 DEF Aligned
    <2>2. 1..Len(s) \subseteq 1..MaxDepth
      BY <2>1, TracerAssumption
    <2>3. \A j \in 1..Len(pts) : pts[j] \in 1..MaxDepth
      BY <2>1, <2>2
    <2> QED BY <2>1, <2>3, SeqOfOthers
  <1>3. TypeOK'
    BY <1>1, <1>2 DEF Inv, TypeOK
  <1>4. Tracing'
    BY DEF Tracing
  <1> QED BY <1>3, <1>4 DEF Inv

LEMMA StepKeeps ==
  ASSUME Inv, phase = "tx", NEW t, NEW m, NEW s, NotedAll(callstack, s, db),
         Len(t) = Len(s), StatedIn(t) = StatedIn(s), Good(t, m, gone'),
         Step(t, m), pc < MaxOps, tmpCallLocation' \in 0..MaxOps
  PROVE  Inv'
  <1>1. Tracing /\ TypeOK
    BY DEF Inv
  <1>2. Len(s) = Len(callstack) /\ StatedIn(s) = StatedIn(callstack)
    BY <1>1, TracingFacts, NotedAllFacts DEF NotedAll
  <1>3. Aligned(t, statedCall)
    BY <1>1, <1>2, AlignedSame DEF Tracing
  <1>4. /\ callstack' = t /\ db' = m /\ statedCall' = statedCall /\ phase' = "tx"
        /\ targetAddress' = targetAddress /\ pc' = pc + 1 /\ done' = <<>>
    BY DEF Step
  <1>5. pc' \in 0..MaxOps
    BY <1>1, <1>4, TracerAssumption DEF TypeOK
  <1>6. DiffExact'
    BY <1>4 DEF DiffExact
  <1>7. Len(t) <= MaxDepth
    BY <1>1, <1>2 DEF TypeOK
  <1> QED BY <1>3, <1>4, <1>5, <1>6, <1>7, StillTracing

LEMMA PushKeepsInv ==
  ASSUME Inv, phase = "tx", NEW s, NotedAll(callstack, s, db), NEW f \in Frame, NEW m,
         Good(Append(s, f), m, gone), Push(s, f, m), UNCHANGED gone,
         Len(callstack) < MaxDepth, pc < MaxOps, tmpCallLocation' \in 0..MaxOps
  PROVE  Inv'
  <1> DEFINE t == Append(s, f)
             pts == IF f.isState THEN Append(statedCall, Len(s) + 1) ELSE statedCall
  <1>1. Tracing /\ TypeOK
    BY DEF Inv
  <1>2. /\ Len(s) = Len(callstack) /\ StatedIn(s) = StatedIn(callstack)
        /\ s \in Seq(Frame) /\ Len(s) \in Nat
    BY <1>1, TracingFacts, NotedAllFacts DEF NotedAll
  <1>3. Aligned(s, statedCall)
    BY <1>1, <1>2, AlignedSame DEF Tracing
  <1>4. Aligned(t, pts)
    BY <1>2, <1>3, PushAligned
  <1>5. Len(t) = Len(s) + 1
    BY <1>2
  <1>6. Len(t) <= MaxDepth
    BY <1>2, <1>5, TracerAssumption
  <1>7. /\ callstack' = t /\ db' = m /\ statedCall' = pts /\ phase' = "tx"
        /\ targetAddress' = targetAddress /\ pc' = pc + 1 /\ done' = <<>>
    BY Zenon DEF Push
  <1> HIDE DEF t, pts
  <1>8. pc' \in 0..MaxOps
    BY <1>1, <1>7, TracerAssumption DEF TypeOK
  <1>9. DiffExact'
    BY <1>7 DEF DiffExact
  <1>10. Good(t, m, gone)
    BY DEF t
  <1> QED BY <1>4, <1>6, <1>7, <1>8, <1>9, <1>10, StillTracing

(***************************************************************************)
(* A call ends.                                                             *)
(***************************************************************************)
\* The state before is left out, because it is that of a new account.
Dropped(f, a) == a \in f.created /\ a \in Recorded(f.pre) /\ ~Exists(f.pre, a)

LEMMA PrunedFacts ==
  ASSUME NEW f \in Frame
  PROVE  LET p == Pruned(f)
         IN  /\ p \in Frame /\ p.created = f.created /\ p.deleted = f.deleted /\ p.gone = f.gone
             /\ p.isState = f.isState /\ p.unseen = f.unseen
             /\ p.kind = f.kind /\ p.to = f.to
             /\ \A c \in Cells : f.pre[c] # Absent => p.pre[c] # Absent \/ Dropped(f, c[2])
  <1> DEFINE new == {a \in f.created \cap Recorded(f.pre) : ~Exists(f.pre, a)}
             q == [c \in Cells |-> IF c[2] \in new THEN Absent ELSE f.pre[c]]
  <1>1. \A a \in new : Dropped(f, a)
    BY Zenon DEF Dropped
  <1> HIDE DEF new
  <1>2. f.pre \in Map
    BY FrameFields
  <1>3. q \in Map
    BY <1>2 DEF Map
  <1>4. Pruned(f) = [f EXCEPT !.pre = q]
    BY Zenon DEF Pruned, new
  <1>5. \A c \in Cells : f.pre[c] # Absent => q[c] # Absent \/ Dropped(f, c[2])
    BY <1>1
  <1> HIDE DEF q
  <1> DEFINE p == [f EXCEPT !.pre = q]
  <1>6. /\ p \in Frame /\ p.created = f.created /\ p.deleted = f.deleted /\ p.gone = f.gone
        /\ p.isState = f.isState /\ p.unseen = f.unseen /\ p.pre = q
        /\ p.kind = f.kind /\ p.to = f.to
    BY <1>3 DEF Frame
  <1> HIDE DEF p
  <1>7. Pruned(f) = p
    BY <1>4 DEF p
  <1> QED BY <1>5, <1>6, <1>7

\* What DiffExact says of one finished call.
Exact(d, m, g) ==
    /\ \A c \in {x \in Cells : x[2] \notin d.call.unseen} :
          /\ c[2] \notin d.call.deleted =>
                 m[c] = (IF d.post[c] # Absent THEN d.post[c] ELSE d.entry[c])
          /\ m[c] # d.entry[c] =>
                 d.call.pre[c] # Absent \/ (c[2] \in d.call.created /\ NewIn(d, c[2]))
    /\ g \ d.call.gone \subseteq d.call.deleted

LEMMA ExitExact ==
  ASSUME NEW s, NEW m, NEW g, Good(s, m, g), NEW i \in StatedIn(s),
         NEW d, d = [call |-> Pruned(s[i]), entry |-> EntryIn(s, i), post |-> PostState(s[i], m)]
  PROVE  d \in Done /\ Exact(d, m, g)
  <1> DEFINE f == s[i]
  <1>1. f \in Frame /\ i \in 1..Len(s) /\ m \in [Cells -> Int]
    BY DEF Good, StatedIn
  <1>2. Untouched(s, i, m) /\ DeletedKnown(s, i, g)
    BY DEF Good
  <1>3. EntryIn(s, i) \in [Cells -> Int]
    BY <1>1, EntryType DEF Good
  <1>4. PostState(f, m) = [c \in Cells |-> IF f.pre[c] = Absent \/ c[2] \in f.deleted
                                            THEN Absent ELSE m[c]]
    BY Zenon DEF PostState
  <1>5. PostState(f, m) \in Map
    BY <1>1, <1>4 DEF Map
  <1>6. /\ Pruned(f) \in Frame /\ Pruned(f).created = f.created /\ Pruned(f).deleted = f.deleted
        /\ Pruned(f).gone = f.gone /\ Pruned(f).unseen = f.unseen
        /\ Pruned(f).kind = f.kind /\ Pruned(f).to = f.to
        /\ \A c \in Cells : f.pre[c] # Absent => Pruned(f).pre[c] # Absent \/ Dropped(f, c[2])
    BY <1>1, PrunedFacts
  <1>7. d.call = Pruned(f) /\ d.entry = EntryIn(s, i) /\ d.post = PostState(f, m)
    OBVIOUS
  <1>8. d \in Done
    BY <1>3, <1>5, <1>6 DEF Done
  <1>9. ASSUME NEW c \in Cells, c[2] \notin f.unseen
        PROVE  /\ c[2] \notin f.deleted =>
                     m[c] = (IF d.post[c] # Absent THEN d.post[c] ELSE d.entry[c])
               /\ m[c] # d.entry[c] =>
                      Pruned(f).pre[c] # Absent \/ (c[2] \in f.created /\ NewIn(d, c[2]))
    <2>1. m[c] # Absent
      BY <1>1, AbsentFacts
    <2>2. f.pre[c] = Absent => m[c] = EntryIn(s, i)[c]
      BY <1>2, <1>9 DEF Untouched, Unknown
    <2>3. d.post[c] = IF f.pre[c] = Absent \/ c[2] \in f.deleted THEN Absent ELSE m[c]
      BY <1>4, <1>7
    <2>4. ASSUME Dropped(f, c[2])
          PROVE  NewIn(d, c[2])
      <3> DEFINE a == c[2]
      <3>1. /\ a \in Accounts /\ a \notin f.unseen /\ Uniform(f.pre) /\ SeenAtEntry(s, i)
        BY <1>1, <1>9, CellForm DEF Good
      <3>2. /\ f.pre[Balance(a)] # Absent /\ f.pre[Nonce(a)] # Absent /\ f.pre[Code(a)] # Absent
            /\ ~(f.pre[Nonce(a)] > 0) /\ ~(f.pre[Code(a)] > 0) /\ f.pre[Balance(a)] = 0
        BY <2>4, <3>1 DEF Dropped, Recorded, Uniform, Exists
      <3>3. /\ Balance(a) \in Cells /\ Nonce(a) \in Cells /\ Code(a) \in Cells
            /\ Balance(a)[2] = a /\ Nonce(a)[2] = a /\ Code(a)[2] = a
        BY <3>1, CellFacts
      <3>4. f.to \in Accounts
        BY <1>1, FrameFields
      <3>5. /\ Balance(a) \notin LateIn(s, i) /\ Code(a) \notin LateIn(s, i)
            /\ Nonce(a) \in LateIn(s, i) => f.kind = "CREATE" /\ a = f.to
        BY <3>1, <3>4, CellsDiffer DEF LateIn
      <3> HIDE DEF f, a
      <3>6. \A x \in Cells \ LateIn(s, i) :
               f.pre[x] # Absent /\ x[2] \notin f.unseen => f.pre[x] = EntryIn(s, i)[x]
        BY <3>1 DEF SeenAtEntry, f
      <3>7. /\ EntryIn(s, i)[Balance(a)] = 0 /\ ~(EntryIn(s, i)[Code(a)] > 0)
            /\ ~(EntryIn(s, i)[Nonce(a)] > 0) \/ (f.kind = "CREATE" /\ a = f.to)
        BY <3>1, <3>2, <3>3, <3>5, <3>6
      <3>8. EntryIn(s, i)[Code(a)] \in Int /\ EntryIn(s, i)[Nonce(a)] \in Int
        BY <1>3, <3>3
      <3>9. NewIn(d, a)
        BY <1>6, <1>7, <3>7, <3>8 DEF NewIn
      <3> QED BY <3>9 DEF a
    <2> HIDE DEF f
    <2> QED BY <1>6, <1>7, <2>1, <2>2, <2>3, <2>4 DEF Dropped
  <1>10. g \ f.gone \subseteq f.deleted
    BY <1>2 DEF DeletedKnown
  <1> HIDE DEF f
  <1>11. Exact(d, m, g)
    BY <1>6, <1>7, <1>9, <1>10 DEF Exact
  <1> QED BY <1>8, <1>11

LEMMA LeaveKeeps ==
  ASSUME Inv, phase = "tx", NEW s, NotedAll(callstack, s, db), NEW ok \in BOOLEAN,
         Leave(s, ok), tmpCallLocation' \in 0..MaxOps, pc' \in 0..MaxOps
  PROVE  Inv'
  <1> DEFINE n == Len(s)
             f == s[n]
  <1>1. Tracing /\ TypeOK
    BY DEF Inv
  <1>2. /\ Len(s) = Len(callstack) /\ StatedIn(s) = StatedIn(callstack)
        /\ s \in Seq(Frame) /\ n \in Nat /\ n >= 1 /\ DOMAIN s = 1..n
    <2>1. /\ callstack \in Seq(Frame) /\ db \in [Cells -> Int]
          /\ Len(callstack) \in Nat /\ Len(callstack) >= 1
      BY <1>1, TracingFacts
    <2>2. Len(s) = Len(callstack) /\ s \in Seq(Frame)
      BY DEF NotedAll
    <2>3. StatedIn(s) = StatedIn(callstack)
      BY <2>1, NotedAllFacts
    <2> QED BY <2>1, <2>2, <2>3
  <1>3. Good(s, db, gone)
    BY <1>1, NoteKeeps DEF Tracing
  <1>4. Aligned(s, statedCall)
    BY <1>1, <1>2, AlignedSame DEF Tracing
  <1>5. f \in Frame
    BY <1>2
  <1>6. /\ db' = Left(ok, f, db, f.save) /\ gone' = (IF ok THEN gone ELSE f.gone)
        /\ phase' = (IF n = 1 THEN "ended" ELSE phase) /\ targetAddress' = targetAddress
        /\ callstack' = Popped(s) /\ statedCall' = StatedRest(f)
    BY Zenon DEF Leave, CaptureExit
  <1>7. done' = IF f.isState
                  THEN <<[call |-> Pruned(f), entry |-> Entry(n), post |-> PostState(f, db')]>>
                  ELSE <<>>
    BY <1>6, Zenon DEF Leave, CaptureExit
  <1>8. Entry(n) = EntryIn(s, n)
    <2>1. n \in 1..Len(callstack)
      BY <1>2
    <2>2. EntryIn(s, n) = EntryIn(callstack, n)
      BY <1>1, <2>1, TracingFacts, NotedAllFacts
    <2>3. Entry(n) = EntryIn(callstack, n)
      BY DEF Entry, EntryIn
    <2> QED BY <2>2, <2>3
  <1>9. LeftBy(s, ok, db, db', gone, gone')
    BY <1>6, Zenon DEF LeftBy
  <1>10. Good(s, db', gone') /\ (n > 1 => Good(SubSeq(s, 1, n - 1), db', gone'))
    BY <1>3, <1>9, PopKeeps
  <1>11. /\ done' \in {<<>>} \cup [{1} -> Done]
         /\ DiffExact'
    <2>1. CASE ~f.isState
      <3>1. done' = <<>>
        BY <1>7, <2>1
      <3> QED BY <3>1 DEF DiffExact
    <2>2. CASE f.isState
      <3> DEFINE d == [call |-> Pruned(f), entry |-> EntryIn(s, n), post |-> PostState(f, db')]
      <3>1. n \in StatedIn(s)
        BY <1>2, <2>2 DEF StatedIn
      <3>2. d \in Done /\ Exact(d, db', gone')
        BY <1>10, <3>1, ExitExact
      <3>3. done' = <<d>>
        BY <1>7, <1>8, <2>2
      <3> HIDE DEF d
      <3>4. done' \in [{1} -> Done]
        BY <3>2, <3>3
      <3>5. DOMAIN done' = {1} /\ done'[1] = d
        BY <3>3
      <3>6. DiffExact'
        BY <3>2, <3>5 DEF DiffExact, Exact, NewIn
      <3> QED BY <3>4, <3>6
    <2> QED BY <2>1, <2>2
  <1>12. CASE n > 1
    <2> DEFINE t == SubSeq(s, 1, n - 1)
               pts == IF f.isState THEN SubSeq(statedCall, 1, Len(statedCall) - 1) ELSE statedCall
    <2>1. callstack' = t
      BY <1>6, <1>12 DEF Popped
    <2>2. statedCall' = pts
      BY <1>6 DEF StatedRest
    <2>3. Aligned(t, pts)
      BY <1>2, <1>4, <1>12, PopAligned
    <2>4. Good(t, db', gone')
      BY <1>10, <1>12
    <2>5. Len(t) <= MaxDepth
      <3>1. Len(t) = n - 1
        BY <1>2, <1>12
      <3> QED BY <1>1, <1>2, <3>1, TracerAssumption DEF TypeOK
    <2>6. phase' = "tx"
      BY <1>2, <1>6, <1>12
    <2> HIDE DEF t, pts
    <2> QED BY <1>6, <1>11, <2>1, <2>2, <2>3, <2>4, <2>5, <2>6, StillTracing
  <1>13. CASE n = 1
    <2>1. callstack' = <<IF s[1].isState THEN Pruned(s[1]) ELSE s[1]>>
      BY <1>6, <1>13 DEF Popped
    <2> DEFINE h == IF s[1].isState THEN Pruned(s[1]) ELSE s[1]
    <2>2. h \in Frame
      BY <1>5, <1>13, PrunedFacts
    <2> HIDE DEF h
    <2>3. callstack' = <<h>>
      BY <2>1 DEF h
    <2>4. callstack' \in Seq(Frame) /\ Len(callstack') = 1 /\ callstack' # <<>>
      BY <2>2, <2>3
    <2>5. statedCall' = <<>>
      <3>1. statedCall \in Seq(1..Len(s)) /\ Len(statedCall) = Cardinality(StatedIn(s))
        BY <1>4 DEF Aligned
      <3>2. CASE f.isState
        <4>1. StatedIn(s) = {1}
          BY <1>2, <1>13, <3>2 DEF StatedIn
        <4>2. Len(statedCall) = 1
          BY <3>1, <4>1, FS_Singleton
        <4>3. statedCall' = SubSeq(statedCall, 1, Len(statedCall) - 1)
          BY <1>6, <3>2 DEF StatedRest
        <4> QED BY <3>1, <4>2, <4>3
      <3>3. CASE ~f.isState
        <4>1. StatedIn(s) = {}
          BY <1>2, <1>13, <3>3 DEF StatedIn
        <4>2. Len(statedCall) = 0
          BY <3>1, <4>1, FS_EmptySet
        <4>3. statedCall' = statedCall
          BY <1>6, <3>3 DEF StatedRest
        <4> QED BY <3>1, <4>2, <4>3
      <3> QED BY <3>2, <3>3
    <2>6. phase' = "ended"
      BY <1>6, <1>13
    <2>7. db' \in [Cells -> Int] /\ gone' \in SUBSET Accounts
      BY <1>10 DEF Good
    <2>8. TypeOK'
      BY <1>1, <1>6, <1>11, <2>4, <2>5, <2>6, <2>7, TracerAssumption DEF TypeOK
    <2> QED BY <1>11, <2>4, <2>5, <2>6, <2>8 DEF Inv
  <1> QED BY <1>2, <1>12, <1>13

(***************************************************************************)
(* A call begins.                                                           *)
(***************************************************************************)
\* Taking the transfer back by arithmetic gives the state before it.
LEMMA PreStateOfTransfer ==
  ASSUME NEW n \in [Cells -> Int], NEW from \in Accounts, NEW to \in Accounts, NEW v \in Int,
         NEW others \in SUBSET Accounts, NEW m, m = Transfer(n, from, to, v),
         NEW q, q = PreState(m, from, to, v, others)
  PROVE  /\ m \in [Cells -> Int]
         /\ q \in Map /\ Uniform(q) /\ from \in Recorded(q) /\ to \in Recorded(q)
         /\ \A c \in Cells : q[c] = Absent \/ q[c] = n[c]
         /\ \A c \in Cells : q[c] = Absent => m[c] = n[c]
         /\ \A c \in Cells \ {Balance(from), Balance(to)} : m[c] = n[c]
  <1>1. /\ m \in [Cells -> Int]
        /\ \A c \in Cells \ {Balance(from), Balance(to)} : m[c] = n[c]
        /\ from = to => m[Balance(from)] = n[Balance(from)]
        /\ from # to => /\ m[Balance(from)] = n[Balance(from)] - v
                        /\ m[Balance(to)] = n[Balance(to)] + v
    <2> DEFINE u == Transfer(n, from, to, v)
    <2>1. /\ u \in [Cells -> Int]
          /\ \A c \in Cells \ {Balance(from), Balance(to)} : u[c] = n[c]
          /\ from = to => u[Balance(from)] = n[Balance(from)]
          /\ from # to => /\ u[Balance(from)] = n[Balance(from)] - v
                          /\ u[Balance(to)] = n[Balance(to)] + v
      BY TransferFacts, SMTT(30)
    <2>2. m = u
      OBVIOUS
    <2> HIDE DEF u
    <2> QED BY <2>1, <2>2
  <1>2. /\ q \in Map /\ Uniform(q) /\ from \in Recorded(q) /\ to \in Recorded(q)
        /\ \A c \in Cells \ {Balance(from), Balance(to)} : q[c] = Absent \/ q[c] = m[c]
        /\ from = to => q[Balance(to)] = m[Balance(to)]
        /\ from # to => /\ q[Balance(to)] = m[Balance(to)] - v
                        /\ q[Balance(from)] = m[Balance(from)] + v
    BY <1>1, PreStateFacts
  <1>3. /\ Balance(from) \in Cells /\ Balance(to) \in Cells
        /\ n[Balance(from)] \in Int /\ n[Balance(to)] \in Int
    BY CellFacts
  <1>4. q[Balance(from)] = n[Balance(from)] /\ q[Balance(to)] = n[Balance(to)]
    <2>1. CASE from = to
      BY <1>1, <1>2, <2>1
    <2>2. CASE from # to
      BY <1>1, <1>2, <1>3, <2>2
    <2> QED BY <2>1, <2>2
  <1>5. \A c \in Cells : q[c] = Absent \/ q[c] = n[c]
    <2> TAKE c \in Cells
    <2>1. CASE c \in {Balance(from), Balance(to)}
      BY <1>4, <2>1
    <2>2. CASE c \notin {Balance(from), Balance(to)}
      BY <1>1, <1>2, <2>2
    <2> QED BY <2>1, <2>2
  <1>6. \A c \in Cells : q[c] = Absent => m[c] = n[c]
    <2> TAKE c \in Cells
    <2>1. q[Balance(from)] # Absent /\ q[Balance(to)] # Absent
      BY <1>2 DEF Recorded
    <2> QED BY <1>1, <2>1
  <1> QED BY <1>1, <1>2, <1>5, <1>6

\* An account that a stated call has recorded is recorded in all its cells but the slots.
LEMMA RecordedCells ==
  ASSUME NEW pre \in Map, Uniform(pre), NEW a \in Recorded(pre)
  PROVE  pre[Balance(a)] # Absent /\ pre[Nonce(a)] # Absent /\ pre[Code(a)] # Absent
  BY DEF Recorded, Uniform

LEMMA CallEnters ==
  ASSUME TypeOK, Tracing, NEW kind \in CallKinds, NEW to \in Accounts, NEW v \in Nat,
         NEW s, NotedAll(callstack, s, db),
         \A i \in StatedIn(callstack) : to \in Known(s[i]),
         NEW m, m = IF kind = "CALL" THEN Transfer(db, Top.self, to, v) ELSE db,
         NEW f, f = CaptureEnter(kind, to, v, db, m, s, CallLocation)
  PROVE  f \in Frame /\ Good(Append(s, f), m, gone)
  <1> DEFINE me == Top.self
             flag1 == to \in targetAddress
             flag2 == statedCall # <<>> /\ me \in targetAddress
             stated == kind = "CALL" /\ (flag1 \/ flag2)
             others == IF flag2 THEN Recorded(s[statedCall[Len(statedCall)]].pre) ELSE {}
             q == PreState(m, me, to, v, others)
             pre == IF stated THEN q ELSE NoCells
  <1>1. /\ callstack \in Seq(Frame) /\ db \in [Cells -> Int] /\ gone \in SUBSET Accounts
        /\ Top \in Frame /\ me \in Accounts
        /\ \A i \in StatedIn(callstack) : me \in Known(callstack[i])
    BY TracingFacts
  <1>2. /\ s \in Seq(Frame) /\ StatedIn(s) = StatedIn(callstack) /\ StatedIn(s) \subseteq 1..Len(s)
        /\ Len(s) = Len(callstack) /\ Good(s, db, gone)
    <2>1. s \in Seq(Frame) /\ Len(s) = Len(callstack)
      BY DEF NotedAll
    <2>2. StatedIn(s) = StatedIn(callstack)
      BY <1>1, NotedAllFacts
    <2> QED BY <2>1, <2>2, NoteKeeps, StatedFinite DEF Tracing
  <1>3. \A i \in StatedIn(s) : me \in Known(s[i]) /\ to \in Known(s[i])
    BY <1>1, <1>2, NotedAllFacts
  <1>4. \A i \in StatedIn(s) : s[i] \in Frame /\ Uniform(s[i].pre)
    BY <1>2 DEF Good
  <1>5. others \in SUBSET Accounts
    BY Zenon DEF Recorded
  <1> HIDE DEF others
  <1>6. stated \in BOOLEAN /\ (stated => kind = "CALL")
    BY Zenon
  <1>7. /\ m \in [Cells -> Int]
        /\ \A c \in Cells \ {Balance(me), Balance(to)} : m[c] = db[c]
        /\ stated => /\ q \in Map /\ Uniform(q) /\ me \in Recorded(q) /\ to \in Recorded(q)
                     /\ \A c \in Cells : q[c] = Absent \/ q[c] = db[c]
                     /\ \A c \in Cells : q[c] = Absent => m[c] = db[c]
    <2>1. CASE kind = "CALL"
      <3>1. m = Transfer(db, me, to, v) /\ v \in Int
        BY <2>1
      <3> HIDE DEF q
      <3>2. q = PreState(m, me, to, v, others)
        BY DEF q
      <3> QED BY <1>1, <1>5, <3>1, <3>2, PreStateOfTransfer
    <2>2. CASE kind # "CALL"
      BY <1>1, <1>6, <2>2
    <2> QED BY <2>1, <2>2
  <1> HIDE DEF q
  <1>8. /\ pre \in Map /\ Uniform(pre)
        /\ stated => pre = q
    BY <1>7, NoCellsFacts
  <1> DEFINE self == Self(kind, me, to)
             runs == kind \in CreateKinds \/ m[Code(to)] # 0
             ro == Top.readOnly \/ kind = "STATICCALL"
  <1>9. self \in {me, to} /\ (kind = "CALL" => self = to) /\ kind \notin CreateKinds
    BY DEF Self, CallKinds, CreateKinds
  <1>10. f = [kind |-> kind, from |-> me, to |-> to, self |-> self, readOnly |-> ro,
              runs |-> runs, isState |-> stated, pre |-> pre, created |-> {}, deleted |-> {},
              location |-> CallLocation, at |-> pc, unseen |-> {}, save |-> db, gone |-> gone]
    BY <1>9, Zenon DEF CaptureEnter, q, others, NoCells
  <1>11. CallLocation \in 0..MaxOps /\ pc \in 0..MaxOps
    BY DEF CallLocation, TypeOK
  <1>12. runs \in BOOLEAN /\ ro \in BOOLEAN /\ stated \in BOOLEAN
    BY <1>6, Zenon
  <1> HIDE DEF stated, runs, ro, pre, self
  <1>13. /\ f.kind = kind /\ f.from = me /\ f.to = to /\ f.self = self /\ f.pre = pre
         /\ f.location = CallLocation /\ f.at = pc /\ f.save = db /\ f.gone = gone
         /\ (f.isState <=> stated)
    BY <1>10
  <1>14. f \in Frame
    <2>1. kind \in CallKinds \cup CreateKinds /\ self \in Accounts
      BY <1>1, <1>9
    <2> QED BY <1>1, <1>8, <1>10, <1>11, <1>12, <2>1 DEF Frame
  <1>15. \A i \in StatedIn(s) :
            /\ f.self \in Known(s[i]) /\ f.to \in Known(s[i])
            /\ \A c \in Cells : Unknown(s[i], c) => f.save[c] = db[c] /\ m[c] = db[c]
    <2> TAKE i \in StatedIn(s)
    <2>1. ~Unknown(s[i], Balance(me)) /\ ~Unknown(s[i], Balance(to))
      BY <1>1, <1>3, <1>4, KnownCells
    <2> QED BY <1>3, <1>7, <1>9, <1>13, <2>1
  <1>16. f.isState =>
            /\ {f.from, f.to, f.self} \subseteq Recorded(f.pre)
            /\ \A c \in Cells : f.pre[c] # Absent => f.pre[c] = f.save[c]
            /\ \A c \in Cells : f.pre[c] = Absent => m[c] = f.save[c]
            /\ (StatedIn(s) # {} => f.location = f.at)
    <2> SUFFICES ASSUME stated
                 PROVE  /\ {f.from, f.to, f.self} \subseteq Recorded(f.pre)
                        /\ \A c \in Cells : f.pre[c] # Absent => f.pre[c] = f.save[c]
                        /\ \A c \in Cells : f.pre[c] = Absent => m[c] = f.save[c]
                        /\ (StatedIn(s) # {} => f.location = f.at)
      BY <1>13
    <2>1. f.pre = q /\ f.self = to
      BY <1>6, <1>8, <1>9, <1>13
    <2>2. StatedIn(s) # {} => statedCall # <<>>
      BY <1>2, TracingFacts DEF Pointed
    <2>3. StatedIn(s) # {} => f.location = f.at
      BY <1>13, <2>2 DEF CallLocation
    <2> QED BY <1>7, <1>13, <2>1, <2>3
  <1>17. Uniform(f.pre) /\ f.gone = gone
    BY <1>8, <1>13
  <1> QED BY <1>2, <1>7, <1>14, <1>15, <1>16, <1>17, PushKeeps

\* Creating a contract writes the nonces and balances of creator and contract.
LEMMA CreateWrites ==
  ASSUME NEW d \in [Cells -> Int], NEW me \in Accounts, NEW to \in Accounts, NEW v \in Int
  PROVE  LET save == Add(d, Nonce(me), 1)
             m == Transfer(Create(save, to), me, to, v)
         IN  /\ save \in [Cells -> Int] /\ m \in [Cells -> Int]
             /\ \A c \in Cells \ {Nonce(me)} : save[c] = d[c]
             /\ \A c \in Cells \ {Nonce(me), Nonce(to), Balance(me), Balance(to)} : m[c] = d[c]
  <1> DEFINE save == Add(d, Nonce(me), 1)
             n == Create(save, to)
             m == Transfer(n, me, to, v)
  <1>1. save \in [Cells -> Int] /\ \A c \in Cells \ {Nonce(me)} : save[c] = d[c]
    <2>1. Nonce(me) \in Cells /\ 1 \in Int
      BY CellFacts
    <2> QED BY <2>1, AddType, AddFacts
  <1> HIDE DEF save
  <1>2. n \in [Cells -> Int] /\ \A c \in Cells \ {Nonce(to)} : n[c] = save[c]
    <2>1. Nonce(to) \in Cells /\ n = Put(save, Nonce(to), 1) /\ 1 \in Int
      BY CellFacts DEF Create
    <2> HIDE DEF n
    <2> QED BY <1>1, <2>1, AddType, AddFacts
  <1> HIDE DEF n
  <1>3. m \in [Cells -> Int] /\ \A c \in Cells \ {Balance(me), Balance(to)} : m[c] = n[c]
    <2>1. n \in [Cells -> Int]
      BY <1>2
    <2>2. /\ m \in [Cells -> Int]
          /\ \A c \in Cells \ {Balance(me), Balance(to)} : m[c] = n[c]
          /\ me = to => m[Balance(me)] = n[Balance(me)]
          /\ me # to => /\ m[Balance(me)] = n[Balance(me)] - v
                        /\ m[Balance(to)] = n[Balance(to)] + v
      BY <2>1, TransferFacts, ZenonT(60)
    <2> QED BY <2>2
  <1> HIDE DEF m
  <1>4. \A c \in Cells \ {Nonce(me), Nonce(to), Balance(me), Balance(to)} : m[c] = d[c]
    BY <1>1, <1>2, <1>3
  <1> QED BY <1>1, <1>3, <1>4 DEF m, n, save

LEMMA CreateEnters ==
  ASSUME TypeOK, Tracing, NEW to \in Accounts, NEW v \in Nat,
         NEW s, NotedAll(callstack, s, db),
         NEW u, NotedAll(callstack, u, db),
         \A i \in StatedIn(callstack) : to \in Known(u[i]),
         NEW save \in [Cells -> Int], NEW m \in [Cells -> Int],
         \A c \in Cells \ {Nonce(Top.self)} : save[c] = db[c],
         \A c \in Cells \ {Nonce(Top.self), Nonce(to), Balance(Top.self), Balance(to)} :
            m[c] = db[c],
         NEW f, f = CaptureEnter("CREATE", to, v, save, m, s, tmpCallLocation)
  PROVE  f \in Frame /\ Good(Append(u, f), m, gone) /\ Good(s, save, gone)
  <1> DEFINE me == Top.self
  <1>1. /\ callstack \in Seq(Frame) /\ db \in [Cells -> Int] /\ gone \in SUBSET Accounts
        /\ Top \in Frame /\ me \in Accounts
        /\ \A i \in StatedIn(callstack) : me \in Known(callstack[i])
    BY TracingFacts
  <1>2. /\ StatedIn(s) = StatedIn(callstack) /\ Good(s, db, gone)
        /\ StatedIn(u) = StatedIn(callstack) /\ Good(u, db, gone)
        /\ StatedIn(callstack) \subseteq 1..Len(callstack)
    BY <1>1, NotedAllFacts, NoteKeeps, StatedFinite DEF Tracing
  <1>3. \A i \in StatedIn(callstack) : /\ me \in Known(s[i])
                                       /\ me \in Known(u[i]) /\ to \in Known(u[i])
    BY <1>1, <1>2, NotedAllFacts
  <1>4. \A i \in StatedIn(callstack) : /\ s[i] \in Frame /\ Uniform(s[i].pre)
                                       /\ u[i] \in Frame /\ Uniform(u[i].pre)
    BY <1>1, <1>2 DEF NotedAll, Noted
  <1>7. \A i \in StatedIn(s) : \A c \in Cells : Unknown(s[i], c) => save[c] = db[c]
    <2> SUFFICES ASSUME NEW i \in StatedIn(s), NEW c \in Cells, Unknown(s[i], c)
                 PROVE  save[c] = db[c]
      OBVIOUS
    <2>1. ~Unknown(s[i], Nonce(me))
      BY <1>1, <1>2, <1>3, <1>4, KnownCells
    <2>2. c # Nonce(me)
      BY <2>1
    <2> QED BY <2>2
  <1>8. \A i \in StatedIn(u) : \A c \in Cells :
            Unknown(u[i], c) => save[c] = db[c] /\ m[c] = db[c]
    <2> SUFFICES ASSUME NEW i \in StatedIn(u), NEW c \in Cells, Unknown(u[i], c)
                 PROVE  save[c] = db[c] /\ m[c] = db[c]
      OBVIOUS
    <2>1. /\ ~Unknown(u[i], Balance(me)) /\ ~Unknown(u[i], Balance(to))
          /\ ~Unknown(u[i], Nonce(me)) /\ ~Unknown(u[i], Nonce(to))
      BY <1>1, <1>2, <1>3, <1>4, KnownCells
    <2>2. c \notin {Balance(me), Balance(to), Nonce(me), Nonce(to)}
      BY <2>1
    <2> QED BY <2>2
  <1> HIDE DEF me
  <1>9. Good(s, save, gone)
    <2>1. SameUnknown(s, save, db)
      BY <1>7 DEF SameUnknown
    <2>2. Good(s, db, gone) /\ gone \in SUBSET Accounts
      BY <1>1, <1>2
    <2> QED BY <2>1, <2>2, WriteKeepsSame
  <1> DEFINE ro == Top.readOnly \/ "CREATE" = "STATICCALL"
             yes == TRUE
             no == FALSE
  <1>10. f = [kind |-> "CREATE", from |-> me, to |-> to, self |-> to, readOnly |-> ro,
              runs |-> yes, isState |-> no, pre |-> NoCells, created |-> {}, deleted |-> {},
              location |-> tmpCallLocation, at |-> pc, unseen |-> {},
              save |-> save, gone |-> gone]
    <2>1. "CREATE" \in CreateKinds /\ "CREATE" # "CALL"
      BY DEF CreateKinds
    <2>2. ("CREATE" \in CreateKinds \/ m[Code(to)] # 0) = TRUE
      BY <2>1
    <2>3. \A x : ("CREATE" = "CALL" /\ x) = FALSE
      BY <2>1
    <2> QED BY <2>1, <2>2, <2>3, Zenon DEF CaptureEnter, me, NoCells
  <1>11. tmpCallLocation \in 0..MaxOps /\ pc \in 0..MaxOps
    BY DEF TypeOK
  <1>12. ro \in BOOLEAN /\ yes \in BOOLEAN /\ no \in BOOLEAN /\ no = FALSE
    BY Zenon
  <1> HIDE DEF ro, yes, no
  <1>13. /\ f.to = to /\ f.self = to /\ f.pre = NoCells /\ f.save = save /\ f.gone = gone
         /\ f.isState = FALSE
    BY <1>10, <1>12
  <1>14. f \in Frame
    <2>1. "CREATE" \in CallKinds \cup CreateKinds
      BY DEF CreateKinds
    <2>2. NoCells \in Map
      BY NoCellsFacts
    <2> QED BY <1>1, <1>10, <1>11, <1>12, <2>1, <2>2 DEF Frame
  <1>15. \A i \in StatedIn(u) :
            /\ f.self \in Known(u[i]) /\ f.to \in Known(u[i])
            /\ \A c \in Cells : Unknown(u[i], c) => f.save[c] = db[c] /\ m[c] = db[c]
    BY <1>2, <1>3, <1>8, <1>13
  <1>16. Uniform(f.pre) /\ f.gone = gone /\ ~f.isState
    BY <1>13, NoCellsFacts
  <1>17. Good(Append(u, f), m, gone)
    BY <1>2, <1>14, <1>15, <1>16, PushKeeps
  <1> QED BY <1>9, <1>14, <1>17

(***************************************************************************)
(* The transaction begins: CaptureStart, after the nonce of the sender has  *)
(* been incremented, the new account set up and the value transferred.      *)
(***************************************************************************)
LEMMA StartKeeps ==
  ASSUME Inv, NEW kind \in {"CALL", "CREATE"}, NEW from \in Accounts, NEW to \in Accounts,
         NEW v \in Nat, Start(kind, from, to, v)
  PROVE  Inv'
  <1> DEFINE save == Add(db, Nonce(from), 1)
             n == IF kind = "CREATE" THEN Create(save, to) ELSE save
             m == Transfer(n, from, to, v)
             f == CaptureStart(kind, from, to, v, save, m)
             q == PreState(m, from, to, v, {})
             p == Add(q, Nonce(from), -1)
             e == Add(save, Nonce(from), -1)
             late == IF kind = "CREATE" THEN {Nonce(to)} ELSE {}
             stated == to \in targetAddress
             pre == IF stated THEN p ELSE NoCells
             new == IF stated /\ kind = "CREATE" THEN {to} ELSE {}
             runs == kind = "CREATE" \/ m[Code(to)] # 0
  <1>1. /\ phase = "ready" /\ db' = m /\ phase' = "tx" /\ callstack' = <<f>>
        /\ statedCall' = (IF f.isState THEN <<1>> ELSE <<>>)
        /\ UNCHANGED <<targetAddress, gone, tmpCallLocation, pc, done>>
    BY Zenon DEF Start
  <1>2. TypeOK /\ done = <<>> /\ gone = {} /\ db \in [Cells -> Int]
    BY <1>1 DEF Inv, TypeOK
  <1>3. /\ Nonce(from) \in Cells /\ Nonce(to) \in Cells
        /\ Balance(from) \in Cells /\ Balance(to) \in Cells /\ 1 \in Int /\ -1 \in Int /\ v \in Int
    BY CellFacts
  <1>4. /\ save \in [Cells -> Int] /\ \A c \in Cells \ {Nonce(from)} : save[c] = db[c]
        /\ save[Nonce(from)] = db[Nonce(from)] + 1
    BY <1>2, <1>3, AddType, AddFacts
  <1> HIDE DEF save
  <1>5. n \in [Cells -> Int] /\ \A c \in Cells \ late : n[c] = save[c]
    <2>1. Create(save, to) = Put(save, Nonce(to), 1)
      BY DEF Create
    <2>2. /\ Create(save, to) \in [Cells -> Int]
          /\ \A c \in Cells \ {Nonce(to)} : Create(save, to)[c] = save[c]
      BY <1>3, <1>4, <2>1, AddType, AddFacts
    <2> QED BY <1>4, <2>2
  <1> HIDE DEF n
  <1>6. /\ m \in [Cells -> Int]
        /\ q \in Map /\ Uniform(q) /\ from \in Recorded(q) /\ to \in Recorded(q)
        /\ \A c \in Cells : q[c] = Absent \/ q[c] = n[c]
        /\ \A c \in Cells : q[c] = Absent => m[c] = n[c]
    <2> HIDE DEF m, q
    <2>1. m = Transfer(n, from, to, v) /\ q = PreState(m, from, to, v, {})
      BY DEF m, q
    <2>2. {} \in SUBSET Accounts
      OBVIOUS
    <2> QED BY <1>3, <1>5, <2>1, <2>2, PreStateOfTransfer
  <1> HIDE DEF m, q
  <1>7. /\ DOMAIN p = Cells /\ p[Nonce(from)] = q[Nonce(from)] + (-1)
        /\ \A c \in Cells \ {Nonce(from)} : p[c] = q[c]
        /\ e \in [Cells -> Int] /\ e[Nonce(from)] = save[Nonce(from)] + (-1)
        /\ \A c \in Cells \ {Nonce(from)} : e[c] = save[c]
        /\ p = [d \in Cells |-> IF d = Nonce(from) THEN q[Nonce(from)] + (-1) ELSE q[d]]
    <2>1. DOMAIN q = Cells /\ DOMAIN save = Cells
      BY <1>4, <1>6 DEF Map
    <2>2. /\ DOMAIN p = Cells /\ p[Nonce(from)] = q[Nonce(from)] + (-1)
          /\ \A c \in Cells \ {Nonce(from)} : p[c] = q[c]
          /\ p = [d \in Cells |-> IF d = Nonce(from) THEN q[Nonce(from)] + (-1) ELSE q[d]]
      BY <1>3, <2>1, AddFacts
    <2>3. /\ e \in [Cells -> Int] /\ e[Nonce(from)] = save[Nonce(from)] + (-1)
          /\ \A c \in Cells \ {Nonce(from)} : e[c] = save[c]
      BY <1>3, <1>4, <2>1, AddType, AddFacts
    <2> QED BY <2>2, <2>3
  <1> HIDE DEF p, e
  <1>8. q[Nonce(from)] = n[Nonce(from)] /\ q[Nonce(from)] \in Int
    <2>1. q[Nonce(from)] # Absent
      BY <1>6, RecordedCells
    <2> QED BY <1>3, <1>5, <1>6, <2>1
  <1>9. p \in Map /\ Uniform(p) /\ from \in Recorded(p) /\ to \in Recorded(p)
    <2>1. p[Nonce(from)] \in Int
      BY <1>7, <1>8
    <2>2. p \in Map
      BY <1>6, <1>7, <1>8, <2>1 DEF Map
    <2>3. \A c \in Cells : p[c] = Absent <=> q[c] = Absent
      BY <1>3, <1>7, <1>8, <2>1, AbsentFacts
    <2>4. \A a \in Accounts : Balance(a) \in Cells /\ Nonce(a) \in Cells /\ Code(a) \in Cells
      BY CellFacts
    <2> QED BY <1>6, <2>2, <2>3, <2>4 DEF Uniform, Recorded
  <1>10. \A c \in Cells \ late : p[c] # Absent => p[c] = e[c]
    <2> SUFFICES ASSUME NEW c \in Cells \ late, p[c] # Absent PROVE p[c] = e[c]
      OBVIOUS
    <2>1. n[c] = save[c]
      BY <1>5
    <2>2. CASE c = Nonce(from)
      BY <1>7, <1>8, <2>1, <2>2
    <2>3. CASE c # Nonce(from)
      BY <1>6, <1>7, <2>1, <2>3
    <2> QED BY <2>2, <2>3
  <1>11. \A c \in Cells : p[c] = Absent => m[c] = e[c]
    <2> SUFFICES ASSUME NEW c \in Cells, p[c] = Absent PROVE m[c] = e[c]
      OBVIOUS
    <2>1. c # Nonce(from) /\ c # Nonce(to)
      BY <1>9, RecordedCells
    <2>2. q[c] = Absent /\ c \in Cells \ late
      BY <1>7, <2>1
    <2> QED BY <1>5, <1>6, <1>7, <2>1, <2>2
  <1>12. pre \in Map /\ Uniform(pre) /\ new \in SUBSET Accounts
    BY <1>9, NoCellsFacts
  <1>13. f = [kind |-> kind, from |-> from, to |-> to, self |-> to, readOnly |-> FALSE,
              runs |-> runs, isState |-> stated, pre |-> pre, created |-> new,
              deleted |-> {}, location |-> 0, at |-> 0,
              unseen |-> {}, save |-> save, gone |-> {}]
    BY Zenon DEF CaptureStart, p, q, NoCells
  <1>14. stated \in BOOLEAN /\ runs \in BOOLEAN /\ (stated => pre = p)
    <2>1. stated \in BOOLEAN
      OBVIOUS
    <2>2. runs \in BOOLEAN
      OBVIOUS
    <2>3. stated => pre = p
      OBVIOUS
    <2> QED BY <2>1, <2>2, <2>3
  <1> HIDE DEF stated, runs, pre, new, f
  <1>15. /\ f.kind = kind /\ f.from = from /\ f.to = to /\ f.self = to /\ f.pre = pre
         /\ f.save = save /\ f.gone = {} /\ (f.isState <=> stated)
    BY <1>13
  <1>16. f \in Frame
    <2>1. kind \in CallKinds \cup CreateKinds /\ 0 \in 0..MaxOps
      BY TracerAssumption DEF CallKinds, CreateKinds
    <2>2. {} \in SUBSET Accounts
      OBVIOUS
    <2> QED BY <1>4, <1>12, <1>13, <1>14, <2>1, <2>2 DEF Frame
  <1> DEFINE s == <<f>>
  <1>17. s \in Seq(Frame) /\ s # <<>> /\ Len(s) = 1 /\ s[1] = f /\ DOMAIN s = {1}
    BY <1>16
  <1> HIDE DEF s
  <1>18. StatedIn(s) = IF f.isState THEN {1} ELSE {}
    BY <1>17 DEF StatedIn
  <1>19. Good(s, m, {})
    <2>1. ASSUME NEW i \in StatedIn(s)
          PROVE  /\ Visible(s, i) /\ SeenAtEntry(s, i) /\ Untouched(s, i, m)
                 /\ DeletedKnown(s, i, {}) /\ Located(s, i)
      <3>1. i = 1 /\ s[i] = f /\ f.isState /\ f.pre = p
        BY <1>14, <1>15, <1>17, <1>18
      <3>2. EntryIn(s, i) = e /\ LateIn(s, i) = late
        BY <1>15, <3>1 DEF EntryIn, LateIn, e
      <3>3. (\A j \in i..Len(s) : j = 1) /\ (i + 1)..Len(s) = {}
        BY <1>17, <3>1
      <3> HIDE DEF late
      <3>4. Visible(s, i)
        BY <1>9, <1>15, <3>1, <3>3 DEF Visible, Known
      <3>5. SeenAtEntry(s, i) /\ Untouched(s, i, m)
        BY <1>10, <1>11, <3>1, <3>2, <3>3 DEF SeenAtEntry, Untouched, Unknown
      <3>6. DeletedKnown(s, i, {}) /\ Located(s, i)
        BY <3>1, <3>3 DEF DeletedKnown, Located
      <3> QED BY <3>4, <3>5, <3>6
    <2>2. \A i \in 1..Len(s) : Uniform(s[i].pre)
      BY <1>12, <1>15, <1>17
    <2> QED BY <1>6, <1>17, <2>1, <2>2 DEF Good
  <1> DEFINE pts == IF f.isState THEN <<1>> ELSE <<>>
  <1>20. Aligned(s, pts)
    <2>1. CASE f.isState
      <3>1. pts = <<1>>
        BY <2>1
      <3> HIDE DEF pts
      <3>2. pts \in Seq(1..Len(s)) /\ Len(pts) = 1 /\ DOMAIN pts = {1} /\ pts[1] = 1
        BY <1>17, <3>1
      <3>3. {pts[j] : j \in DOMAIN pts} = {1}
        BY <3>2
      <3>4. Cardinality({1}) = 1
        BY FS_Singleton
      <3> QED BY <1>18, <2>1, <3>2, <3>3, <3>4 DEF Aligned
    <2>2. CASE ~f.isState
      <3>1. pts = <<>>
        BY <2>2
      <3> HIDE DEF pts
      <3>2. pts \in Seq(1..Len(s)) /\ Len(pts) = 0 /\ DOMAIN pts = {}
        BY <3>1
      <3>3. Cardinality({}) = 0
        BY FS_EmptySet
      <3> QED BY <1>18, <2>2, <3>2, <3>3 DEF Aligned
    <2> QED BY <2>1, <2>2
  <1>21. DiffExact'
    <2>1. done' = <<>>
      BY <1>1, <1>2
    <2> QED BY <2>1 DEF DiffExact
  <1>22. /\ callstack' = s /\ gone' = {} /\ statedCall' = pts
         /\ targetAddress' = targetAddress /\ done' = <<>>
         /\ tmpCallLocation' \in 0..MaxOps /\ pc' \in 0..MaxOps
    BY <1>1, <1>2 DEF TypeOK, s
  <1>23. Len(s) <= MaxDepth
    BY <1>17, TracerAssumption
  <1> HIDE DEF pts
  <1> QED BY <1>1, <1>19, <1>20, <1>21, <1>22, <1>23, StillTracing

(***************************************************************************)
(* Each action keeps the invariant.                                         *)
(***************************************************************************)
LEMMA RunningFacts ==
  ASSUME Inv, Running
  PROVE  phase = "tx" /\ TypeOK /\ Tracing /\ pc < MaxOps
  BY DEF Inv, Running

LEMMA CallLocationType == TypeOK => CallLocation \in 0..MaxOps
  BY DEF TypeOK, CallLocation

LEMMA SlotCaptured ==
  ASSUME Inv, Running, NEW k \in Keys
  PROVE  LET c == Storage(Top.self, k)
             s == CaptureState("slot", c)
         IN  /\ c \in Cells /\ c \in Slots
             /\ NotedAll(callstack, s, db) /\ StatedIn(s) = StatedIn(callstack)
             /\ \A i \in StatedIn(s) : s[i].pre[c] # Absent
  <1> DEFINE c == Storage(Top.self, k)
             s == CaptureState("slot", c)
  <1>1. TypeOK /\ Tracing
    BY RunningFacts
  <1>2. /\ callstack \in Seq(Frame) /\ db \in [Cells -> Int] /\ Top.self \in Accounts
    BY <1>1, TracingFacts
  <1>3. c \in Slots /\ c \in Cells
    BY <1>2, CellFacts
  <1> HIDE DEF c
  <1>5. NotedAll(callstack, s, db) /\ \A i \in StatedIn(callstack) : s[i].pre[c] # Absent
    BY <1>1, <1>3, CaptureSlot
  <1> HIDE DEF s
  <1>6. StatedIn(s) = StatedIn(callstack)
    BY <1>2, <1>5, NotedAllFacts
  <1> QED BY <1>3, <1>5, <1>6 DEF s, c

LEMMA AccessKeeps ==
  ASSUME Inv, Running, NEW k \in Keys, NEW m \in [Cells -> Int],
         \A c \in Cells \ {Storage(Top.self, k)} : m[c] = db[c],
         AccessSlot(k, m), UNCHANGED <<gone, tmpCallLocation>>
  PROVE  Inv'
  <1> DEFINE c == Storage(Top.self, k)
             s == CaptureState("slot", c)
  <1>1. phase = "tx" /\ TypeOK /\ Tracing /\ pc < MaxOps
    BY RunningFacts
  <1>2. /\ c \in Cells
        /\ NotedAll(callstack, s, db) /\ StatedIn(s) = StatedIn(callstack)
        /\ \A i \in StatedIn(s) : s[i].pre[c] # Absent
    BY SlotCaptured
  <1>3. CASE NilAccount(Top.self)
    <2>1. /\ phase' = "panicked"
          /\ UNCHANGED <<targetAddress, db, callstack, statedCall, pc, done>>
      BY <1>3, Zenon DEF AccessSlot
    <2>2. TypeOK' /\ DiffExact'
      BY <1>1, <2>1 DEF Inv, TypeOK, DiffExact
    <2>3. Tracing'
      BY <1>1, <2>1 DEF Tracing
    <2>4. NilAccount(Top.self)'
      BY <1>3, <2>1 DEF NilAccount, Pointed, Top
    <2> QED BY <2>1, <2>2, <2>3, <2>4 DEF Inv
  <1> SUFFICES ASSUME ~NilAccount(Top.self) PROVE Inv'
    BY <1>3
  <1>4. Step(s, m)
    BY DEF AccessSlot
  <1> HIDE DEF s
  <1>5. Good(s, db, gone) /\ gone \in SUBSET Accounts
    BY <1>1, <1>2, NoteKeeps DEF Tracing, Good
  <1>6. \A i \in StatedIn(s) : /\ \A d \in Cells : Unknown(s[i], d) => m[d] = db[d]
                               /\ gone \ gone \subseteq s[i].deleted
    BY <1>2 DEF Unknown
  <1>7. Good(s, m, gone)
    BY <1>5, <1>6, WriteKeeps
  <1>8. Good(s, m, gone') /\ tmpCallLocation' \in 0..MaxOps
    BY <1>1, <1>7 DEF TypeOK
  <1> QED BY <1>1, <1>2, <1>4, <1>8, StepKeeps

LEMMA SloadKeeps ==
  ASSUME Inv, NEW k \in Keys, Sload(k)
  PROVE  Inv'
  <1>1. Running /\ AccessSlot(k, db) /\ UNCHANGED <<gone, tmpCallLocation>>
    BY DEF Sload
  <1>2. db \in [Cells -> Int]
    BY DEF Inv, TypeOK
  <1> QED BY <1>1, <1>2, AccessKeeps

LEMMA SstoreKeeps ==
  ASSUME Inv, NEW k \in Keys, NEW v \in Values, Sstore(k, v)
  PROVE  Inv'
  <1> DEFINE c == Storage(Top.self, k)
             m == Put(db, c, v)
  <1>1. Running /\ AccessSlot(k, m) /\ UNCHANGED <<gone, tmpCallLocation>>
    BY DEF Sstore
  <1>2. db \in [Cells -> Int] /\ v \in Int /\ DOMAIN db = Cells
    BY EvmAssumption DEF Inv, TypeOK
  <1>3. c \in Cells
    BY <1>1, SlotCaptured
  <1> HIDE DEF c
  <1>4. m \in [Cells -> Int] /\ \A d \in Cells \ {c} : m[d] = db[d]
    BY <1>2, <1>3, AddType, AddFacts
  <1> HIDE DEF m
  <1> QED BY <1>1, <1>4, AccessKeeps DEF c

LEMMA InspectKeeps ==
  ASSUME Inv, NEW a \in Accounts, Inspect(a)
  PROVE  Inv'
  <1> DEFINE s == CaptureState("account", a)
  <1>1. Running /\ Step(s, db) /\ UNCHANGED <<gone, tmpCallLocation>>
    BY DEF Inspect
  <1>2. phase = "tx" /\ TypeOK /\ Tracing /\ pc < MaxOps
    BY <1>1, RunningFacts
  <1>3. NotedAll(callstack, s, db)
    BY <1>2, CaptureAccount
  <1> HIDE DEF s
  <1>4. Good(s, db, gone') /\ tmpCallLocation' \in 0..MaxOps
    BY <1>1, <1>2, <1>3, NoteKeeps DEF Tracing, TypeOK
  <1> QED BY <1>1, <1>2, <1>3, <1>4, StepKeeps

\* A self-destruction moves the balance between two accounts that all stated calls have recorded.
LEMMA DestructFacts ==
  ASSUME NEW m \in [Cells -> Int], NEW a \in Accounts, NEW b \in Accounts
  PROVE  /\ Destruct(m, a, b) \in [Cells -> Int]
         /\ \A c \in Cells \ {Balance(a), Balance(b)} : Destruct(m, a, b)[c] = m[c]
  <1> DEFINE n == Add(m, Balance(b), m[Balance(a)])
             u == Put(n, Balance(a), 0)
  <1>1. Balance(a) \in Cells /\ Balance(b) \in Cells /\ m[Balance(a)] \in Int /\ 0 \in Int
    BY CellFacts
  <1>2. n \in [Cells -> Int] /\ \A c \in Cells \ {Balance(b)} : n[c] = m[c]
    BY <1>1, AddType, AddFacts
  <1> HIDE DEF n
  <1>3. u \in [Cells -> Int] /\ \A c \in Cells \ {Balance(a)} : u[c] = n[c]
    BY <1>1, <1>2 DEF Put
  <1> HIDE DEF u
  <1>4. Destruct(m, a, b) = u
    BY DEF Destruct, u, n
  <1> QED BY <1>2, <1>3, <1>4

LEMMA SelfdestructKeeps ==
  ASSUME Inv, NEW a \in Accounts, Selfdestruct(a)
  PROVE  Inv'
  <1> DEFINE me == Top.self
             s == CaptureState("SELFDESTRUCT", a)
             t == [s EXCEPT ![Len(s)].runs = FALSE]
             m == Destruct(db, me, a)
             g == gone \cup {me}
  <1>1. Running /\ Step(t, m) /\ gone' = g /\ tmpCallLocation' = tmpCallLocation
    BY DEF Selfdestruct
  <1>2. phase = "tx" /\ TypeOK /\ Tracing /\ pc < MaxOps
    BY <1>1, RunningFacts
  <1>3. /\ callstack \in Seq(Frame) /\ db \in [Cells -> Int] /\ me \in Accounts
        /\ gone \in SUBSET Accounts /\ Len(callstack) \in Nat /\ Len(callstack) >= 1
        /\ \A i \in StatedIn(callstack) : me \in Known(callstack[i])
    BY <1>2, TracingFacts
  <1>4. /\ NotedAll(callstack, s, db)
        /\ \A i \in StatedIn(callstack) : a \in Recorded(s[i].pre) /\ me \in s[i].deleted
    BY <1>2, CaptureSelfdestruct
  <1> HIDE DEF s, me
  <1>5. s \in Seq(Frame) /\ Len(s) = Len(callstack) /\ Good(s, db, gone)
    BY <1>2, <1>4, NoteKeeps DEF NotedAll, Tracing
  <1>6. StatedIn(s) = StatedIn(callstack) /\ StatedIn(s) \subseteq 1..Len(callstack)
    BY <1>3, <1>4, <1>5, NotedAllFacts, StatedFinite
  <1>7. \A i \in StatedIn(s) : /\ me \in Known(s[i]) /\ a \in Known(s[i])
                               /\ me \in s[i].deleted
                               /\ s[i] \in Frame /\ Uniform(s[i].pre)
    BY <1>3, <1>4, <1>6, NotedAllFacts DEF Known, NotedAll, Noted
  <1>8. /\ m \in [Cells -> Int] /\ g \in SUBSET Accounts
        /\ \A c \in Cells \ {Balance(me), Balance(a)} : m[c] = db[c]
    BY <1>3, DestructFacts
  <1>9. Good(s, m, g)
    <2>1. \A i \in StatedIn(s) : /\ \A c \in Cells : Unknown(s[i], c) => m[c] = db[c]
                                 /\ g \ gone \subseteq s[i].deleted
      <3> TAKE i \in StatedIn(s)
      <3>1. ~Unknown(s[i], Balance(me)) /\ ~Unknown(s[i], Balance(a))
        BY <1>3, <1>7, KnownCells
      <3> QED BY <1>7, <1>8, <3>1
    <2> HIDE DEF m, g
    <2> QED BY <1>5, <1>8, <2>1, WriteKeeps
  <1> HIDE DEF m, g
  <1>10. NotedAll(s, t, m)
    <2>1. Len(s) \in 1..Len(s) /\ DOMAIN s = 1..Len(s) /\ \A i \in 1..Len(s) : s[i] \in Frame
      BY <1>3, <1>5
    <2> DEFINE h == [s[Len(s)] EXCEPT !.runs = FALSE]
    <2>2. h \in Frame /\ SameCall(s[Len(s)], h) /\ h.pre = s[Len(s)].pre
          /\ h.created = s[Len(s)].created /\ h.deleted = s[Len(s)].deleted
          /\ h.unseen = s[Len(s)].unseen
      <3> DEFINE f == s[Len(s)]
                 no == FALSE
      <3>1. f \in Frame /\ no \in BOOLEAN
        BY <2>1
      <3> HIDE DEF f, no
      <3>2. /\ [f EXCEPT !.runs = no] \in Frame /\ SameCall(f, [f EXCEPT !.runs = no])
            /\ [f EXCEPT !.runs = no].pre = f.pre /\ [f EXCEPT !.runs = no].created = f.created
            /\ [f EXCEPT !.runs = no].deleted = f.deleted
            /\ [f EXCEPT !.runs = no].unseen = f.unseen
        BY <3>1 DEF Frame, SameCall
      <3> QED BY <3>2 DEF f, no
    <2>3. /\ DOMAIN t = 1..Len(s) /\ t[Len(s)] = h /\ t = [s EXCEPT ![Len(s)] = h]
          /\ \A i \in 1..Len(s) : i # Len(s) => t[i] = s[i]
      BY <2>1
    <2> HIDE DEF h, t
    <2>4. t \in Seq(Frame) /\ Len(t) = Len(s)
      <3>1. \A i \in 1..Len(s) : t[i] \in Frame
        BY <2>1, <2>2, <2>3
      <3> QED BY <1>5, <2>1, <2>2, <2>3, <3>1
    <2>5. \A i \in 1..Len(s) : Noted(s[i], t[i], m)
      <3> TAKE i \in 1..Len(s)
      <3>1. Uniform(s[i].pre)
        BY <1>5 DEF Good
      <3>2. CASE i = Len(s)
        <4>1. Noted(s[Len(s)], h, m)
          BY <2>2, <3>1, <3>2 DEF Noted, Grows
        <4> QED BY <2>3, <3>2, <4>1
      <3>3. CASE i # Len(s)
        BY <2>1, <2>3, <3>1, <3>3, NotedSelf
      <3> QED BY <3>2, <3>3
    <2> QED BY <2>4, <2>5 DEF NotedAll
  <1> HIDE DEF t
  <1>11. Good(t, m, g)
    BY <1>9, <1>10, NoteKeeps
  <1>12. Len(t) = Len(s) /\ StatedIn(t) = StatedIn(s)
    BY <1>5, <1>8, <1>10, NotedAllFacts DEF NotedAll
  <1>13. Good(t, m, gone') /\ tmpCallLocation' \in 0..MaxOps
    BY <1>1, <1>2, <1>11 DEF TypeOK
  <1> QED BY <1>1, <1>2, <1>4, <1>12, <1>13, StepKeeps

LEMMA CallKeeps ==
  ASSUME Inv, NEW kind \in CallKinds, NEW to \in Accounts, NEW v \in Amounts, Call(kind, to, v)
  PROVE  Inv'
  <1> DEFINE s == CaptureState("account", to)
             m == IF kind = "CALL" THEN Transfer(db, Top.self, to, v) ELSE db
             f == CaptureEnter(kind, to, v, db, m, s, CallLocation)
  <1>1. /\ Running /\ tmpCallLocation' = CallLocation /\ gone' = gone
        /\ (Len(callstack) < MaxDepth /\ v <= db[Balance(Top.self)]) => Push(s, f, m)
        /\ ~(Len(callstack) < MaxDepth /\ v <= db[Balance(Top.self)]) => Step(s, db)
    BY Zenon DEF Call
  <1>2. phase = "tx" /\ TypeOK /\ Tracing /\ pc < MaxOps /\ v \in Nat
    BY <1>1, RunningFacts, EvmAssumption
  <1>3. /\ NotedAll(callstack, s, db)
        /\ \A i \in StatedIn(callstack) : to \in Known(s[i])
    BY <1>2, CaptureAccount DEF Known
  <1>4. tmpCallLocation' \in 0..MaxOps
    BY <1>1, <1>2, CallLocationType
  <1> HIDE DEF s, m, f
  <1>5. m = (IF kind = "CALL" THEN Transfer(db, Top.self, to, v) ELSE db)
        /\ f = CaptureEnter(kind, to, v, db, m, s, CallLocation)
    BY DEF m, f
  <1>6. f \in Frame /\ Good(Append(s, f), m, gone)
    BY <1>2, <1>3, <1>5, CallEnters
  <1>7. CASE Len(callstack) < MaxDepth /\ v <= db[Balance(Top.self)]
    BY <1>1, <1>2, <1>3, <1>4, <1>6, <1>7, PushKeepsInv
  <1>8. CASE ~(Len(callstack) < MaxDepth /\ v <= db[Balance(Top.self)])
    <2>1. Step(s, db)
      BY <1>1, <1>8
    <2>2. Good(s, db, gone')
      BY <1>1, <1>2, <1>3, NoteKeeps DEF Tracing
    <2> QED BY <1>2, <1>3, <1>4, <2>1, <2>2, StepKeeps
  <1> QED BY <1>7, <1>8

LEMMA NewContractKeeps ==
  ASSUME Inv, NEW to \in Accounts, NEW v \in Amounts,
         NEW s, NotedAll(callstack, s, db), NEW u, NotedAll(callstack, u, db),
         \A i \in StatedIn(callstack) : to \in Known(u[i]),
         NewContract(s, u, to, v)
  PROVE  Inv'
  <1> DEFINE me == Top.self
             save == Add(db, Nonce(me), 1)
             m == Transfer(Create(save, to), me, to, v)
             f == CaptureEnter("CREATE", to, v, save, m, s, tmpCallLocation)
             short == Len(callstack) = MaxDepth \/ v > db[Balance(Top.self)]
  <1>1. /\ Running /\ UNCHANGED <<gone, tmpCallLocation>>
        /\ short => Step(s, db)
        /\ ~short /\ Taken(save, to) => Step(s, save)
        /\ ~short /\ ~Taken(save, to) => Push(u, f, m)
    BY Zenon DEF NewContract
  <1>2. phase = "tx" /\ TypeOK /\ Tracing /\ pc < MaxOps /\ v \in Int /\ v \in Nat
    BY <1>1, RunningFacts, EvmAssumption
  <1>4. /\ save \in [Cells -> Int] /\ m \in [Cells -> Int]
        /\ \A c \in Cells \ {Nonce(me)} : save[c] = db[c]
        /\ \A c \in Cells \ {Nonce(me), Nonce(to), Balance(me), Balance(to)} : m[c] = db[c]
    <2>1. db \in [Cells -> Int] /\ me \in Accounts
      BY <1>2, TracingFacts
    <2> HIDE DEF me
    <2> QED BY <1>2, <2>1, CreateWrites
  <1> HIDE DEF save, m, f
  <1>5. f = CaptureEnter("CREATE", to, v, save, m, s, tmpCallLocation)
    BY DEF f
  <1>6. f \in Frame /\ Good(Append(u, f), m, gone) /\ Good(s, save, gone)
    BY <1>2, <1>4, <1>5, CreateEnters
  <1>7. Good(s, db, gone) /\ tmpCallLocation' \in 0..MaxOps /\ gone' = gone
    BY <1>1, <1>2, NoteKeeps DEF Tracing, TypeOK
  <1>8. CASE short
    <2>1. Step(s, db) /\ Good(s, db, gone')
      BY <1>1, <1>7, <1>8
    <2> QED BY <1>2, <1>7, <2>1, StepKeeps
  <1>9. CASE ~short /\ Taken(save, to)
    <2>1. Step(s, save) /\ Good(s, save, gone')
      BY <1>1, <1>6, <1>7, <1>9
    <2> QED BY <1>2, <1>7, <2>1, StepKeeps
  <1>10. CASE ~short /\ ~Taken(save, to)
    <2>1. Push(u, f, m)
      BY <1>1, <1>10
    <2>2. Len(callstack) < MaxDepth
      <3>1. Len(callstack) <= MaxDepth /\ Len(callstack) # MaxDepth /\ Len(callstack) \in Nat
        BY <1>2, <1>10, TracingFacts DEF TypeOK
      <3> QED BY <3>1, TracerAssumption
    <2> QED BY <1>2, <1>6, <1>7, <2>1, <2>2, PushKeepsInv
  <1> QED BY <1>8, <1>9, <1>10

LEMMA CreateContractKeeps ==
  ASSUME Inv, NEW to \in Accounts, NEW v \in Amounts, CreateContract(to, v)
  PROVE  Inv'
  <1> DEFINE s == CaptureState("CREATE", to)
  <1>1. NewContract(s, s, to, v) /\ Running
    BY DEF CreateContract, NewContract
  <1>2. TypeOK /\ Tracing
    BY <1>1, RunningFacts
  <1>3. /\ NotedAll(callstack, s, db)
        /\ \A i \in StatedIn(callstack) : to \in Known(s[i])
    BY <1>2, CaptureCreate DEF Known
  <1> HIDE DEF s
  <1> QED BY <1>1, <1>3, NewContractKeeps

LEMMA NothingNoted ==
  ASSUME Tracing
  PROVE  NotedAll(callstack, callstack, db)
  <1>1. callstack \in Seq(Frame)
    BY TracingFacts
  <1>2. \A i \in 1..Len(callstack) : callstack[i] \in Frame /\ Uniform(callstack[i].pre)
    BY <1>1 DEF Tracing, Good
  <1>3. \A i \in 1..Len(callstack) : Noted(callstack[i], callstack[i], db)
    BY <1>2, NotedSelf
  <1> QED BY <1>1, <1>3 DEF NotedAll

LEMMA CreateUnseenKeeps ==
  ASSUME Inv, NEW to \in Accounts, NEW v \in Amounts, CreateUnseen(to, v)
  PROVE  Inv'
  <1> DEFINE u == MissCreate(to)
  <1>1. NewContract(callstack, u, to, v) /\ Running
    BY DEF CreateUnseen, NewContract
  <1>2. TypeOK /\ Tracing
    BY <1>1, RunningFacts
  <1>3. /\ NotedAll(callstack, u, db)
        /\ \A i \in StatedIn(callstack) : to \in Known(u[i])
    BY <1>2, CreateMissed
  <1>4. NotedAll(callstack, callstack, db)
    BY <1>2, NothingNoted
  <1> HIDE DEF u
  <1> QED BY <1>1, <1>3, <1>4, NewContractKeeps

LEMMA EndCallKeeps ==
  ASSUME Inv, NEW ok \in BOOLEAN, EndCall(ok)
  PROVE  Inv'
  <1>1. phase = "tx" /\ Leave(callstack, ok) /\ UNCHANGED <<tmpCallLocation, pc>>
    BY DEF EndCall
  <1>2. Tracing /\ tmpCallLocation' \in 0..MaxOps /\ pc' \in 0..MaxOps
    BY <1>1 DEF Inv, TypeOK
  <1>3. NotedAll(callstack, callstack, db)
    BY <1>2, NothingNoted
  <1> QED BY <1>1, <1>2, <1>3, LeaveKeeps

LEMMA ProtectedKeeps ==
  ASSUME Inv, NEW a \in Accounts,
         SelfdestructProtected(a) \/ CreateProtected(a) \/ CallProtected(a)
  PROVE  Inv'
  <1>0. FALSE \in BOOLEAN
    OBVIOUS
  <1>1. Running
    BY DEF SelfdestructProtected, CreateProtected, CallProtected
  <1>2. phase = "tx" /\ TypeOK /\ Tracing
    BY <1>1, RunningFacts
  <1>3. tmpCallLocation' \in 0..MaxOps /\ pc' \in 0..MaxOps
    <2>1. CallLocation \in 0..MaxOps /\ tmpCallLocation \in 0..MaxOps /\ pc \in 0..MaxOps
      BY <1>2, CallLocationType DEF TypeOK
    <2> QED BY <2>1 DEF SelfdestructProtected, CreateProtected, CallProtected
  <1>4. CASE SelfdestructProtected(a)
    <2>1. NotedAll(callstack, CaptureState("SELFDESTRUCT", a), db)
      BY <1>2, CaptureSelfdestruct
    <2>2. Leave(CaptureState("SELFDESTRUCT", a), FALSE)
      BY <1>4 DEF SelfdestructProtected
    <2> QED BY <1>0, <1>2, <1>3, <2>1, <2>2, LeaveKeeps
  <1>5. CASE CreateProtected(a)
    <2>1. NotedAll(callstack, CaptureState("CREATE", a), db)
      BY <1>2, CaptureCreate
    <2>2. Leave(CaptureState("CREATE", a), FALSE)
      BY <1>5 DEF CreateProtected
    <2> QED BY <1>0, <1>2, <1>3, <2>1, <2>2, LeaveKeeps
  <1>6. CASE CallProtected(a)
    <2>1. NotedAll(callstack, CaptureState("account", a), db)
      BY <1>2, CaptureAccount
    <2>2. Leave(CaptureState("account", a), FALSE)
      BY <1>6 DEF CallProtected
    <2> QED BY <1>0, <1>2, <1>3, <2>1, <2>2, LeaveKeeps
  <1> QED BY <1>4, <1>5, <1>6

LEMMA SstoreProtectedKeeps ==
  ASSUME Inv, NEW k \in Keys, SstoreProtected(k)
  PROVE  Inv'
  <1> DEFINE s == CaptureState("slot", Storage(Top.self, k))
  <1>1. Running /\ Leave(s, FALSE) /\ UNCHANGED <<tmpCallLocation, pc>>
    BY DEF SstoreProtected
  <1>2. phase = "tx" /\ TypeOK
    BY <1>1, RunningFacts
  <1>3. NotedAll(callstack, s, db)
    BY <1>1, SlotCaptured
  <1>4. tmpCallLocation' \in 0..MaxOps /\ pc' \in 0..MaxOps
    BY <1>1, <1>2 DEF TypeOK
  <1>5. FALSE \in BOOLEAN
    OBVIOUS
  <1> HIDE DEF s
  <1> QED BY <1>1, <1>2, <1>3, <1>4, <1>5, LeaveKeeps

(***************************************************************************)
(* The invariant holds of every behaviour of the tracer: Init of NewTxTracer *)
(* establishes it and each of its callbacks, with the instruction of the    *)
(* EVM that it belongs to, preserves it.                                    *)
(***************************************************************************)
THEOREM InductiveInvariant == Spec => []Inv
  <1>1. Init => Inv
    <2> SUFFICES ASSUME Init PROVE Inv
      OBVIOUS
    <2>1. /\ db = Genesis /\ gone = {} /\ phase = "ready" /\ callstack = <<>> /\ statedCall = <<>>
          /\ tmpCallLocation = 0 /\ pc = 0 /\ done = <<>> /\ targetAddress \in SUBSET Targets
      BY DEF Init
    <2>2. Genesis \in [Cells -> Int] /\ 0 \in 0..MaxOps /\ 0 <= MaxDepth
      BY TracerAssumption
    <2>3. callstack \in Seq(Frame) /\ Len(callstack) = 0 /\ statedCall \in Seq(1..MaxDepth)
      BY <2>1
    <2>4. TypeOK
      BY <2>1, <2>2, <2>3 DEF TypeOK
    <2>5. DiffExact
      BY <2>1, NoneDone
    <2> QED BY <2>1, <2>4, <2>5 DEF Inv
  <1>2. Inv /\ [Next]_vars => Inv'
    <2> SUFFICES ASSUME Inv, [Next]_vars PROVE Inv'
      OBVIOUS
    <2> USE EvmAssumption
    <2>1. CASE Begin
      <3>1. PICK from \in Senders, v \in Amounts :
               \/ \E to \in Accounts : StartCall(from, to, v)
               \/ \E to \in Fresh : StartCreate(from, to, v)
        BY <2>1 DEF Begin
      <3>2. from \in Accounts /\ v \in Nat
        OBVIOUS
      <3>3. \E kind \in {"CALL", "CREATE"}, to \in Accounts : Start(kind, from, to, v)
        BY <3>1 DEF StartCall, StartCreate
      <3> QED BY <3>2, <3>3, StartKeeps
    <2>2. CASE Instruction
      <3>1. CASE \E k \in Keys : Sload(k) \/ SstoreProtected(k) \/ \E v \in Values : Sstore(k, v)
        BY <3>1, SloadKeeps, SstoreProtectedKeeps, SstoreKeeps
      <3>2. CASE \E a \in Accounts : Inspect(a) \/ Selfdestruct(a)
                                     \/ SelfdestructProtected(a) \/ CallProtected(a)
        BY <3>2, InspectKeeps, SelfdestructKeeps, ProtectedKeeps
      <3>3. CASE \E a \in Fresh : CreateProtected(a)
        BY <3>3, ProtectedKeeps
      <3>4. CASE \E kind \in CallKinds, to \in Accounts, v \in Amounts : Call(kind, to, v)
        BY <3>4, CallKeeps
      <3>5. CASE \E to \in Fresh, v \in Amounts : CreateContract(to, v) \/ CreateUnseen(to, v)
        BY <3>5, CreateContractKeeps, CreateUnseenKeeps
      <3> QED BY <2>2, <3>1, <3>2, <3>3, <3>4, <3>5 DEF Instruction
    <2>3. CASE \E ok \in BOOLEAN : EndCall(ok)
      BY <2>3, EndCallKeeps
    <2>4. CASE UNCHANGED vars
      BY <2>4 DEF vars, Inv, TypeOK, Tracing, DiffExact, NilAccount, Pointed, Top
    <2> QED BY <2>1, <2>2, <2>3, <2>4 DEF Next
  <1> QED BY <1>1, <1>2, PTL DEF Spec

LEMMA TracingProperties ==
  ASSUME Inv
  PROVE  PreIsEntry /\ StatedAligned /\ LocationFresh /\ PanicOnlyUnseen
  <1>1. ASSUME phase = "tx"
        PROVE  /\ Stated = StatedIn(callstack) /\ Tracing
               /\ \A i \in Stated : Entry(i) = EntryIn(callstack, i)
                                     /\ ReadLate(i) = LateIn(callstack, i)
    BY <1>1 DEF Inv, Stated, StatedIn, Entry, EntryIn, ReadLate, LateIn
  <1>2. PreIsEntry
    BY <1>1 DEF PreIsEntry, Tracing, Good, SeenAtEntry
  <1>3. StatedAligned
    <2>1. ASSUME phase = "tx"
          PROVE  /\ Pointed = Stated /\ Len(statedCall) = Cardinality(Stated)
                 /\ \A j \in 2..Len(statedCall) : statedCall[j - 1] < statedCall[j]
      <3>1. Aligned(callstack, statedCall) /\ Stated = StatedIn(callstack)
        BY <1>1, <2>1 DEF Tracing
      <3>2. Len(statedCall) \in Nat
        BY <3>1 DEF Aligned
      <3>3. \A j \in 2..Len(statedCall) : statedCall[j - 1] < statedCall[j]
        <4> TAKE j \in 2..Len(statedCall)
        <4>1. j - 1 \in 1..Len(statedCall) /\ j \in 1..Len(statedCall) /\ j - 1 < j
          BY <3>2
        <4> QED BY <3>1, <4>1 DEF Aligned
      <3> QED BY <3>1, <3>3 DEF Aligned, Pointed
    <2>2. phase = "ended" => statedCall = <<>>
      BY DEF Inv
    <2> QED BY <2>1, <2>2 DEF StatedAligned
  <1>4. LocationFresh
    <2>1. CASE phase \in {"tx", "panicked"}
      BY <2>1 DEF LocationFresh, Inv, Tracing, Good, Located, Stated, StatedIn
    <2>2. CASE phase \in {"ready", "ended"}
      <3>1. callstack \in Seq(Frame) /\ Len(callstack) <= 1 /\ Len(callstack) \in Nat
        <4>1. callstack \in Seq(Frame) /\ (phase = "ready" => callstack = <<>>)
          BY DEF Inv, TypeOK
        <4>2. CASE phase = "ready"
          BY <4>1, <4>2
        <4>3. CASE phase = "ended"
          <5>1. Len(callstack) = 1
            BY <4>3 DEF Inv
          <5> QED BY <4>1, <5>1
        <4> QED BY <2>2, <4>2, <4>3
      <3>2. \A i \in Stated : ~(i > 1)
        BY <3>1 DEF Stated
      <3> QED BY <3>2 DEF LocationFresh
    <2> QED BY <2>1, <2>2 DEF Inv, TypeOK
  <1>5. PanicOnlyUnseen
    <2> SUFFICES ASSUME phase = "panicked"
                 PROVE  \E i \in Stated : Top.self \in callstack[i].unseen
      BY DEF PanicOnlyUnseen
    <2>1. Tracing /\ NilAccount(Top.self)
      BY DEF Inv
    <2>2. /\ Pointed = StatedIn(callstack) /\ Stated = StatedIn(callstack)
          /\ \A i \in StatedIn(callstack) : Top.self \in Known(callstack[i])
      BY <2>1, TracingFacts DEF Stated, StatedIn
    <2> QED BY <2>1, <2>2 DEF NilAccount, Known
  <1> QED BY <1>2, <1>3, <1>4, <1>5

(***************************************************************************)
(* Type correctness of the tracer's state, with a call stack that is empty  *)
(* exactly before the transaction: CaptureExit never pops the call of the   *)
(* transaction and CaptureEnd leaves it.                                    *)
(***************************************************************************)
THEOREM TypeCorrect == Spec => []TypeOK
  <1>1. Inv => TypeOK
    BY DEF Inv
  <1> QED BY <1>1, InductiveInvariant, PTL

(***************************************************************************)
(* What lookupAccount, lookupStorage, CaptureStart and CaptureEnter put in  *)
(* the PreState of a stated call is the state at its entry, whenever they   *)
(* read it and whatever nested calls did or undid before; the exceptions    *)
(* are those of PreIsEntry.                                                 *)
(***************************************************************************)
THEOREM RecordedStateIsTheEntry == Spec => []PreIsEntry
  <1>1. Inv => PreIsEntry
    BY TracingProperties
  <1> QED BY <1>1, InductiveInvariant, PTL

(***************************************************************************)
(* The states before and after that handleCallEnd leaves in a stated call   *)
(* are a complete account of what the call did to the StateDB.              *)
(***************************************************************************)
THEOREM DifferenceIsComplete == Spec => []DiffExact
  <1>1. Inv => DiffExact
    BY DEF Inv
  <1> QED BY <1>1, InductiveInvariant, PTL

(***************************************************************************)
(* The tracer's list statedCall is the list of stated calls on the stack,   *)
(* so that CaptureExit removes the entry of the call that ends.             *)
(***************************************************************************)
THEOREM PointersMatchTheStack == Spec => []StatedAligned
  <1>1. Inv => StatedAligned
    BY TracingProperties
  <1> QED BY <1>1, InductiveInvariant, PTL

(***************************************************************************)
(* A stated call inside another one carries the place of its own call       *)
(* instruction, not one that tmpCallLocation kept from an earlier call.     *)
(***************************************************************************)
THEOREM LocationsAreFresh == Spec => []LocationFresh
  <1>1. Inv => LocationFresh
    BY TracingProperties
  <1> QED BY <1>1, InductiveInvariant, PTL

(***************************************************************************)
(* lookupStorage follows a nil account only for a contract that a CREATE2   *)
(* on which CaptureState gave up has created while a stated call was open:  *)
(* whatever else runs has been recorded by every open stated call.          *)
(***************************************************************************)
THEOREM NilAccountOnlyUnseen == Spec => []PanicOnlyUnseen
  <1>1. Inv => PanicOnlyUnseen
    BY TracingProperties
  <1> QED BY <1>1, InductiveInvariant, PTL
=============================================================================
