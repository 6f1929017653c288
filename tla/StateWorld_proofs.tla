------------------------- MODULE StateWorld_proofs -------------------------
(***************************************************************************)
(* The StateDB answers what plain values would (WorldState), and every open  *)
(* snapshot stands for the values it was taken of.                           *)
(***************************************************************************)
EXTENDS StateJournal_proofs

(***************************************************************************)
(* What the getters answer, by the objects.                                 *)
(***************************************************************************)
Live(o) == o # Nil /\ ~o.deleted

view(o, disk, D, a) ==
    [exists |-> Live(o),
     balance |-> IF Live(o) THEN o.balance ELSE 0,
     nonce |-> IF Live(o) THEN o.nonce ELSE 0,
     code |-> IF Live(o) THEN o.code ELSE 0,
     storage |-> [k \in Slots |-> IF Live(o) THEN stateOf(o, disk, D, a, k) ELSE Zero],
     committed |-> [k \in Slots |-> IF Live(o) THEN committedOf(o, disk, D, a, k) ELSE Zero],
     destroyed |-> Live(o) /\ o.selfDestructed,
     created |-> Live(o) /\ o.created]

worldRecord(acct, touched, refund, logs, transient, addrs, slots) ==
    [acct |-> acct, touched |-> touched, refund |-> refund, logs |-> logs, transient |-> transient,
     warmAddrs |-> addrs, warmSlots |-> slots]

Touched(s) == {a \in Addrs : s.dirties[a] > 0}

Accts(s) == [a \in Addrs |-> view(loaded(s, a), s.disk, s.destruct, a)]

WarmAddrs(al) == {a \in Addrs : al.addresses[a] # Nil}

WarmSlots(al) == {p \in Addrs \X Slots : ContainsSlot(al, p[1], p[2])}

\* The getters of an account answer what its object, or its disk, holds.
LEMMA AccountOfView ==
  ASSUME NEW s, Sound(s), NEW a \in Addrs
  PROVE  AccountOf(s, a) = view(loaded(s, a), s.disk, s.destruct, a)
  <1> DEFINE t == load(s, a)
             o == loaded(s, a)
  <1>1. t.objects[a] = o /\ t.disk = s.disk /\ t.destruct = s.destruct
    BY LoadFacts
  <1> HIDE DEF t, o
  <1>2. \A k : /\ State(t, a, k) = stateOf(o, s.disk, s.destruct, a, k)
               /\ CommittedState(t, a, k) = committedOf(o, s.disk, s.destruct, a, k)
    BY <1>1, ReadFacts
  <1>3. exist(t, a) <=> Live(o)
    BY <1>1, Zenon DEF exist, Live
  <1>4. /\ [k \in Slots |-> IF exist(t, a) THEN State(t, a, k) ELSE Zero]
            = [k \in Slots |-> IF Live(o) THEN stateOf(o, s.disk, s.destruct, a, k) ELSE Zero]
        /\ [k \in Slots |-> IF exist(t, a) THEN CommittedState(t, a, k) ELSE Zero]
            = [k \in Slots |-> IF Live(o) THEN committedOf(o, s.disk, s.destruct, a, k) ELSE Zero]
    BY <1>2, <1>3
  <1>5. exist(t, a) = Live(o)
    BY <1>3, Zenon DEF exist, Live
  <1>6. AccountOf(s, a) =
           [exists |-> exist(t, a),
            balance |-> IF exist(t, a) THEN t.objects[a].balance ELSE 0,
            nonce |-> IF exist(t, a) THEN t.objects[a].nonce ELSE 0,
            code |-> IF exist(t, a) THEN t.objects[a].code ELSE 0,
            storage |-> [k \in Slots |-> IF exist(t, a) THEN State(t, a, k) ELSE Zero],
            committed |-> [k \in Slots |-> IF exist(t, a) THEN CommittedState(t, a, k) ELSE Zero],
            destroyed |-> exist(t, a) /\ t.objects[a].selfDestructed,
            created |-> exist(t, a) /\ t.objects[a].created]
    BY Zenon DEF AccountOf, t
  <1>7. view(o, s.disk, s.destruct, a) =
           [exists |-> exist(t, a),
            balance |-> IF exist(t, a) THEN t.objects[a].balance ELSE 0,
            nonce |-> IF exist(t, a) THEN t.objects[a].nonce ELSE 0,
            code |-> IF exist(t, a) THEN t.objects[a].code ELSE 0,
            storage |-> [k \in Slots |-> IF exist(t, a) THEN State(t, a, k) ELSE Zero],
            committed |-> [k \in Slots |-> IF exist(t, a) THEN CommittedState(t, a, k) ELSE Zero],
            destroyed |-> exist(t, a) /\ t.objects[a].selfDestructed,
            created |-> exist(t, a) /\ t.objects[a].created]
    BY <1>1, <1>4, <1>5, Zenon DEF view
  <1> QED BY <1>6, <1>7 DEF o

\* All getters, by the fields.
LEMMA WorldFacts ==
  ASSUME NEW s, Sound(s)
  PROVE  WorldOf(s) = worldRecord(Accts(s), Touched(s), s.refund, s.logs, s.transient,
                                  WarmAddrs(s.access), WarmSlots(s.access))
  <1>1. [a \in Addrs |-> AccountOf(s, a)] = Accts(s)
    BY AccountOfView DEF Accts
  <1> QED BY <1>1, Zenon DEF WorldOf, worldRecord, Touched, WarmAddrs, WarmSlots

\* Objects that read the same answer the same.
LEMMA ViewSame ==
  ASSUME NEW o, NEW p, NEW disk, NEW D, NEW a, SameObject(o, p, disk, D, a)
  PROVE  view(o, disk, D, a) = view(p, disk, D, a)
  <1>1. o = Nil <=> p = Nil
    BY Zenon DEF SameObject
  <1>2. CASE o = Nil
    BY <1>1, <1>2
  <1>3. CASE o # Nil
    <2>1. /\ o.balance = p.balance /\ o.nonce = p.nonce /\ o.code = p.code
          /\ o.selfDestructed = p.selfDestructed /\ o.deleted = p.deleted
          /\ o.created = p.created
          /\ \A k \in Slots : /\ committedOf(o, disk, D, a, k) = committedOf(p, disk, D, a, k)
                              /\ stateOf(o, disk, D, a, k) = stateOf(p, disk, D, a, k)
      BY <1>3, Zenon DEF SameObject
    <2>2. Live(o) <=> Live(p)
      BY <1>1, <1>3, <2>1, Zenon DEF Live
    <2>3. Live(o) = Live(p)
      BY <2>2, Zenon DEF Live
    <2>4. /\ [k \in Slots |-> IF Live(o) THEN stateOf(o, disk, D, a, k) ELSE Zero]
              = [k \in Slots |-> IF Live(p) THEN stateOf(p, disk, D, a, k) ELSE Zero]
          /\ [k \in Slots |-> IF Live(o) THEN committedOf(o, disk, D, a, k) ELSE Zero]
              = [k \in Slots |-> IF Live(p) THEN committedOf(p, disk, D, a, k) ELSE Zero]
      BY <2>1, <2>2
    <2> QED BY <2>1, <2>3, <2>4, Zenon DEF view
  <1> QED BY <1>2, <1>3

\* States that are the same give the same answers.
LEMMA WorldSame ==
  ASSUME NEW s, Sound(s), NEW t, Sound(t), NEW d \in Nat, Same(t, s, d)
  PROVE  /\ d = 0 => WorldOf(t) = WorldOf(s)
         /\ d = 1 /\ Ripemd \in Addrs => WorldOf(t) = World!Touch(WorldOf(s), Ripemd)
  <1>1. Good(s) /\ Good(t) /\ s \in DB /\ t \in DB
    BY SoundFacts
  <1>2. /\ t.disk = s.disk /\ t.destruct = s.destruct /\ t.refund = s.refund /\ t.logs = s.logs
        /\ t.transient = s.transient /\ t.access = s.access /\ t.entries = s.entries
        /\ \A a \in Addrs : t.dirties[a] = s.dirties[a] + IF a = Ripemd THEN d ELSE 0
        /\ \A a \in Addrs : SameObject(loaded(t, a), loaded(s, a), s.disk, s.destruct, a)
    BY DEF Same
  <1>3. Accts(t) = Accts(s)
    <2>1. \A a \in Addrs : view(loaded(t, a), t.disk, t.destruct, a) = view(loaded(s, a), s.disk, s.destruct, a)
      BY <1>2, ViewSame
    <2> QED BY <2>1 DEF Accts
  <1>4. \A a \in Addrs : s.dirties[a] \in Nat
    <2> TAKE a \in Addrs
    <2>1. s.dirties[a] \in Int /\ s.entries \in Seq(Entry)
      BY <1>1, DBFacts
    <2>2. Count(s.entries, ChangesOf(a)) \in Nat
      BY <2>1, CountType
    <2>3. IF a = Ripemd THEN s.dirties[a] >= Count(s.entries, ChangesOf(a))
          ELSE s.dirties[a] = Count(s.entries, ChangesOf(a))
      BY <1>1 DEF Good, Counted
    <2> QED BY <2>1, <2>2, <2>3
  <1>5. /\ WorldOf(s) = worldRecord(Accts(s), Touched(s), s.refund, s.logs, s.transient,
                                    WarmAddrs(s.access), WarmSlots(s.access))
        /\ WorldOf(t) = worldRecord(Accts(s), Touched(t), s.refund, s.logs, s.transient,
                                    WarmAddrs(s.access), WarmSlots(s.access))
    BY <1>2, <1>3, WorldFacts, Zenon
  <1>6. ASSUME d = 0 PROVE WorldOf(t) = WorldOf(s)
    <2>1. Touched(t) = Touched(s)
      BY <1>2, <1>4, <1>6 DEF Touched
    <2> QED BY <1>5, <2>1
  <1>7. ASSUME d = 1, Ripemd \in Addrs PROVE WorldOf(t) = World!Touch(WorldOf(s), Ripemd)
    <2>1. Touched(t) = Touched(s) \cup {Ripemd}
      BY <1>2, <1>4, <1>7 DEF Touched
    <2>2. WorldOf(s).touched = Touched(s)
      BY <1>5 DEF worldRecord
    <2>3. World!Touch(WorldOf(s), Ripemd) = [WorldOf(s) EXCEPT !.touched = Touched(s) \cup {Ripemd}]
      BY <2>2, Zenon DEF World!Touch
    <2>4. \A x : [WorldOf(s) EXCEPT !.touched = x]
             = worldRecord(Accts(s), x, s.refund, s.logs, s.transient, WarmAddrs(s.access), WarmSlots(s.access))
      BY <1>5 DEF worldRecord
    <2> QED BY <1>5, <2>1, <2>3, <2>4, Zenon
  <1> QED BY <1>6, <1>7

(***************************************************************************)
(* Records of the world, field by field.                                    *)
(***************************************************************************)
viewRecord(exists, balance, nonce, code, storage, committed, destroyed, created) ==
    [exists |-> exists, balance |-> balance, nonce |-> nonce, code |-> code, storage |-> storage,
     committed |-> committed, destroyed |-> destroyed, created |-> created]

putBalance(v, x) == [v EXCEPT !.balance = x]

putNonce(v, x) == [v EXCEPT !.nonce = x]

putCode(v, x) == [v EXCEPT !.code = x]

putStorage(v, x) == [v EXCEPT !.storage = x]

putDestroyed(v, x, y) == [v EXCEPT !.balance = x, !.destroyed = y]

putBorn(v, x, y) == [v EXCEPT !.exists = x, !.created = y]

putSurvived(v, x, y) == [v EXCEPT !.committed = x, !.created = y]

\* Records of answers, field by field.
LEMMA ViewRecordFields ==
  ASSUME NEW e, NEW b, NEW n, NEW c, NEW s, NEW m, NEW d, NEW r, NEW v, v = viewRecord(e, b, n, c, s, m, d, r)
  PROVE  /\ v.exists = e /\ v.balance = b /\ v.nonce = n /\ v.code = c
         /\ v.storage = s /\ v.committed = m /\ v.destroyed = d /\ v.created = r
  BY DEF viewRecord

\* Writes to records of answers and of worlds, which the provers do not see through at once.
LEMMA PutBalance ==
  ASSUME NEW e, NEW b, NEW n, NEW c, NEW s, NEW m, NEW d, NEW r, NEW x
  PROVE  putBalance(viewRecord(e, b, n, c, s, m, d, r), x)
           = viewRecord(e, x, n, c, s, m, d, r)
  BY DEF viewRecord, putBalance

LEMMA PutNonce ==
  ASSUME NEW e, NEW b, NEW n, NEW c, NEW s, NEW m, NEW d, NEW r, NEW x
  PROVE  putNonce(viewRecord(e, b, n, c, s, m, d, r), x)
           = viewRecord(e, b, x, c, s, m, d, r)
  BY DEF viewRecord, putNonce

LEMMA PutCode ==
  ASSUME NEW e, NEW b, NEW n, NEW c, NEW s, NEW m, NEW d, NEW r, NEW x
  PROVE  putCode(viewRecord(e, b, n, c, s, m, d, r), x)
           = viewRecord(e, b, n, x, s, m, d, r)
  BY DEF viewRecord, putCode

LEMMA PutStorage ==
  ASSUME NEW e, NEW b, NEW n, NEW c, NEW s, NEW m, NEW d, NEW r, NEW x
  PROVE  putStorage(viewRecord(e, b, n, c, s, m, d, r), x)
           = viewRecord(e, b, n, c, x, m, d, r)
  BY DEF viewRecord, putStorage

LEMMA PutDestroyed ==
  ASSUME NEW e, NEW b, NEW n, NEW c, NEW s, NEW m, NEW d, NEW r, NEW x, NEW y
  PROVE  putDestroyed(viewRecord(e, b, n, c, s, m, d, r), x, y)
           = viewRecord(e, x, n, c, s, m, y, r)
  <1> DEFINE v == viewRecord(e, b, n, c, s, m, d, r)
  <1>1. putDestroyed(v, x, y) = [[v EXCEPT !.balance = x] EXCEPT !.destroyed = y]
    BY DEF putDestroyed
  <1>2. [viewRecord(e, b, n, c, s, m, d, r) EXCEPT !.balance = x] = viewRecord(e, x, n, c, s, m, d, r)
    BY DEF viewRecord
  <1>3. [viewRecord(e, x, n, c, s, m, d, r) EXCEPT !.destroyed = y] = viewRecord(e, x, n, c, s, m, y, r)
    BY DEF viewRecord
  <1> QED BY <1>1, <1>2, <1>3, Zenon

LEMMA PutBorn ==
  ASSUME NEW e, NEW b, NEW n, NEW c, NEW s, NEW m, NEW d, NEW r, NEW x, NEW y
  PROVE  putBorn(viewRecord(e, b, n, c, s, m, d, r), x, y)
           = viewRecord(x, b, n, c, s, m, d, y)
  <1> DEFINE v == viewRecord(e, b, n, c, s, m, d, r)
  <1>1. putBorn(v, x, y) = [[v EXCEPT !.exists = x] EXCEPT !.created = y]
    BY DEF putBorn
  <1>2. [viewRecord(e, b, n, c, s, m, d, r) EXCEPT !.exists = x] = viewRecord(x, b, n, c, s, m, d, r)
    BY DEF viewRecord
  <1>3. [viewRecord(x, b, n, c, s, m, d, r) EXCEPT !.created = y] = viewRecord(x, b, n, c, s, m, d, y)
    BY DEF viewRecord
  <1> QED BY <1>1, <1>2, <1>3, Zenon

LEMMA PutSurvived ==
  ASSUME NEW e, NEW b, NEW n, NEW c, NEW s, NEW m, NEW d, NEW r, NEW x, NEW y
  PROVE  putSurvived(viewRecord(e, b, n, c, s, m, d, r), x, y)
           = viewRecord(e, b, n, c, s, x, d, y)
  <1> DEFINE v == viewRecord(e, b, n, c, s, m, d, r)
  <1>1. putSurvived(v, x, y) = [[v EXCEPT !.committed = x] EXCEPT !.created = y]
    BY DEF putSurvived
  <1>2. [viewRecord(e, b, n, c, s, m, d, r) EXCEPT !.committed = x] = viewRecord(e, b, n, c, s, x, d, r)
    BY DEF viewRecord
  <1>3. [viewRecord(e, b, n, c, s, x, d, r) EXCEPT !.created = y] = viewRecord(e, b, n, c, s, x, d, y)
    BY DEF viewRecord
  <1> QED BY <1>1, <1>2, <1>3, Zenon

putAcct(v, x) == [v EXCEPT !.acct = x]

putTouched(v, x) == [v EXCEPT !.touched = x]

putRefund(v, x) == [v EXCEPT !.refund = x]

putLogs(v, x) == [v EXCEPT !.logs = x]

putTransient(v, x) == [v EXCEPT !.transient = x]

putWarm(v, x, y) == [v EXCEPT !.warmAddrs = x, !.warmSlots = y]

putPrepared(v, x, y, z) == [v EXCEPT !.warmAddrs = x, !.warmSlots = y, !.transient = z]

putFinalised(v, x, y, z) == [v EXCEPT !.acct = x, !.touched = y, !.refund = z]

\* Records of worlds, field by field.
LEMMA WorldRecordFields ==
  ASSUME NEW A, NEW T, NEW r, NEW l, NEW m, NEW p, NEW q, NEW v, v = worldRecord(A, T, r, l, m, p, q)
  PROVE  /\ v.acct = A /\ v.touched = T /\ v.refund = r /\ v.logs = l
         /\ v.transient = m /\ v.warmAddrs = p /\ v.warmSlots = q
  BY DEF worldRecord

LEMMA PutAcct ==
  ASSUME NEW A, NEW T, NEW r, NEW l, NEW m, NEW p, NEW q, NEW x
  PROVE  putAcct(worldRecord(A, T, r, l, m, p, q), x)
           = worldRecord(x, T, r, l, m, p, q)
  BY DEF worldRecord, putAcct

LEMMA PutTouched ==
  ASSUME NEW A, NEW T, NEW r, NEW l, NEW m, NEW p, NEW q, NEW x
  PROVE  putTouched(worldRecord(A, T, r, l, m, p, q), x)
           = worldRecord(A, x, r, l, m, p, q)
  BY DEF worldRecord, putTouched

LEMMA PutRefund ==
  ASSUME NEW A, NEW T, NEW r, NEW l, NEW m, NEW p, NEW q, NEW x
  PROVE  putRefund(worldRecord(A, T, r, l, m, p, q), x)
           = worldRecord(A, T, x, l, m, p, q)
  BY DEF worldRecord, putRefund

LEMMA PutLogs ==
  ASSUME NEW A, NEW T, NEW r, NEW l, NEW m, NEW p, NEW q, NEW x
  PROVE  putLogs(worldRecord(A, T, r, l, m, p, q), x)
           = worldRecord(A, T, r, x, m, p, q)
  BY DEF worldRecord, putLogs

LEMMA PutTransient ==
  ASSUME NEW A, NEW T, NEW r, NEW l, NEW m, NEW p, NEW q, NEW x
  PROVE  putTransient(worldRecord(A, T, r, l, m, p, q), x)
           = worldRecord(A, T, r, l, x, p, q)
  BY DEF worldRecord, putTransient

LEMMA PutWarm ==
  ASSUME NEW A, NEW T, NEW r, NEW l, NEW m, NEW p, NEW q, NEW x, NEW y
  PROVE  putWarm(worldRecord(A, T, r, l, m, p, q), x, y)
           = worldRecord(A, T, r, l, m, x, y)
  <1> DEFINE v == worldRecord(A, T, r, l, m, p, q)
  <1>1. putWarm(v, x, y) = [[v EXCEPT !.warmAddrs = x] EXCEPT !.warmSlots = y]
    BY DEF putWarm
  <1>2. [worldRecord(A, T, r, l, m, p, q) EXCEPT !.warmAddrs = x] = worldRecord(A, T, r, l, m, x, q)
    BY DEF worldRecord
  <1>3. [worldRecord(A, T, r, l, m, x, q) EXCEPT !.warmSlots = y] = worldRecord(A, T, r, l, m, x, y)
    BY DEF worldRecord
  <1> QED BY <1>1, <1>2, <1>3, Zenon

LEMMA PutPrepared ==
  ASSUME NEW A, NEW T, NEW r, NEW l, NEW m, NEW p, NEW q, NEW x, NEW y, NEW z
  PROVE  putPrepared(worldRecord(A, T, r, l, m, p, q), x, y, z)
           = worldRecord(A, T, r, l, z, x, y)
  <1> DEFINE v == worldRecord(A, T, r, l, m, p, q)
  <1>1. putPrepared(v, x, y, z) = [[[v EXCEPT !.warmAddrs = x] EXCEPT !.warmSlots = y] EXCEPT !.transient = z]
    BY DEF putPrepared
  <1>2. [worldRecord(A, T, r, l, m, p, q) EXCEPT !.warmAddrs = x] = worldRecord(A, T, r, l, m, x, q)
    BY DEF worldRecord
  <1>3. [worldRecord(A, T, r, l, m, x, q) EXCEPT !.warmSlots = y] = worldRecord(A, T, r, l, m, x, y)
    BY DEF worldRecord
  <1>4. [worldRecord(A, T, r, l, m, x, y) EXCEPT !.transient = z] = worldRecord(A, T, r, l, z, x, y)
    BY DEF worldRecord
  <1> QED BY <1>1, <1>2, <1>3, <1>4, Zenon

LEMMA PutFinalised ==
  ASSUME NEW A, NEW T, NEW r, NEW l, NEW m, NEW p, NEW q, NEW x, NEW y, NEW z
  PROVE  putFinalised(worldRecord(A, T, r, l, m, p, q), x, y, z)
           = worldRecord(x, y, z, l, m, p, q)
  <1> DEFINE v == worldRecord(A, T, r, l, m, p, q)
  <1>1. putFinalised(v, x, y, z) = [[[v EXCEPT !.acct = x] EXCEPT !.touched = y] EXCEPT !.refund = z]
    BY DEF putFinalised
  <1>2. [worldRecord(A, T, r, l, m, p, q) EXCEPT !.acct = x] = worldRecord(x, T, r, l, m, p, q)
    BY DEF worldRecord
  <1>3. [worldRecord(x, T, r, l, m, p, q) EXCEPT !.touched = y] = worldRecord(x, y, r, l, m, p, q)
    BY DEF worldRecord
  <1>4. [worldRecord(x, y, r, l, m, p, q) EXCEPT !.refund = z] = worldRecord(x, y, z, l, m, p, q)
    BY DEF worldRecord
  <1> QED BY <1>1, <1>2, <1>3, <1>4, Zenon

\* An account that is not there, and one that was just created.
LEMMA NobodyFacts ==
  /\ World!Nobody = viewRecord(FALSE, 0, 0, 0, World!NoStorage, World!NoStorage, FALSE, FALSE)
  /\ World!Newborn = viewRecord(TRUE, 0, 0, 0, World!NoStorage, World!NoStorage, FALSE, TRUE)
  <1> DEFINE no == FALSE
             yes == TRUE
             N == World!NoStorage
  <1>1. World!Nobody = viewRecord(no, 0, 0, 0, N, N, no, no)
    BY Zenon DEF World!Nobody, viewRecord
  <1>2. World!Newborn = putBorn(World!Nobody, yes, yes)
    BY Zenon DEF World!Newborn, putBorn
  <1> HIDE DEF no, yes, N
  <1>3. putBorn(viewRecord(no, 0, 0, 0, N, N, no, no), yes, yes) = viewRecord(yes, 0, 0, 0, N, N, no, yes)
    BY PutBorn
  <1>4. World!Newborn = viewRecord(yes, 0, 0, 0, N, N, no, yes)
    BY <1>1, <1>2, <1>3, Zenon
  <1> QED BY <1>1, <1>4, Zenon DEF no, yes, N

StorageOf(o, disk, D, a) == [k \in Slots |-> stateOf(o, disk, D, a, k)]

CommittedOf(o, disk, D, a) == [k \in Slots |-> committedOf(o, disk, D, a, k)]

\* What a live object answers.
LEMMA ViewLive ==
  ASSUME NEW o \in Object, ~o.deleted, NEW disk, NEW D, NEW a
  PROVE  view(o, disk, D, a) = viewRecord(TRUE, o.balance, o.nonce, o.code, StorageOf(o, disk, D, a),
                                          CommittedOf(o, disk, D, a), o.selfDestructed, o.created)
  <1>1. Live(o) = TRUE /\ o.selfDestructed \in BOOLEAN /\ o.created \in BOOLEAN
    BY ObjectFacts DEF Live
  <1>2. /\ [k \in Slots |-> IF Live(o) THEN stateOf(o, disk, D, a, k) ELSE Zero] = StorageOf(o, disk, D, a)
        /\ [k \in Slots |-> IF Live(o) THEN committedOf(o, disk, D, a, k) ELSE Zero] = CommittedOf(o, disk, D, a)
    BY <1>1 DEF StorageOf, CommittedOf
  <1>3. (Live(o) /\ o.selfDestructed) = o.selfDestructed /\ (Live(o) /\ o.created) = o.created
    BY <1>1, Zenon
  <1>4. /\ (IF Live(o) THEN o.balance ELSE 0) = o.balance /\ (IF Live(o) THEN o.nonce ELSE 0) = o.nonce
        /\ (IF Live(o) THEN o.code ELSE 0) = o.code
    BY <1>1
  <1> QED BY <1>1, <1>2, <1>3, <1>4, Zenon DEF view, viewRecord

\* What is answered without one.
LEMMA ViewGone ==
  ASSUME NEW o, ~Live(o), NEW disk, NEW D, NEW a
  PROVE  view(o, disk, D, a) = World!Nobody
  <1>1. Live(o) = FALSE
    BY Zenon DEF Live
  <1>2. /\ [k \in Slots |-> IF Live(o) THEN stateOf(o, disk, D, a, k) ELSE Zero] = World!NoStorage
        /\ [k \in Slots |-> IF Live(o) THEN committedOf(o, disk, D, a, k) ELSE Zero] = World!NoStorage
    BY <1>1 DEF World!NoStorage
  <1>3. (Live(o) /\ o.selfDestructed) = FALSE /\ (Live(o) /\ o.created) = FALSE
    BY <1>1, Zenon
  <1>4. /\ (IF Live(o) THEN o.balance ELSE 0) = 0 /\ (IF Live(o) THEN o.nonce ELSE 0) = 0
        /\ (IF Live(o) THEN o.code ELSE 0) = 0
    BY <1>1
  <1> QED BY <1>1, <1>2, <1>3, <1>4, NobodyFacts, Zenon DEF view, viewRecord

\* What a new object answers.
LEMMA ViewNew ==
  ASSUME NEW disk, NEW D, NEW a, a \in D \/ disk[a] = Nil
  PROVE  view(newObject(Nil), disk, D, a) = World!Newborn
  <1> DEFINE o == newObject(Nil)
  <1>1. /\ o \in Object /\ o.dirty = NoCache /\ o.pending = NoCache /\ o.origin = NoCache
        /\ ~o.selfDestructed /\ ~o.deleted /\ o.created
        /\ o.balance = 0 /\ o.nonce = 0 /\ o.code = 0
    BY NewObjectFacts
  <1> HIDE DEF o
  <1>2. \A k \in Slots : stateOf(o, disk, D, a, k) = Zero /\ committedOf(o, disk, D, a, k) = Zero
    BY <1>1 DEF stateOf, committedOf, NoCache
  <1>3. StorageOf(o, disk, D, a) = World!NoStorage /\ CommittedOf(o, disk, D, a) = World!NoStorage
    BY <1>2 DEF StorageOf, CommittedOf, World!NoStorage
  <1>4. o.selfDestructed = FALSE /\ o.created = TRUE
    BY <1>1, ObjectFacts
  <1>5. view(o, disk, D, a) = viewRecord(TRUE, o.balance, o.nonce, o.code, StorageOf(o, disk, D, a),
                                          CommittedOf(o, disk, D, a), o.selfDestructed, o.created)
    BY <1>1, ViewLive, Zenon
  <1> QED BY <1>1, <1>3, <1>4, <1>5, NobodyFacts, Zenon DEF o

\* The answers about a depend on the mark of a alone.
LEMMA ViewMark ==
  ASSUME NEW o, NEW disk, NEW D, NEW E, NEW a, a \in D <=> a \in E
  PROVE  view(o, disk, D, a) = view(o, disk, E, a)
  <1>1. \A k \in Slots : /\ committedOf(o, disk, D, a, k) = committedOf(o, disk, E, a, k)
                         /\ stateOf(o, disk, D, a, k) = stateOf(o, disk, E, a, k)
    BY DEF stateOf, committedOf
  <1>2. /\ [k \in Slots |-> IF Live(o) THEN stateOf(o, disk, D, a, k) ELSE Zero]
              = [k \in Slots |-> IF Live(o) THEN stateOf(o, disk, E, a, k) ELSE Zero]
        /\ [k \in Slots |-> IF Live(o) THEN committedOf(o, disk, D, a, k) ELSE Zero]
              = [k \in Slots |-> IF Live(o) THEN committedOf(o, disk, E, a, k) ELSE Zero]
    BY <1>1
  <1> QED BY <1>2, Zenon DEF view

\* What the getters answer is of this shape, and counts are not negative.
LEMMA WorldShape ==
  ASSUME NEW s, Sound(s), NEW w, w = WorldOf(s)
  PROVE  /\ w = worldRecord(Accts(s), Touched(s), s.refund, s.logs, s.transient,
                            WarmAddrs(s.access), WarmSlots(s.access))
         /\ w.acct = Accts(s) /\ w.touched = Touched(s) /\ w.refund = s.refund /\ w.logs = s.logs
         /\ w.transient = s.transient /\ w.warmAddrs = WarmAddrs(s.access)
         /\ w.warmSlots = WarmSlots(s.access)
         /\ \A a \in Addrs : /\ w.acct[a] = view(loaded(s, a), s.disk, s.destruct, a)
                             /\ s.dirties[a] \in Nat
         /\ s.logs \in Nat
  <1>1. Good(s) /\ s \in DB /\ s.dirties \in [Addrs -> Int] /\ s.entries \in Seq(Entry) /\ s.logs \in Int
    BY SoundFacts, DBFacts
  <1>2. w = worldRecord(Accts(s), Touched(s), s.refund, s.logs, s.transient,
                        WarmAddrs(s.access), WarmSlots(s.access))
    BY WorldFacts
  <1>3. /\ w.acct = Accts(s) /\ w.touched = Touched(s) /\ w.refund = s.refund /\ w.logs = s.logs
        /\ w.transient = s.transient /\ w.warmAddrs = WarmAddrs(s.access)
        /\ w.warmSlots = WarmSlots(s.access)
    BY <1>2, WorldRecordFields
  <1>4. ASSUME NEW a \in Addrs
        PROVE  w.acct[a] = view(loaded(s, a), s.disk, s.destruct, a) /\ s.dirties[a] \in Nat
    <2>1. w.acct[a] = view(loaded(s, a), s.disk, s.destruct, a)
      BY <1>3 DEF Accts
    <2>2. Count(s.entries, ChangesOf(a)) \in Nat
      BY <1>1, CountType
    <2>3. s.dirties[a] >= Count(s.entries, ChangesOf(a))
      BY <1>1, <2>2 DEF Good, Counted
    <2> QED BY <1>1, <2>1, <2>2, <2>3
  <1>5. s.logs \in Nat
    <2>1. Count(s.entries, LogEntries) \in Nat
      BY <1>1, CountType
    <2> QED BY <1>1, <2>1 DEF Good, Counted
  <1> QED BY <1>2, <1>3, <1>4, <1>5

\* An account of the world is replaced.
setAcct(w, a, x) == [w EXCEPT !.acct[a] = x]

\* A touch changes one field of the world.
LEMMA TouchRecord ==
  ASSUME NEW A, NEW T, NEW r, NEW l, NEW m, NEW p, NEW q, NEW a
  PROVE  World!Touch(worldRecord(A, T, r, l, m, p, q), a) = worldRecord(A, T \cup {a}, r, l, m, p, q)
  <1> DEFINE w == worldRecord(A, T, r, l, m, p, q)
  <1>1. w.touched = T
    BY WorldRecordFields
  <1> HIDE DEF w
  <1>2. World!Touch(w, a) = putTouched(w, T \cup {a})
    BY <1>1, Zenon DEF World!Touch, putTouched
  <1>3. putTouched(w, T \cup {a}) = worldRecord(A, T \cup {a}, r, l, m, p, q)
    BY PutTouched DEF w
  <1> QED BY <1>2, <1>3, Zenon DEF w

\* So does a write to an account.
LEMMA SetRecord ==
  ASSUME NEW A, NEW T, NEW r, NEW l, NEW m, NEW p, NEW q, NEW a, NEW x
  PROVE  setAcct(worldRecord(A, T, r, l, m, p, q), a, x) = worldRecord([A EXCEPT ![a] = x], T, r, l, m, p, q)
  <1> DEFINE w == worldRecord(A, T, r, l, m, p, q)
  <1>1. w.acct = A
    BY WorldRecordFields
  <1> HIDE DEF w
  <1>2. setAcct(w, a, x) = putAcct(w, [A EXCEPT ![a] = x])
    BY <1>1, Zenon DEF setAcct, putAcct
  <1>3. putAcct(w, [A EXCEPT ![a] = x]) = worldRecord([A EXCEPT ![a] = x], T, r, l, m, p, q)
    BY PutAcct DEF w
  <1> QED BY <1>2, <1>3, Zenon DEF w

\* A step that writes an account touches it and changes its answers alone.
LEMMA WorldWrote ==
  ASSUME NEW s, Sound(s), NEW t, NEW e, NEW o, Remembers(s, e, o), Wrote(s, t, e, o), Sound(t)
  PROVE  WorldOf(t) = World!Touch(setAcct(WorldOf(s), e.account, view(o, t.disk, t.destruct, e.account)), e.account)
  <1> DEFINE a == e.account
             x == view(o, t.disk, t.destruct, a)
  <1>1. s \in DB /\ t \in DB /\ e \in Entry /\ o \in Object
    BY SoundFacts DEF Remembers
  <1>2. /\ a \in Addrs /\ t.objects[a] = o /\ o # Nil
        /\ \A b \in Addrs : b # a => t.objects[b] = s.objects[b]
        /\ t.dirties[a] = s.dirties[a] + bump(e)
        /\ \A b \in Addrs : b # a => t.dirties[b] = s.dirties[b]
    BY <1>1, WroteFacts
  <1>3. /\ t.disk = s.disk /\ t.refund = s.refund /\ t.logs = s.logs /\ t.transient = s.transient
        /\ t.access = s.access
        /\ t.destruct = IF e.change = "reset" THEN s.destruct \cup {a} ELSE s.destruct
    BY DEF Wrote
  <1> HIDE DEF a
  <1>4. Accts(t) = [Accts(s) EXCEPT ![a] = x]
    <2>1. ASSUME NEW b \in Addrs
          PROVE  view(loaded(t, b), t.disk, t.destruct, b)
                   = IF b = a THEN x ELSE view(loaded(s, b), s.disk, s.destruct, b)
      <3>1. CASE b = a
        BY <1>2, <3>1 DEF loaded, loadedObject
      <3>2. CASE b # a
        <4>1. loaded(t, b) = loaded(s, b)
          BY <1>2, <1>3, <3>2 DEF loaded
        <4>2. b \in t.destruct <=> b \in s.destruct
          BY <1>3, <3>2
        <4> QED BY <1>3, <3>2, <4>1, <4>2, ViewMark
      <3> QED BY <3>1, <3>2
    <2> HIDE DEF x
    <2> QED BY <1>2, <2>1 DEF Accts
  <1>5. Touched(t) = Touched(s) \cup {a}
    <2>1. bump(e) \in {1, 2}
      BY DEF bump
    <2>2. \A b \in Addrs : s.dirties[b] \in Nat
      BY WorldShape
    <2> QED BY <1>2, <2>1, <2>2 DEF Touched
  <1>6. /\ WorldOf(s) = worldRecord(Accts(s), Touched(s), s.refund, s.logs, s.transient,
                                    WarmAddrs(s.access), WarmSlots(s.access))
        /\ WorldOf(t) = worldRecord(Accts(t), Touched(t), t.refund, t.logs, t.transient,
                                    WarmAddrs(t.access), WarmSlots(t.access))
    BY WorldFacts
  <1> HIDE DEF x
  <1>7. WorldOf(t) = World!Touch(setAcct(WorldOf(s), a, x), a)
    <2> DEFINE F == [Accts(s) EXCEPT ![a] = x]
               P == WarmAddrs(s.access)
               Q == WarmSlots(s.access)
    <2>1. setAcct(WorldOf(s), a, x) = worldRecord(F, Touched(s), s.refund, s.logs, s.transient, P, Q)
      BY <1>6, SetRecord
    <2>2. WorldOf(t) = worldRecord(F, Touched(s) \cup {a}, s.refund, s.logs, s.transient, P, Q)
      BY <1>3, <1>4, <1>5, <1>6, Zenon
    <2> HIDE DEF F, P, Q
    <2>3. World!Touch(worldRecord(F, Touched(s), s.refund, s.logs, s.transient, P, Q), a)
            = worldRecord(F, Touched(s) \cup {a}, s.refund, s.logs, s.transient, P, Q)
      BY TouchRecord
    <2> QED BY <2>1, <2>2, <2>3, Zenon
  <1> QED BY <1>7 DEF x, a

\* t is reached from s, with the answers w; snapshots stand for the same but for d touches of Ripemd.
Does(s, t, d, w) == Sound(t) /\ Follows(t, s, d) /\ WorldOf(t) = w

\* A step that changes no reading does nothing to the world.
LEMMA DoesSame ==
  ASSUME NEW s, Sound(s), NEW t, Sound(t), Follows(t, s, 0), Same(t, s, 0)
  PROVE  Does(s, t, 0, WorldOf(s))
  BY WorldSame DEF Does

\* Steps one after the other.
LEMMA DoesThen ==
  ASSUME NEW s, Sound(s), NEW t, NEW c \in Nat, NEW v, Does(s, t, c, v),
         NEW u, NEW d \in Nat, NEW w, Does(t, u, d, w)
  PROVE  Does(s, u, c + d, w)
  BY SoundFacts, FollowsTransitive DEF Does

\* A step that writes an account, on the world.
LEMMA DoesWrite ==
  ASSUME NEW s, Sound(s), NEW t, NEW e, NEW o, Remembers(s, e, o), Wrote(s, t, e, o)
  PROVE  /\ Does(s, t, bump(e) - 1, World!Touch(setAcct(WorldOf(s), e.account,
                                        view(o, t.disk, t.destruct, e.account)), e.account))
         /\ bump(e) - 1 \in Nat
  BY WroteSound, WorldWrote DEF Does

\* An account that is brought into being.
LEMMA DoesCreate ==
  ASSUME NEW s, Sound(s), NEW a \in Addrs, s.objects[a] = Nil => s.disk[a] = Nil
  PROVE  /\ Does(s, createObject(s, a), 0, World!Touch(setAcct(WorldOf(s), a, World!Newborn), a))
         /\ createObject(s, a).objects[a] = newObject(Nil)
         /\ a \in createObject(s, a).destruct \/ s.disk[a] = Nil
  <1> DEFINE t == createObject(s, a)
             o == newObject(Nil)
  <1>1. PICK e : /\ Remembers(s, e, o) /\ Wrote(s, t, e, o)
                 /\ e.account = a /\ e.change \in {"create", "reset"} /\ bump(e) = 1
                 /\ e.change = "reset" <=> s.objects[a] # Nil
    BY CreateWrote
  <1> HIDE DEF t, o
  <1>2. Does(s, t, 0, World!Touch(setAcct(WorldOf(s), a, view(o, t.disk, t.destruct, a)), a))
    <2>1. bump(e) - 1 = 0
      BY <1>1
    <2> QED BY <1>1, <2>1, DoesWrite
  <1>3. a \in t.destruct \/ t.disk[a] = Nil
    BY <1>1 DEF Wrote
  <1>4. view(o, t.disk, t.destruct, a) = World!Newborn
    BY <1>3, ViewNew DEF o
  <1>5. t.objects[a] = o /\ t.disk = s.disk
    <2>1. s \in DB
      BY SoundFacts
    <2>2. t.objects[e.account] = o
      BY <1>1, <2>1, WroteFacts
    <2> QED BY <1>1, <2>2 DEF Wrote
  <1> QED BY <1>2, <1>3, <1>4, <1>5 DEF t, o

\* getDeletedStateObject does nothing to the world.
LEMMA LoadDoes ==
  ASSUME NEW s, Sound(s), NEW a \in Addrs
  PROVE  /\ Does(s, load(s, a), 0, WorldOf(s))
         /\ load(s, a).objects[a] = loaded(s, a) /\ loaded(s, a) \in Object \cup {Nil}
         /\ load(s, a).objects[a] = Nil => load(s, a).disk[a] = Nil
         /\ exist(load(s, a), a) = WorldOf(s).acct[a].exists
         /\ exist(load(s, a), a) = Live(load(s, a).objects[a])
         /\ WorldOf(s).acct[a] = view(load(s, a).objects[a], load(s, a).disk, load(s, a).destruct, a)
  <1> DEFINE t == load(s, a)
  <1>1. /\ Sound(t) /\ Follows(t, s, 0) /\ Same(t, s, 0) /\ t.disk = s.disk /\ t.destruct = s.destruct
        /\ t.objects[a] = loaded(s, a) /\ loaded(s, a) \in Object \cup {Nil}
        /\ t.objects[a] = Nil => s.disk[a] = Nil
    BY LoadFacts
  <1>2. Does(s, t, 0, WorldOf(s))
    BY <1>1, DoesSame
  <1>3. exist(t, a) = Live(t.objects[a])
    BY Zenon DEF exist, Live
  <1>4. WorldOf(s).acct[a] = view(t.objects[a], t.disk, t.destruct, a)
    BY <1>1, WorldShape
  <1>5. WorldOf(s).acct[a].exists = Live(t.objects[a])
    <2> HIDE DEF t
    <2>1. view(t.objects[a], t.disk, t.destruct, a).exists = Live(t.objects[a])
      BY Zenon DEF view
    <2> QED BY <1>4, <2>1
  <1> QED BY <1>1, <1>2, <1>3, <1>4, <1>5

\* GetOrNewStateObject gives an object that is there, and makes one if there is none.
LEMMA EnsureDoes ==
  ASSUME NEW s, Sound(s), NEW a \in Addrs, NEW t, t = GetOrNewStateObject(s, a)
  PROVE  /\ Does(s, t, 0, World!Ensure(WorldOf(s), a))
         /\ t.objects[a] \in Object /\ ~t.objects[a].deleted
  <1> DEFINE u == load(s, a)
  <1>1. /\ Does(s, u, 0, WorldOf(s))
        /\ u.objects[a] = loaded(s, a) /\ loaded(s, a) \in Object \cup {Nil}
        /\ u.objects[a] = Nil => u.disk[a] = Nil
        /\ exist(u, a) = WorldOf(s).acct[a].exists
        /\ exist(u, a) = Live(u.objects[a])
    BY LoadDoes
  <1>2. t = IF exist(u, a) THEN u ELSE createObject(u, a)
    BY Zenon DEF GetOrNewStateObject
  <1> HIDE DEF u
  <1>3. CASE exist(u, a)
    <2>1. World!Ensure(WorldOf(s), a) = WorldOf(s)
      BY <1>1, <1>3, Zenon DEF World!Ensure
    <2>2. t = u
      BY <1>2, <1>3, Zenon
    <2>3. Live(u.objects[a])
      BY <1>1, <1>3
    <2> QED BY <1>1, <2>1, <2>2, <2>3 DEF Live
  <1>4. CASE ~exist(u, a)
    <2>1. World!Ensure(WorldOf(s), a) = World!Touch(setAcct(WorldOf(s), a, World!Newborn), a)
      BY <1>1, <1>4, Zenon DEF World!Ensure, setAcct
    <2>2. t = createObject(u, a)
      BY <1>2, <1>4, Zenon
    <2>3. Sound(u) /\ WorldOf(u) = WorldOf(s)
      BY <1>1 DEF Does
    <2>4. /\ Does(u, t, 0, World!Touch(setAcct(WorldOf(s), a, World!Newborn), a))
          /\ t.objects[a] = newObject(Nil)
      BY <1>1, <2>2, <2>3, DoesCreate
    <2>5. Does(s, t, 0 + 0, World!Touch(setAcct(WorldOf(s), a, World!Newborn), a))
      BY <1>1, <2>4, DoesThen
    <2>6. 0 + 0 = 0
      OBVIOUS
    <2> QED BY <2>1, <2>4, <2>5, <2>6, NewObjectFacts
  <1> QED BY <1>3, <1>4

(***************************************************************************)
(* The operations on an account that is there.                              *)
(***************************************************************************)
There(s, a) == s.objects[a] \in Object /\ ~s.objects[a].deleted

\* The answers of an account that is there.
LEMMA ThereFacts ==
  ASSUME NEW s, Sound(s), NEW a \in Addrs, There(s, a), NEW o, o = s.objects[a]
  PROVE  /\ o \in Object /\ ~o.deleted /\ o # Nil /\ loaded(s, a) = o
         /\ WorldOf(s).acct[a] = view(o, s.disk, s.destruct, a)
         /\ WorldOf(s).acct[a].balance = o.balance /\ WorldOf(s).acct[a].nonce = o.nonce
         /\ WorldOf(s).acct[a].code = o.code /\ WorldOf(s).acct[a].created = o.created
         /\ WorldOf(s).acct[a].storage = StorageOf(o, s.disk, s.destruct, a)
  <1>1. o \in Object /\ ~o.deleted /\ o # Nil
    BY ObjectFacts DEF There
  <1>2. loaded(s, a) = o
    BY <1>1 DEF loaded, loadedObject
  <1>3. WorldOf(s).acct[a] = view(o, s.disk, s.destruct, a)
    BY <1>2, WorldShape
  <1> DEFINE v == WorldOf(s).acct[a]
             yes == TRUE
             S(p) == StorageOf(p, s.disk, s.destruct, a)
             C(p) == CommittedOf(p, s.disk, s.destruct, a)
  <1>4. \A p \in Object : ~p.deleted =>
           view(p, s.disk, s.destruct, a)
             = viewRecord(yes, p.balance, p.nonce, p.code, S(p), C(p), p.selfDestructed, p.created)
    BY ViewLive
  <1> HIDE DEF v, yes, S, C
  <1>5. v = viewRecord(yes, o.balance, o.nonce, o.code, S(o), C(o), o.selfDestructed, o.created)
    BY <1>1, <1>3, <1>4 DEF v
  <1>6. /\ v.balance = o.balance /\ v.nonce = o.nonce /\ v.code = o.code /\ v.created = o.created
        /\ v.storage = S(o)
    BY <1>5, ViewRecordFields
  <1> QED BY <1>1, <1>2, <1>3, <1>6 DEF v, S

\* A field of an object, in its view.
putField(o, f, v) == [o EXCEPT ![f] = v]

\* Answers after a write of one field.
LEMMA ViewField ==
  ASSUME NEW o \in Object, ~o.deleted, NEW v \in Nat, NEW disk, NEW D, NEW a
  PROVE  /\ view(putField(o, "balance", v), disk, D, a) = putBalance(view(o, disk, D, a), v)
         /\ view(putField(o, "nonce", v), disk, D, a) = putNonce(view(o, disk, D, a), v)
         /\ v \in {0, 1} => view(putField(o, "code", v), disk, D, a) = putCode(view(o, disk, D, a), v)
  <1> DEFINE yes == TRUE
             S(p) == StorageOf(p, disk, D, a)
             C(p) == CommittedOf(p, disk, D, a)
  <1>1. \A p \in Object : ~p.deleted =>
           view(p, disk, D, a) = viewRecord(yes, p.balance, p.nonce, p.code, S(p), C(p), p.selfDestructed, p.created)
    BY ViewLive
  <1>2. \A p : p.dirty = o.dirty /\ p.pending = o.pending /\ p.origin = o.origin => S(p) = S(o) /\ C(p) = C(o)
    BY DEF StorageOf, CommittedOf, stateOf, committedOf
  <1> HIDE DEF yes, S, C
  <1>3. view(putField(o, "balance", v), disk, D, a) = putBalance(view(o, disk, D, a), v)
    <2> DEFINE p == putField(o, "balance", v)
    <2>1. /\ p \in Object /\ p.balance = v /\ p.nonce = o.nonce /\ p.code = o.code
          /\ p.dirty = o.dirty /\ p.pending = o.pending /\ p.origin = o.origin
          /\ p.selfDestructed = o.selfDestructed /\ p.deleted = o.deleted /\ p.created = o.created
      BY DEF Object, putField
    <2> HIDE DEF p
    <2>2. view(p, disk, D, a) = viewRecord(yes, v, o.nonce, o.code, S(o), C(o), o.selfDestructed, o.created)
      BY <1>1, <1>2, <2>1
    <2>3. putBalance(viewRecord(yes, o.balance, o.nonce, o.code, S(o), C(o), o.selfDestructed, o.created), v)
            = viewRecord(yes, v, o.nonce, o.code, S(o), C(o), o.selfDestructed, o.created)
      BY PutBalance
    <2>4. view(o, disk, D, a) = viewRecord(yes, o.balance, o.nonce, o.code, S(o), C(o), o.selfDestructed, o.created)
      BY <1>1
    <2> QED BY <2>2, <2>3, <2>4 DEF p
  <1>4. view(putField(o, "nonce", v), disk, D, a) = putNonce(view(o, disk, D, a), v)
    <2> DEFINE p == putField(o, "nonce", v)
    <2>1. /\ p \in Object /\ p.balance = o.balance /\ p.nonce = v /\ p.code = o.code
          /\ p.dirty = o.dirty /\ p.pending = o.pending /\ p.origin = o.origin
          /\ p.selfDestructed = o.selfDestructed /\ p.deleted = o.deleted /\ p.created = o.created
      BY DEF Object, putField
    <2> HIDE DEF p
    <2>2. view(p, disk, D, a) = viewRecord(yes, o.balance, v, o.code, S(o), C(o), o.selfDestructed, o.created)
      BY <1>1, <1>2, <2>1
    <2>3. putNonce(viewRecord(yes, o.balance, o.nonce, o.code, S(o), C(o), o.selfDestructed, o.created), v)
            = viewRecord(yes, o.balance, v, o.code, S(o), C(o), o.selfDestructed, o.created)
      BY PutNonce
    <2>4. view(o, disk, D, a) = viewRecord(yes, o.balance, o.nonce, o.code, S(o), C(o), o.selfDestructed, o.created)
      BY <1>1
    <2> QED BY <2>2, <2>3, <2>4 DEF p
  <1>5. ASSUME v \in {0, 1} PROVE view(putField(o, "code", v), disk, D, a) = putCode(view(o, disk, D, a), v)
    <2> DEFINE p == putField(o, "code", v)
    <2>1. /\ p \in Object /\ p.balance = o.balance /\ p.nonce = o.nonce /\ p.code = v
          /\ p.dirty = o.dirty /\ p.pending = o.pending /\ p.origin = o.origin
          /\ p.selfDestructed = o.selfDestructed /\ p.deleted = o.deleted /\ p.created = o.created
      BY <1>5 DEF Object, putField
    <2> HIDE DEF p
    <2>2. view(p, disk, D, a) = viewRecord(yes, o.balance, o.nonce, v, S(o), C(o), o.selfDestructed, o.created)
      BY <1>1, <1>2, <2>1
    <2>3. putCode(viewRecord(yes, o.balance, o.nonce, o.code, S(o), C(o), o.selfDestructed, o.created), v)
            = viewRecord(yes, o.balance, o.nonce, v, S(o), C(o), o.selfDestructed, o.created)
      BY PutCode
    <2>4. view(o, disk, D, a) = viewRecord(yes, o.balance, o.nonce, o.code, S(o), C(o), o.selfDestructed, o.created)
      BY <1>1
    <2> QED BY <2>2, <2>3, <2>4 DEF p
  <1> QED BY <1>3, <1>4, <1>5

\* setBalance, setNonce and setCode on the world.
LEMMA FieldDoes ==
  ASSUME NEW s, Sound(s), NEW a \in Addrs, There(s, a), NEW v \in Nat, NEW w, w = WorldOf(s)
  PROVE  /\ Does(s, setField(s, a, "balance", v), 0, World!Touch(setAcct(w, a, putBalance(w.acct[a], v)), a))
         /\ Does(s, setField(s, a, "nonce", v), 0, World!Touch(setAcct(w, a, putNonce(w.acct[a], v)), a))
         /\ v \in {0, 1} =>
               Does(s, setField(s, a, "code", v), 0, World!Touch(setAcct(w, a, putCode(w.acct[a], v)), a))
  <1> DEFINE o == s.objects[a]
  <1>1. o \in Object /\ ~o.deleted /\ o # Nil /\ w.acct[a] = view(o, s.disk, s.destruct, a)
    <2>1. o \in Object /\ ~o.deleted /\ o # Nil /\ WorldOf(s).acct[a] = view(o, s.disk, s.destruct, a)
      BY ThereFacts, ZenonT(60)
    <2> QED BY <2>1
  <1>2. ASSUME NEW f \in {"balance", "nonce", "code"}, f = "code" => v \in {0, 1}
        PROVE  Does(s, setField(s, a, f, v), 0,
                    World!Touch(setAcct(w, a, view(putField(o, f, v), s.disk, s.destruct, a)), a))
    <2> DEFINE p == putField(o, f, v)
               t == setField(s, a, f, v)
    <2>1. PICK e : /\ Remembers(s, e, p) /\ Wrote(s, t, e, p)
                   /\ e.account = a /\ e.change = f /\ bump(e) = 1
      BY <1>1, <1>2, FieldWrote DEF putField
    <2> HIDE DEF p, t
    <2>2. t.disk = s.disk /\ t.destruct = s.destruct
      BY <2>1 DEF Wrote
    <2>3. bump(e) - 1 = 0
      BY <2>1
    <2>4. Does(s, t, 0, World!Touch(setAcct(w, a, view(p, t.disk, t.destruct, a)), a))
      BY <2>1, <2>3, DoesWrite
    <2> QED BY <2>2, <2>4 DEF p, t
  <1>3. Does(s, setField(s, a, "balance", v), 0,
             World!Touch(setAcct(w, a, view(putField(o, "balance", v), s.disk, s.destruct, a)), a))
    BY <1>2
  <1>4. Does(s, setField(s, a, "nonce", v), 0,
             World!Touch(setAcct(w, a, view(putField(o, "nonce", v), s.disk, s.destruct, a)), a))
    BY <1>2
  <1>5. v \in {0, 1} => Does(s, setField(s, a, "code", v), 0,
             World!Touch(setAcct(w, a, view(putField(o, "code", v), s.disk, s.destruct, a)), a))
    BY <1>2
  <1> HIDE DEF o
  <1> DEFINE x == view(o, s.disk, s.destruct, a)
  <1>6. /\ view(putField(o, "balance", v), s.disk, s.destruct, a) = putBalance(x, v)
        /\ view(putField(o, "nonce", v), s.disk, s.destruct, a) = putNonce(x, v)
        /\ v \in {0, 1} => view(putField(o, "code", v), s.disk, s.destruct, a) = putCode(x, v)
    <2>1. \A disk, D : /\ view(putField(o, "balance", v), disk, D, a) = putBalance(view(o, disk, D, a), v)
                       /\ view(putField(o, "nonce", v), disk, D, a) = putNonce(view(o, disk, D, a), v)
                       /\ v \in {0, 1} => view(putField(o, "code", v), disk, D, a) = putCode(view(o, disk, D, a), v)
      BY <1>1, ViewField
    <2> QED BY <2>1
  <1>7. w.acct[a] = x
    BY <1>1
  <1> HIDE DEF x
  <1> QED BY <1>3, <1>4, <1>5, <1>6, <1>7, Zenon

\* touch on the world.
LEMMA TouchDoes ==
  ASSUME NEW s, Sound(s), NEW a \in Addrs, There(s, a)
  PROVE  Does(s, touch(s, a), IF a = Ripemd THEN 1 ELSE 0, World!Touch(WorldOf(s), a))
  <1> DEFINE e == [change |-> "touch", account |-> a]
             o == s.objects[a]
             t == touch(s, a)
             w == WorldOf(s)
  <1>1. /\ o \in Object /\ o # Nil /\ s \in DB /\ w.acct[a] = view(o, s.disk, s.destruct, a)
    BY ThereFacts, SoundFacts, ZenonT(60)
  <1>2. e \in Entry /\ Wrote(s, t, e, o) /\ e.change = "touch" /\ e.account = a
    BY <1>1, TouchFacts
  <1> HIDE DEF e, t, o
  <1>3. Remembers(s, e, o)
    BY <1>1, <1>2 DEF Remembers, AccountChanges, ObjectChanges, o
  <1>4. t.disk = s.disk /\ t.destruct = s.destruct
    BY <1>2 DEF Wrote
  <1>5. bump(e) - 1 = IF a = Ripemd THEN 1 ELSE 0
    BY <1>2 DEF bump
  <1>6. Does(s, t, bump(e) - 1, World!Touch(setAcct(w, a, w.acct[a]), a))
    BY <1>1, <1>2, <1>3, <1>4, DoesWrite
  <1>7. setAcct(w, a, w.acct[a]) = w
    <2>1. /\ w = worldRecord(Accts(s), Touched(s), s.refund, s.logs, s.transient,
                             WarmAddrs(s.access), WarmSlots(s.access))
          /\ w.acct = Accts(s)
      BY WorldShape
    <2>2. [Accts(s) EXCEPT ![a] = Accts(s)[a]] = Accts(s)
      BY DEF Accts
    <2> HIDE DEF w
    <2>3. setAcct(w, a, w.acct[a])
            = worldRecord([Accts(s) EXCEPT ![a] = w.acct[a]], Touched(s), s.refund, s.logs, s.transient,
                          WarmAddrs(s.access), WarmSlots(s.access))
      BY <2>1, SetRecord
    <2> QED BY <2>1, <2>2, <2>3
  <1> QED BY <1>5, <1>6, <1>7 DEF t

\* A slot of an object, in its view.
putSlot(o, k, v) == [o EXCEPT !.dirty[k] = v]

putKey(m, k, v) == [m EXCEPT ![k] = v]

\* Answers after a write of one slot.
LEMMA ViewSlot ==
  ASSUME NEW o \in Object, ~o.deleted, NEW k \in Slots, NEW v \in Values, NEW disk, NEW D, NEW a
  PROVE  view(putSlot(o, k, v), disk, D, a)
           = putStorage(view(o, disk, D, a), putKey(StorageOf(o, disk, D, a), k, v))
  <1> DEFINE yes == TRUE
             S(p) == StorageOf(p, disk, D, a)
             C(p) == CommittedOf(p, disk, D, a)
             r == putSlot(o, k, v)
             z == putKey(S(o), k, v)
  <1>1. \A p \in Object : ~p.deleted =>
           view(p, disk, D, a) = viewRecord(yes, p.balance, p.nonce, p.code, S(p), C(p), p.selfDestructed, p.created)
    BY ViewLive
  <1>2. o.dirty \in [Slots -> Values \cup {Nil}] /\ v # Nil
    BY ObjectFacts, NilFacts
  <1>3. /\ r \in Object /\ r.balance = o.balance /\ r.nonce = o.nonce /\ r.code = o.code
        /\ r.pending = o.pending /\ r.origin = o.origin
        /\ r.selfDestructed = o.selfDestructed /\ r.deleted = o.deleted /\ r.created = o.created
        /\ r.dirty = [o.dirty EXCEPT ![k] = v]
    BY <1>2 DEF Object, putSlot
  <1> HIDE DEF r
  <1>4. C(r) = C(o)
    BY <1>3 DEF CommittedOf, committedOf
  <1>5. S(r) = z
    <2>1. \A j \in Slots : stateOf(r, disk, D, a, j) = IF j = k THEN v ELSE stateOf(o, disk, D, a, j)
      <3> TAKE j \in Slots
      <3>1. committedOf(r, disk, D, a, j) = committedOf(o, disk, D, a, j)
        BY <1>3 DEF committedOf
      <3>2. r.dirty[j] = IF j = k THEN v ELSE o.dirty[j]
        BY <1>2, <1>3
      <3> QED BY <1>2, <3>1, <3>2 DEF stateOf
    <2> QED BY <2>1 DEF StorageOf, putKey
  <1> HIDE DEF yes, S, C, z
  <1>6. view(r, disk, D, a) = viewRecord(yes, o.balance, o.nonce, o.code, z, C(o), o.selfDestructed, o.created)
    BY <1>1, <1>3, <1>4, <1>5
  <1>7. putStorage(viewRecord(yes, o.balance, o.nonce, o.code, S(o), C(o), o.selfDestructed, o.created), z)
          = viewRecord(yes, o.balance, o.nonce, o.code, z, C(o), o.selfDestructed, o.created)
    BY PutStorage
  <1>8. view(o, disk, D, a) = viewRecord(yes, o.balance, o.nonce, o.code, S(o), C(o), o.selfDestructed, o.created)
    BY <1>1
  <1> QED BY <1>6, <1>7, <1>8 DEF r, z, S

\* The write of SetState on the world.
LEMMA StorageDoes ==
  ASSUME NEW s, Sound(s), NEW a \in Addrs, There(s, a), NEW k \in Slots, NEW v \in Values, NEW w, w = WorldOf(s)
  PROVE  LET f == [change |-> "storage", account |-> a, key |-> k, prev |-> State(s, a, k)]
         IN  Does(s, [journal(s, f) EXCEPT !.objects[a].dirty[k] = v], 0,
                  World!Touch(setAcct(w, a, putStorage(w.acct[a], putKey(w.acct[a].storage, k, v))), a))
  <1> DEFINE o == s.objects[a]
             p == putSlot(o, k, v)
             f == [change |-> "storage", account |-> a, key |-> k, prev |-> State(s, a, k)]
             t == [journal(s, f) EXCEPT !.objects[a].dirty[k] = v]
  <1>1. /\ o \in Object /\ ~o.deleted /\ o # Nil /\ WorldOf(s).acct[a] = view(o, s.disk, s.destruct, a)
        /\ WorldOf(s).acct[a].storage = StorageOf(o, s.disk, s.destruct, a)
    BY ThereFacts, ZenonT(60)
  <1>2. \E e : /\ Remembers(s, e, p) /\ Wrote(s, t, e, p)
               /\ e.account = a /\ e.change = "storage" /\ bump(e) = 1
    BY <1>1, StorageWrote DEF putSlot
  <1>3. PICK e : /\ Remembers(s, e, p) /\ Wrote(s, t, e, p)
                 /\ e.account = a /\ e.change = "storage" /\ bump(e) = 1
    BY <1>2
  <1>0. view(p, s.disk, s.destruct, a) = putStorage(w.acct[a], putKey(w.acct[a].storage, k, v))
    <2> HIDE DEF o
    <2> QED BY <1>1, ViewSlot
  <1> HIDE DEF p, t, o
  <1>4. t.disk = s.disk /\ t.destruct = s.destruct
    BY <1>3 DEF Wrote
  <1>5. bump(e) - 1 = 0
    BY <1>3
  <1>6. Does(s, t, 0, World!Touch(setAcct(w, a, view(p, t.disk, t.destruct, a)), a))
    BY <1>3, <1>5, DoesWrite
  <1>7. Does(s, t, 0, World!Touch(setAcct(w, a, putStorage(w.acct[a], putKey(w.acct[a].storage, k, v))), a))
    BY <1>0, <1>4, <1>6
  <1> QED BY <1>7, Zenon DEF t

\* A slot is remembered: nothing is seen of it.
LEMMA CacheDoes ==
  ASSUME NEW s, Sound(s), NEW a \in Addrs, There(s, a), NEW k \in Slots, NEW t, t = cache(s, a, k)
  PROVE  Does(s, t, 0, WorldOf(s)) /\ There(t, a)
  <1>1. s.objects[a] \in Object /\ ~s.objects[a].deleted /\ s.objects[a] # Nil /\ loaded(s, a) = s.objects[a]
    BY ThereFacts
  <1>2. /\ Sound(t) /\ Follows(t, s, 0) /\ Same(t, s, 0) /\ t.disk = s.disk /\ t.destruct = s.destruct
        /\ t.objects[a] # Nil
    BY <1>1, CacheFacts
  <1>3. t.objects[a] \in Object
    <2>1. t \in DB
      BY <1>2, SoundFacts
    <2>2. t.objects \in [Addrs -> Object \cup {Nil}]
      BY <2>1, DBFacts
    <2> QED BY <1>2, <2>2
  <1>4. loaded(t, a) = t.objects[a]
    BY <1>2 DEF loaded, loadedObject
  <1>5. SameObject(t.objects[a], s.objects[a], s.disk, s.destruct, a)
    BY <1>1, <1>2, <1>4 DEF Same
  <1>6. t.objects[a].deleted = s.objects[a].deleted
    BY <1>2, <1>5, Zenon DEF SameObject
  <1> QED BY <1>1, <1>2, <1>3, <1>6, DoesSame DEF There

putGone(o, y) == [o EXCEPT !.selfDestructed = y, !.balance = 0]

\* Answers after SelfDestruct.
LEMMA ViewDestroyed ==
  ASSUME NEW o \in Object, ~o.deleted, NEW y \in BOOLEAN, NEW disk, NEW D, NEW a
  PROVE  view(putGone(o, y), disk, D, a) = putDestroyed(view(o, disk, D, a), 0, y)
  <1> DEFINE yes == TRUE
             S(p) == StorageOf(p, disk, D, a)
             C(p) == CommittedOf(p, disk, D, a)
             r == putGone(o, y)
  <1>1. \A p \in Object : ~p.deleted =>
           view(p, disk, D, a) = viewRecord(yes, p.balance, p.nonce, p.code, S(p), C(p), p.selfDestructed, p.created)
    BY ViewLive
  <1>2. /\ r \in Object /\ r.balance = 0 /\ r.nonce = o.nonce /\ r.code = o.code
        /\ r.dirty = o.dirty /\ r.pending = o.pending /\ r.origin = o.origin
        /\ r.selfDestructed = y /\ r.deleted = o.deleted /\ r.created = o.created
    BY DEF Object, putGone
  <1> HIDE DEF r
  <1>3. S(r) = S(o) /\ C(r) = C(o)
    BY <1>2 DEF StorageOf, CommittedOf, stateOf, committedOf
  <1> HIDE DEF yes, S, C
  <1>4. view(r, disk, D, a) = viewRecord(yes, 0, o.nonce, o.code, S(o), C(o), y, o.created)
    BY <1>1, <1>2, <1>3
  <1>5. putDestroyed(viewRecord(yes, o.balance, o.nonce, o.code, S(o), C(o), o.selfDestructed, o.created), 0, y)
          = viewRecord(yes, 0, o.nonce, o.code, S(o), C(o), y, o.created)
    BY PutDestroyed
  <1>6. view(o, disk, D, a) = viewRecord(yes, o.balance, o.nonce, o.code, S(o), C(o), o.selfDestructed, o.created)
    BY <1>1
  <1> QED BY <1>4, <1>5, <1>6 DEF r

\* The write of SelfDestruct on the world.
LEMMA DestructDoes ==
  ASSUME NEW s, Sound(s), NEW a \in Addrs, There(s, a), NEW w, w = WorldOf(s)
  PROVE  Does(s, selfDestruct(s, a), 0, World!Touch(setAcct(w, a, putDestroyed(w.acct[a], 0, TRUE)), a))
  <1> DEFINE o == s.objects[a]
             yes == TRUE
             p == putGone(o, yes)
             t == selfDestruct(s, a)
  <1>1. o \in Object /\ ~o.deleted /\ o # Nil /\ WorldOf(s).acct[a] = view(o, s.disk, s.destruct, a)
    BY ThereFacts, ZenonT(60)
  <1>2. \E e : /\ Remembers(s, e, p) /\ Wrote(s, t, e, p)
               /\ e.account = a /\ e.change = "selfDestruct" /\ bump(e) = 1
    BY <1>1, DestructWrote, Zenon DEF putGone
  <1>3. PICK e : /\ Remembers(s, e, p) /\ Wrote(s, t, e, p)
                 /\ e.account = a /\ e.change = "selfDestruct" /\ bump(e) = 1
    BY <1>2
  <1>0. yes \in BOOLEAN
    OBVIOUS
  <1> HIDE DEF yes
  <1>4. view(p, s.disk, s.destruct, a) = putDestroyed(w.acct[a], 0, yes)
    <2> HIDE DEF o
    <2> QED BY <1>0, <1>1, ViewDestroyed
  <1> HIDE DEF p, t, o
  <1>5. t.disk = s.disk /\ t.destruct = s.destruct
    BY <1>3 DEF Wrote
  <1>6. bump(e) - 1 = 0
    BY <1>3
  <1>7. Does(s, t, 0, World!Touch(setAcct(w, a, view(p, t.disk, t.destruct, a)), a))
    BY <1>3, <1>6, DoesWrite
  <1>8. Does(s, t, 0, World!Touch(setAcct(w, a, putDestroyed(w.acct[a], 0, yes)), a))
    BY <1>4, <1>5, <1>7
  <1> QED BY <1>8 DEF t, yes

\* A step after one that leaves nothing behind that a revert would keep.
LEMMA DoesAfter ==
  ASSUME NEW s, Sound(s), NEW t, NEW v, Does(s, t, 0, v), NEW u, NEW d \in Nat, NEW w, Does(t, u, d, w)
  PROVE  Does(s, u, d, w)
  <1>1. Does(s, u, 0 + d, w)
    BY DoesThen
  <1> QED BY <1>1

(***************************************************************************)
(* The operations.                                                          *)
(***************************************************************************)
\* What a setter finds after GetOrNewStateObject.
LEMMA Ensured ==
  ASSUME NEW s, Sound(s), NEW a \in Addrs, NEW u, u = GetOrNewStateObject(s, a),
         NEW w, w = World!Ensure(WorldOf(s), a)
  PROVE  /\ Does(s, u, 0, w) /\ Sound(u) /\ WorldOf(u) = w /\ There(u, a)
         /\ u.objects[a].balance \in Nat /\ u.objects[a].nonce \in Nat
         /\ w.acct[a].balance = u.objects[a].balance /\ w.acct[a].nonce = u.objects[a].nonce
         /\ w.acct[a].code = u.objects[a].code
  <1>1. Does(s, u, 0, w) /\ There(u, a)
    BY EnsureDoes DEF There
  <1>2. Sound(u) /\ WorldOf(u) = w
    BY <1>1 DEF Does
  <1>3. u.objects[a].balance \in Nat /\ u.objects[a].nonce \in Nat
    BY <1>1, ObjectFacts DEF There
  <1>4. /\ WorldOf(u).acct[a].balance = u.objects[a].balance /\ WorldOf(u).acct[a].nonce = u.objects[a].nonce
        /\ WorldOf(u).acct[a].code = u.objects[a].code
    BY <1>1, <1>2, ThereFacts
  <1> QED BY <1>1, <1>2, <1>3, <1>4

\* The three ways of AddBalance.
LEMMA AddBalanceDoes ==
  ASSUME NEW s, Sound(s), NEW a \in Addrs, NEW n \in Nat, NEW u, u = GetOrNewStateObject(s, a),
         NEW w, w = World!Ensure(WorldOf(s), a)
  PROVE  /\ n > 0 => Does(s, setField(u, a, "balance", u.objects[a].balance + n), 0,
                          World!Touch([w EXCEPT !.acct[a].balance = @ + n], a))
         /\ Does(s, touch(u, a), IF a = Ripemd THEN 1 ELSE 0, World!Touch(w, a))
         /\ Does(s, u, 0, w)
         /\ empty(u.objects[a]) <=> World!Empty(w.acct[a])
  <1>1. /\ Does(s, u, 0, w) /\ Sound(u) /\ WorldOf(u) = w /\ There(u, a)
        /\ u.objects[a].balance \in Nat
        /\ w.acct[a].balance = u.objects[a].balance /\ w.acct[a].nonce = u.objects[a].nonce
        /\ w.acct[a].code = u.objects[a].code
    BY Ensured
  <1>2. Does(s, setField(u, a, "balance", u.objects[a].balance + n), 0,
             World!Touch([w EXCEPT !.acct[a].balance = @ + n], a))
    <2> DEFINE v == u.objects[a].balance + n
    <2>1. v \in Nat /\ w.acct[a].balance + n = v
      BY <1>1
    <2> HIDE DEF v
    <2>2. Does(u, setField(u, a, "balance", v), 0, World!Touch(setAcct(w, a, putBalance(w.acct[a], v)), a))
      BY <1>1, <2>1, FieldDoes
    <2>3. [w EXCEPT !.acct[a].balance = @ + n] = setAcct(w, a, putBalance(w.acct[a], v))
      BY <2>1, Zenon DEF setAcct, putBalance
    <2>4. Does(s, setField(u, a, "balance", v), 0, World!Touch(setAcct(w, a, putBalance(w.acct[a], v)), a))
      BY <1>1, <2>2, DoesAfter
    <2> QED BY <2>3, <2>4, Zenon DEF v
  <1>3. Does(s, touch(u, a), IF a = Ripemd THEN 1 ELSE 0, World!Touch(w, a))
    BY <1>1, TouchDoes, DoesAfter
  <1>4. empty(u.objects[a]) <=> World!Empty(w.acct[a])
    BY <1>1 DEF empty, World!Empty
  <1> QED BY <1>1, <1>2, <1>3, <1>4, Zenon

\* SubBalance, with and without an amount.
LEMMA SubBalanceDoes ==
  ASSUME NEW s, Sound(s), NEW a \in Addrs, NEW n \in Nat, NEW u, u = GetOrNewStateObject(s, a),
         n <= u.objects[a].balance, NEW w, w = World!Ensure(WorldOf(s), a)
  PROVE  /\ Does(s, setField(u, a, "balance", u.objects[a].balance - n), 0,
                 World!Touch([w EXCEPT !.acct[a].balance = @ - n], a))
         /\ Does(s, u, 0, w)
  <1>1. /\ Does(s, u, 0, w) /\ Sound(u) /\ WorldOf(u) = w /\ There(u, a)
        /\ u.objects[a].balance \in Nat /\ w.acct[a].balance = u.objects[a].balance
    BY Ensured
  <1> DEFINE v == u.objects[a].balance - n
  <1>2. v \in Nat /\ w.acct[a].balance - n = v
    BY <1>1
  <1> HIDE DEF v
  <1>3. Does(u, setField(u, a, "balance", v), 0, World!Touch(setAcct(w, a, putBalance(w.acct[a], v)), a))
    BY <1>1, <1>2, FieldDoes
  <1>4. [w EXCEPT !.acct[a].balance = @ - n] = setAcct(w, a, putBalance(w.acct[a], v))
    BY <1>2, Zenon DEF setAcct, putBalance
  <1>5. Does(s, setField(u, a, "balance", v), 0, World!Touch(setAcct(w, a, putBalance(w.acct[a], v)), a))
    BY <1>1, <1>3, DoesAfter
  <1>6. Does(s, setField(u, a, "balance", v), 0, World!Touch([w EXCEPT !.acct[a].balance = @ - n], a))
    BY <1>4, <1>5, Zenon
  <1> QED BY <1>1, <1>6, Zenon DEF v

\* SetNonce.
LEMMA SetNonceDoes ==
  ASSUME NEW s, Sound(s), NEW a \in Addrs, NEW u, u = GetOrNewStateObject(s, a),
         NEW w, w = World!Ensure(WorldOf(s), a)
  PROVE  Does(s, setField(u, a, "nonce", u.objects[a].nonce + 1), 0,
              World!Touch([w EXCEPT !.acct[a].nonce = @ + 1], a))
  <1>1. /\ Does(s, u, 0, w) /\ Sound(u) /\ WorldOf(u) = w /\ There(u, a)
        /\ u.objects[a].nonce \in Nat /\ w.acct[a].nonce = u.objects[a].nonce
    BY Ensured
  <1> DEFINE v == u.objects[a].nonce + 1
  <1>2. v \in Nat /\ w.acct[a].nonce + 1 = v
    BY <1>1
  <1> HIDE DEF v
  <1>3. Does(u, setField(u, a, "nonce", v), 0, World!Touch(setAcct(w, a, putNonce(w.acct[a], v)), a))
    BY <1>1, <1>2, FieldDoes
  <1>4. [w EXCEPT !.acct[a].nonce = @ + 1] = setAcct(w, a, putNonce(w.acct[a], v))
    BY <1>2, Zenon DEF setAcct, putNonce
  <1>5. Does(s, setField(u, a, "nonce", v), 0, World!Touch(setAcct(w, a, putNonce(w.acct[a], v)), a))
    BY <1>1, <1>3, DoesAfter
  <1>6. Does(s, setField(u, a, "nonce", v), 0, World!Touch([w EXCEPT !.acct[a].nonce = @ + 1], a))
    BY <1>4, <1>5, Zenon
  <1> QED BY <1>6, Zenon DEF v

\* SetCode.
LEMMA SetCodeDoes ==
  ASSUME NEW s, Sound(s), NEW a \in Addrs, NEW c \in {0, 1}, NEW u, u = GetOrNewStateObject(s, a),
         NEW w, w = World!Ensure(WorldOf(s), a)
  PROVE  Does(s, setField(u, a, "code", c), 0, World!Touch([w EXCEPT !.acct[a].code = c], a))
  <1>1. Does(s, u, 0, w) /\ Sound(u) /\ WorldOf(u) = w /\ There(u, a)
    BY Ensured
  <1>2. Does(u, setField(u, a, "code", c), 0, World!Touch(setAcct(w, a, putCode(w.acct[a], c)), a))
    BY <1>1, FieldDoes
  <1>3. [w EXCEPT !.acct[a].code = c] = setAcct(w, a, putCode(w.acct[a], c))
    BY Zenon DEF setAcct, putCode
  <1>4. Does(s, setField(u, a, "code", c), 0, World!Touch(setAcct(w, a, putCode(w.acct[a], c)), a))
    BY <1>1, <1>2, DoesAfter
  <1> QED BY <1>3, <1>4, Zenon

\* What SetState compares the new value with is what the world has.
LEMMA SetStateReads ==
  ASSUME NEW s, Sound(s), NEW a \in Addrs, NEW k \in Slots,
         NEW u, u = cache(GetOrNewStateObject(s, a), a, k), NEW w, w = World!Ensure(WorldOf(s), a)
  PROVE  /\ Does(s, u, 0, w) /\ Sound(u) /\ WorldOf(u) = w /\ There(u, a)
         /\ State(u, a, k) = w.acct[a].storage[k]
  <1> DEFINE x == GetOrNewStateObject(s, a)
  <1>1. Does(s, x, 0, w) /\ Sound(x) /\ WorldOf(x) = w /\ There(x, a)
    BY Ensured
  <1> HIDE DEF x
  <1>2. Does(x, u, 0, w) /\ There(u, a)
    BY <1>1, CacheDoes DEF x
  <1>3. Does(s, u, 0, w) /\ Sound(u) /\ WorldOf(u) = w
    BY <1>1, <1>2, DoesAfter DEF Does
  <1>4. WorldOf(u).acct[a].storage = StorageOf(u.objects[a], u.disk, u.destruct, a)
    BY <1>2, <1>3, ThereFacts
  <1>5. State(u, a, k) = stateOf(u.objects[a], u.disk, u.destruct, a, k)
    BY ReadFacts
  <1> QED BY <1>2, <1>3, <1>4, <1>5 DEF StorageOf

\* SetState with another value.
LEMMA SetStateDoes ==
  ASSUME NEW s, Sound(s), NEW a \in Addrs, NEW k \in Slots, NEW v \in Values,
         NEW u, u = cache(GetOrNewStateObject(s, a), a, k), NEW w, w = World!Ensure(WorldOf(s), a)
  PROVE  LET f == [change |-> "storage", account |-> a, key |-> k, prev |-> State(u, a, k)]
         IN  Does(s, [journal(u, f) EXCEPT !.objects[a].dirty[k] = v], 0,
                  World!Touch([w EXCEPT !.acct[a].storage[k] = v], a))
  <1> DEFINE f == [change |-> "storage", account |-> a, key |-> k, prev |-> State(u, a, k)]
             t == [journal(u, f) EXCEPT !.objects[a].dirty[k] = v]
  <1>1. Does(s, u, 0, w) /\ Sound(u) /\ WorldOf(u) = w /\ There(u, a)
    BY SetStateReads
  <1>2. Does(u, t, 0, World!Touch(setAcct(w, a, putStorage(w.acct[a], putKey(w.acct[a].storage, k, v))), a))
    BY <1>1, StorageDoes, Zenon
  <1> HIDE DEF t
  <1>3. [w EXCEPT !.acct[a].storage[k] = v]
              = setAcct(w, a, putStorage(w.acct[a], putKey(w.acct[a].storage, k, v)))
    BY Zenon DEF setAcct, putStorage, putKey
  <1>4. Does(s, t, 0, World!Touch(setAcct(w, a, putStorage(w.acct[a], putKey(w.acct[a].storage, k, v))), a))
    BY <1>1, <1>2, DoesAfter
  <1>5. Does(s, t, 0, World!Touch([w EXCEPT !.acct[a].storage[k] = v], a))
    BY <1>3, <1>4, Zenon
  <1> QED BY <1>5, Zenon DEF t

\* GetState loads and caches, and does nothing to the world.
LEMMA GetStateDoes ==
  ASSUME NEW s, Sound(s), NEW a \in Addrs, NEW k \in Slots
  PROVE  LET u == load(s, a) IN Does(s, IF exist(u, a) THEN cache(u, a, k) ELSE u, 0, WorldOf(s))
  <1> DEFINE u == load(s, a)
  <1>1. /\ Does(s, u, 0, WorldOf(s)) /\ u.objects[a] \in Object \cup {Nil}
        /\ exist(u, a) = Live(u.objects[a])
    BY LoadDoes
  <1> HIDE DEF u
  <1>2. CASE exist(u, a)
    <2>1. There(u, a) /\ Sound(u) /\ WorldOf(u) = WorldOf(s)
      BY <1>1, <1>2 DEF There, Live, Does
    <2>2. Does(u, cache(u, a, k), 0, WorldOf(s))
      BY <2>1, CacheDoes
    <2>3. Does(s, cache(u, a, k), 0, WorldOf(s))
      BY <1>1, <2>2, DoesAfter
    <2> QED BY <1>2, <2>3, Zenon DEF u
  <1>3. CASE ~exist(u, a)
    BY <1>1, <1>3, Zenon DEF u
  <1> QED BY <1>2, <1>3

destroy(w, a, y) == [w EXCEPT !.acct[a].balance = 0, !.acct[a].destroyed = y]

\* The two writes to an account as one.
LEMMA DestroyedRecord ==
  ASSUME NEW s, Sound(s), NEW a \in Addrs, NEW w, w = WorldOf(s), NEW y
  PROVE  destroy(w, a, y) = setAcct(w, a, putDestroyed(w.acct[a], 0, y))
  <1> DEFINE A == Accts(s)
             T == Touched(s)
             P == WarmAddrs(s.access)
             Q == WarmSlots(s.access)
             R(X) == worldRecord(X, T, s.refund, s.logs, s.transient, P, Q)
             b == [A[a] EXCEPT !.balance = 0]
             c == [b EXCEPT !.destroyed = y]
             B == [A EXCEPT ![a] = b]
             v == setAcct(w, a, b)
  <1>1. w = R(A) /\ w.acct = A
    BY WorldShape
  <1>2. A = [x \in Addrs |-> A[x]]
    BY DEF Accts
  <1>3. c = putDestroyed(A[a], 0, y)
    BY DEF putDestroyed
  <1>4. destroy(w, a, y) = [v EXCEPT !.acct[a].destroyed = y]
    BY <1>1, Zenon DEF setAcct, destroy
  <1> HIDE DEF A, T, P, Q
  <1>5. B[a] = b /\ [B EXCEPT ![a] = c] = [A EXCEPT ![a] = c]
    <2> HIDE DEF b, c
    <2> QED BY <1>2
  <1> HIDE DEF b, B
  <1>6. v = R(B)
    BY <1>1, SetRecord DEF B
  <1>7. v.acct = B
    BY <1>6, WorldRecordFields
  <1> HIDE DEF v
  <1>8. [v EXCEPT !.acct[a].destroyed = y] = setAcct(v, a, c)
    BY <1>5, <1>7, Zenon DEF setAcct
  <1> HIDE DEF c
  <1>9. setAcct(v, a, c) = R([B EXCEPT ![a] = c])
    BY <1>6, SetRecord
  <1>10. setAcct(w, a, c) = R([A EXCEPT ![a] = c])
    BY <1>1, SetRecord
  <1> QED BY <1>1, <1>3, <1>4, <1>5, <1>8, <1>9, <1>10, Zenon

\* SelfDestruct of an account that exists.
LEMMA SelfDestructDoes ==
  ASSUME NEW s, Sound(s), NEW a \in Addrs, NEW u, u = load(s, a), NEW w, w = WorldOf(s), exist(u, a)
  PROVE  Does(s, selfDestruct(u, a), 0,
              World!Touch([w EXCEPT !.acct[a].balance = 0, !.acct[a].destroyed = TRUE], a))
  <1>1. /\ Does(s, u, 0, w) /\ u.objects[a] \in Object \cup {Nil}
        /\ exist(u, a) = Live(u.objects[a])
    BY LoadDoes
  <1>2. There(u, a) /\ Sound(u) /\ WorldOf(u) = w
    BY <1>1 DEF There, Live, Does
  <1> DEFINE yes == TRUE
  <1>3. Does(u, selfDestruct(u, a), 0, World!Touch(setAcct(w, a, putDestroyed(w.acct[a], 0, yes)), a))
    BY <1>2, DestructDoes
  <1> HIDE DEF yes
  <1>4. destroy(w, a, yes) = setAcct(w, a, putDestroyed(w.acct[a], 0, yes))
    BY DestroyedRecord
  <1>5. Does(s, selfDestruct(u, a), 0, World!Touch(setAcct(w, a, putDestroyed(w.acct[a], 0, yes)), a))
    BY <1>1, <1>3, DoesAfter
  <1>6. Does(s, selfDestruct(u, a), 0, World!Touch(destroy(w, a, yes), a))
    BY <1>4, <1>5, Zenon
  <1> QED BY <1>6, Zenon DEF yes, destroy

\* An account that was created in this transaction exists.
LEMMA CreatedExists ==
  ASSUME NEW s, Sound(s), NEW a \in Addrs, NEW u, u = load(s, a)
  PROVE  WorldOf(s).acct[a].created <=> exist(u, a) /\ u.objects[a].created
  <1>1. /\ u.objects[a] \in Object \cup {Nil} /\ exist(u, a) = Live(u.objects[a])
        /\ WorldOf(s).acct[a] = view(u.objects[a], u.disk, u.destruct, a)
    BY LoadDoes
  <1>2. view(u.objects[a], u.disk, u.destruct, a).created = (Live(u.objects[a]) /\ u.objects[a].created)
    BY Zenon DEF view
  <1> QED BY <1>1, <1>2

\* CreateAccount keeps the balance of an account that exists.
LEMMA CreateAccountDoes ==
  ASSUME NEW s, Sound(s), NEW a \in Addrs, NEW u, u = load(s, a), NEW w, w = WorldOf(s)
  PROVE  LET t == createObject(u, a)
         IN  Does(s, IF exist(u, a) THEN [t EXCEPT !.objects[a].balance = u.objects[a].balance] ELSE t, 0,
                  World!Touch([w EXCEPT !.acct[a] = [World!Newborn EXCEPT !.balance = w.acct[a].balance]], a))
  <1> DEFINE t == createObject(u, a)
             o == newObject(Nil)
             b == w.acct[a].balance
             W == World!Touch(setAcct(w, a, putBalance(World!Newborn, b)), a)
  <1>1. /\ Does(s, u, 0, w) /\ u.objects[a] \in Object \cup {Nil}
        /\ u.objects[a] = Nil => u.disk[a] = Nil
        /\ exist(u, a) = Live(u.objects[a])
        /\ w.acct[a] = view(u.objects[a], u.disk, u.destruct, a)
    BY LoadDoes
  <1>2. Sound(u) /\ WorldOf(u) = w /\ u \in DB
    BY <1>1, SoundFacts DEF Does
  <1>3. W = World!Touch([w EXCEPT !.acct[a] = [World!Newborn EXCEPT !.balance = w.acct[a].balance]], a)
    BY Zenon DEF setAcct, putBalance
  <1>4. /\ o \in Object /\ ~o.deleted /\ o.created
    BY NewObjectFacts
  <1>5. CASE exist(u, a)
    <2> DEFINE v == u.objects[a].balance
               p == putField(o, "balance", v)
               x == [t EXCEPT !.objects[a] = p]
    <2>1. There(u, a) /\ v \in Nat
      BY <1>1, <1>5, ObjectFacts DEF There, Live
    <2>2. v = b
      BY <1>2, <2>1, ThereFacts
    <2>3. PICK e : /\ Remembers(u, e, o) /\ Wrote(u, t, e, o)
                   /\ e.account = a /\ e.change \in {"create", "reset"} /\ bump(e) = 1
                   /\ e.change = "reset" <=> u.objects[a] # Nil
      BY <1>1, <1>2, CreateWrote
    <2>4. t.objects[a] = o
      BY <1>2, <2>3, WroteFacts
    <2>5. x = [t EXCEPT !.objects[a].balance = v]
      BY <2>4, Zenon DEF putField
    <2>6. p \in Object
      BY <1>4, <2>1 DEF putField, Object
    <2> HIDE DEF t, o, p, v
    <2>7. e \in Entry /\ e.change \in AccountChanges
      BY <2>3 DEF Remembers
    <2>8. Wrote(u, x, e, p)
      BY <1>2, <2>3, <2>6, <2>7, WroteAnew
    <2>9. Remembers(u, e, p)
      <3>1. e.change \notin ObjectChanges /\ e.change # "touch"
        BY <2>3 DEF ObjectChanges
      <3> QED BY <2>3, <2>6, <3>1 DEF Remembers
    <2> HIDE DEF x
    <2>10. Does(u, x, 0, World!Touch(setAcct(w, a, view(p, x.disk, x.destruct, a)), a))
      <3>1. bump(e) - 1 = 0
        BY <2>3
      <3> QED BY <1>2, <2>3, <2>8, <2>9, <3>1, DoesWrite
    <2>11. view(p, x.disk, x.destruct, a) = putBalance(World!Newborn, b)
      <3>1. a \in x.destruct \/ x.disk[a] = Nil
        BY <1>1, <2>3, <2>8 DEF Wrote
      <3>2. view(o, x.disk, x.destruct, a) = World!Newborn
        BY <3>1, ViewNew DEF o
      <3>3. view(p, x.disk, x.destruct, a) = putBalance(view(o, x.disk, x.destruct, a), v)
        BY <1>4, <2>1, ViewField DEF p
      <3> QED BY <2>2, <3>2, <3>3
    <2>12. Does(s, x, 0, W)
      BY <1>1, <2>10, <2>11, DoesAfter
    <2> HIDE DEF W
    <2> QED BY <1>3, <1>5, <2>5, <2>12, Zenon DEF t, v
  <1>6. CASE ~exist(u, a)
    <2>1. Does(u, t, 0, World!Touch(setAcct(w, a, World!Newborn), a))
      BY <1>1, <1>2, DoesCreate
    <2>2. b = 0
      <3>1. w.acct[a] = World!Nobody
        BY <1>1, <1>6, ViewGone
      <3>2. World!Nobody.balance = 0
        BY Zenon DEF World!Nobody
      <3> QED BY <3>1, <3>2
    <2>3. putBalance(World!Newborn, 0) = World!Newborn
      <3> DEFINE no == FALSE
                 yes == TRUE
                 N == World!NoStorage
      <3>1. World!Newborn = viewRecord(yes, 0, 0, 0, N, N, no, yes)
        BY NobodyFacts, Zenon
      <3> HIDE DEF no, yes, N
      <3>2. putBalance(viewRecord(yes, 0, 0, 0, N, N, no, yes), 0) = viewRecord(yes, 0, 0, 0, N, N, no, yes)
        BY PutBalance
      <3> QED BY <3>1, <3>2
    <2>4. Does(s, t, 0, W)
      BY <1>1, <2>1, <2>2, <2>3, DoesAfter
    <2> HIDE DEF W
    <2> QED BY <1>3, <1>6, <2>4, Zenon
  <1> QED BY <1>5, <1>6

(***************************************************************************)
(* Refund, logs, transient storage and access list.                         *)
(***************************************************************************)
\* The accounts are left alone.
SameAccounts(t, s) ==
    t.disk = s.disk /\ t.objects = s.objects /\ t.destruct = s.destruct /\ t.dirties = s.dirties

\* Steps that leave the accounts alone, by what they change.
LEMMA WorldBeside ==
  ASSUME NEW s, Sound(s), NEW t, Sound(t), SameAccounts(t, s), NEW w, w = WorldOf(s)
  PROVE  /\ t.logs = s.logs /\ t.transient = s.transient /\ t.access = s.access =>
               WorldOf(t) = putRefund(w, t.refund)
         /\ t.refund = s.refund /\ t.transient = s.transient /\ t.access = s.access =>
               WorldOf(t) = putLogs(w, t.logs)
         /\ t.refund = s.refund /\ t.logs = s.logs /\ t.access = s.access =>
               WorldOf(t) = putTransient(w, t.transient)
         /\ t.refund = s.refund /\ t.logs = s.logs /\ t.transient = s.transient =>
               WorldOf(t) = putWarm(w, WarmAddrs(t.access), WarmSlots(t.access))
         /\ t.refund = s.refund /\ t.logs = s.logs =>
               WorldOf(t) = putPrepared(w, WarmAddrs(t.access), WarmSlots(t.access), t.transient)
  <1> DEFINE A == Accts(s)
             T == Touched(s)
             P == WarmAddrs(s.access)
             Q == WarmSlots(s.access)
  <1>1. Accts(t) = A /\ Touched(t) = T
    BY DEF SameAccounts, Accts, Touched, loaded
  <1>2. /\ w = worldRecord(A, T, s.refund, s.logs, s.transient, P, Q)
        /\ WorldOf(t) = worldRecord(A, T, t.refund, t.logs, t.transient, WarmAddrs(t.access), WarmSlots(t.access))
    BY <1>1, WorldFacts
  <1> HIDE DEF A, T
  <1>3. ASSUME t.logs = s.logs, t.transient = s.transient, t.access = s.access
        PROVE  WorldOf(t) = putRefund(w, t.refund)
    <2>1. WorldOf(t) = worldRecord(A, T, t.refund, s.logs, s.transient, P, Q)
      BY <1>2, <1>3, Zenon
    <2> HIDE DEF P, Q
    <2> QED BY <1>2, <2>1, PutRefund
  <1>4. ASSUME t.refund = s.refund, t.transient = s.transient, t.access = s.access
        PROVE  WorldOf(t) = putLogs(w, t.logs)
    <2>1. WorldOf(t) = worldRecord(A, T, s.refund, t.logs, s.transient, P, Q)
      BY <1>2, <1>4, Zenon
    <2> HIDE DEF P, Q
    <2> QED BY <1>2, <2>1, PutLogs
  <1>5. ASSUME t.refund = s.refund, t.logs = s.logs, t.access = s.access
        PROVE  WorldOf(t) = putTransient(w, t.transient)
    <2>1. WorldOf(t) = worldRecord(A, T, s.refund, s.logs, t.transient, P, Q)
      BY <1>2, <1>5, Zenon
    <2> HIDE DEF P, Q
    <2> QED BY <1>2, <2>1, PutTransient
  <1>6. ASSUME t.refund = s.refund, t.logs = s.logs, t.transient = s.transient
        PROVE  WorldOf(t) = putWarm(w, WarmAddrs(t.access), WarmSlots(t.access))
    <2>1. WorldOf(t) = worldRecord(A, T, s.refund, s.logs, s.transient, WarmAddrs(t.access), WarmSlots(t.access))
      BY <1>2, <1>6, Zenon
    <2> HIDE DEF P, Q
    <2> QED BY <1>2, <2>1, PutWarm
  <1>7. ASSUME t.refund = s.refund, t.logs = s.logs
        PROVE  WorldOf(t) = putPrepared(w, WarmAddrs(t.access), WarmSlots(t.access), t.transient)
    <2>1. WorldOf(t) = worldRecord(A, T, s.refund, s.logs, t.transient, WarmAddrs(t.access), WarmSlots(t.access))
      BY <1>2, <1>7, Zenon
    <2> HIDE DEF P, Q
    <2> QED BY <1>2, <2>1, PutPrepared
  <1> QED BY <1>3, <1>4, <1>5, <1>6, <1>7

\* AddRefund and SubRefund.
LEMMA RefundDoes ==
  ASSUME NEW s, Sound(s), NEW n \in Nat
  PROVE  LET e == [change |-> "refund", prev |-> s.refund]
             t == [journal(s, e) EXCEPT !.refund = n]
         IN  Does(s, t, 0, [WorldOf(s) EXCEPT !.refund = n])
  <1> DEFINE e == [change |-> "refund", prev |-> s.refund]
             t == [journal(s, e) EXCEPT !.refund = n]
  <1>1. /\ Noted(s, t, e) /\ t.refund = n /\ t.logs = s.logs /\ t.transient = s.transient
        /\ t.access = s.access
    BY RefundNoted, Zenon
  <1> HIDE DEF t, e
  <1>2. Sound(t) /\ Follows(t, s, 0) /\ SameAccounts(t, s)
    BY <1>1, NotedSound DEF Noted, SameAccounts
  <1>3. WorldOf(t) = putRefund(WorldOf(s), n)
    BY <1>1, <1>2, WorldBeside
  <1>4. Does(s, t, 0, [WorldOf(s) EXCEPT !.refund = n])
    BY <1>2, <1>3, Zenon DEF Does, putRefund
  <1> QED BY <1>4, Zenon DEF t, e

\* AddLog.
LEMMA LogDoes ==
  ASSUME NEW s, Sound(s)
  PROVE  LET e == [change |-> "log"]
             t == [journal(s, e) EXCEPT !.logs = @ + 1]
         IN  Does(s, t, 0, [WorldOf(s) EXCEPT !.logs = @ + 1])
  <1> DEFINE e == [change |-> "log"]
             t == [journal(s, e) EXCEPT !.logs = @ + 1]
             w == WorldOf(s)
  <1>1. /\ Noted(s, t, e) /\ t.refund = s.refund /\ t.logs = s.logs + 1 /\ t.transient = s.transient
        /\ t.access = s.access
    BY LogNoted, Zenon
  <1> HIDE DEF t, e
  <1>2. Sound(t) /\ Follows(t, s, 0) /\ SameAccounts(t, s)
    BY <1>1, NotedSound DEF Noted, SameAccounts
  <1>3. WorldOf(t) = putLogs(w, s.logs + 1) /\ w.logs = s.logs
    BY <1>1, <1>2, WorldBeside, WorldShape
  <1> HIDE DEF w
  <1>4. Does(s, t, 0, [w EXCEPT !.logs = @ + 1])
    BY <1>2, <1>3, Zenon DEF Does, putLogs
  <1> QED BY <1>4, Zenon DEF t, e, w

\* SetTransientState.
LEMMA TransientDoes ==
  ASSUME NEW s, Sound(s), NEW a \in Addrs, NEW k \in Slots, NEW v \in Values
  PROVE  LET e == [change |-> "transient", account |-> a, key |-> k, prev |-> s.transient[a][k]]
             t == [journal(s, e) EXCEPT !.transient[a][k] = v]
         IN  Does(s, t, 0, [WorldOf(s) EXCEPT !.transient[a][k] = v])
  <1> DEFINE e == [change |-> "transient", account |-> a, key |-> k, prev |-> s.transient[a][k]]
             t == [journal(s, e) EXCEPT !.transient[a][k] = v]
             w == WorldOf(s)
             m == [s.transient EXCEPT ![a][k] = v]
  <1>1. /\ Noted(s, t, e) /\ t.refund = s.refund /\ t.logs = s.logs /\ t.access = s.access
        /\ t.transient = [s.transient EXCEPT ![a][k] = v]
    <2>1. NotedTransient(s, t, e, m)
      BY TransientNoted, Zenon
    <2> HIDE DEF t, e
    <2> QED BY <2>1 DEF NotedTransient
  <1> HIDE DEF t, e
  <1>2. Sound(t) /\ Follows(t, s, 0) /\ SameAccounts(t, s)
    BY <1>1, NotedSound DEF Noted, SameAccounts
  <1>3. w.transient = s.transient
    BY WorldShape
  <1>4. [w EXCEPT !.transient[a][k] = v] = putTransient(w, m)
    <2> HIDE DEF w
    <2> QED BY <1>3, Zenon DEF putTransient
  <1>5. WorldOf(t) = putTransient(w, m)
    <2>1. t.transient = m
      BY <1>1
    <2> HIDE DEF m
    <2> QED BY <1>1, <1>2, <2>1, WorldBeside
  <1> HIDE DEF w
  <1>6. Does(s, t, 0, [w EXCEPT !.transient[a][k] = v])
    BY <1>2, <1>4, <1>5, Zenon DEF Does
  <1> QED BY <1>6, Zenon DEF t, e, w

\* The warm addresses and slots as plain sets.
LEMMA WarmPairs ==
  ASSUME NEW al, NEW u, NEW a \in Addrs, NEW k \in Slots,
         \A b \in Addrs, l \in Slots : ContainsSlot(u, b, l) <=> ContainsSlot(al, b, l) \/ (b = a /\ l = k)
  PROVE  WarmSlots(u) = WarmSlots(al) \cup {<<a, k>>}
  <1>1. SUFFICES ASSUME NEW p \in Addrs \X Slots
                 PROVE  ContainsSlot(u, p[1], p[2]) <=> ContainsSlot(al, p[1], p[2]) \/ p = <<a, k>>
    BY DEF WarmSlots
  <1>2. p[1] \in Addrs /\ p[2] \in Slots /\ p = <<p[1], p[2]>>
    OBVIOUS
  <1>3. p = <<a, k>> <=> p[1] = a /\ p[2] = k
    BY <1>2
  <1> QED BY <1>2, <1>3

\* AddAddress makes one address warm.
LEMMA ListAddressWarm ==
  ASSUME NEW al \in AccessList, Table(al), NEW a \in Addrs, NEW u, u = listAddress(al, a)
  PROVE  /\ u \in AccessList /\ Table(u) /\ u.addresses[a] # Nil
         /\ WarmAddrs(u) = WarmAddrs(al) \cup {a} /\ WarmSlots(u) = WarmSlots(al)
  <1>1. /\ al.addresses \in [Addrs -> Nat \cup {Nil}] /\ al.slots \in Seq(SUBSET Slots)
        /\ Len(al.slots) \in Nat /\ Nil \notin Nat
    BY AccessFacts, NilFacts
  <1>2. CASE al.addresses[a] # Nil
    <2>1. u = al
      BY <1>2 DEF listAddress
    <2> QED BY <1>2, <2>1 DEF WarmAddrs
  <1>3. CASE al.addresses[a] = Nil
    <2> DEFINE m == [al.addresses EXCEPT ![a] = NoSlots]
    <2>1. u = [al EXCEPT !.addresses = m]
      BY <1>3, Zenon DEF listAddress
    <2>2. m \in [Addrs -> Nat \cup {Nil}] /\ m[a] = NoSlots /\ \A b \in Addrs : b # a => m[b] = al.addresses[b]
      BY <1>1 DEF NoSlots
    <2> HIDE DEF m
    <2>3. u \in AccessList /\ u.addresses = m /\ u.slots = al.slots
      BY <2>1, <2>2 DEF AccessList
    <2>4. \A b \in Addrs : /\ HasSlots(u, b) <=> HasSlots(al, b)
                           /\ HasSlots(u, b) => u.addresses[b] = al.addresses[b]
      BY <1>3, <2>2, <2>3 DEF HasSlots
    <2>5. Table(u)
      <3>1. \A b \in Addrs : HasSlots(u, b) => u.addresses[b] \in 1..Len(u.slots)
        BY <2>3, <2>4 DEF Table
      <3>2. ASSUME NEW i \in 1..Len(u.slots)
            PROVE  u.slots[i] # {} /\ \E b \in Addrs : u.addresses[b] = i
        <4>1. al.slots[i] # {} /\ \E b \in Addrs : al.addresses[b] = i
          BY <2>3, <3>2 DEF Table
        <4>2. PICK b \in Addrs : al.addresses[b] = i
          BY <4>1
        <4>3. i \in Nat /\ b # a
          BY <1>1, <1>3, <2>3, <4>2
        <4> QED BY <2>2, <2>3, <4>1, <4>2, <4>3
      <3>3. ASSUME NEW b \in Addrs, NEW c \in Addrs, HasSlots(u, b), u.addresses[b] = u.addresses[c]
            PROVE  b = c
        <4>1. HasSlots(u, c)
          BY <3>3 DEF HasSlots
        <4> QED BY <2>4, <3>3, <4>1 DEF Table
      <3> QED BY <3>1, <3>2, <3>3 DEF Table
    <2>6. WarmAddrs(u) = WarmAddrs(al) \cup {a}
      BY <1>1, <1>3, <2>2, <2>3 DEF WarmAddrs, NoSlots
    <2>7. \A b \in Addrs, l \in Slots : ContainsSlot(u, b, l) <=> ContainsSlot(al, b, l)
      BY <2>3, <2>4 DEF ContainsSlot, HasSlots
    <2>8. WarmSlots(u) = WarmSlots(al)
      BY <2>7 DEF WarmSlots
    <2> QED BY <1>1, <2>2, <2>3, <2>5, <2>6, <2>8 DEF NoSlots
  <1> QED BY <1>2, <1>3

\* AddSlot makes one address and one slot warm.
LEMMA ListSlotWarm ==
  ASSUME NEW al \in AccessList, Table(al), NEW a \in Addrs, NEW k \in Slots, NEW u, u = listSlot(al, a, k)
  PROVE  /\ u \in AccessList /\ Table(u)
         /\ WarmAddrs(u) = WarmAddrs(al) \cup {a} /\ WarmSlots(u) = WarmSlots(al) \cup {<<a, k>>}
  <1>1. /\ u \in AccessList /\ Table(u) /\ HasSlots(u, a)
        /\ \A b \in Addrs : b # a => /\ u.addresses[b] = al.addresses[b]
                                     /\ HasSlots(al, b) => SlotsOf(u, b) = SlotsOf(al, b)
        /\ HasSlots(al, a) => SlotsOf(u, a) = SlotsOf(al, a) \cup {k}
        /\ ~HasSlots(al, a) => SlotsOf(u, a) = {k}
    BY ListSlotFacts
  <1>2. WarmAddrs(u) = WarmAddrs(al) \cup {a}
    BY <1>1 DEF WarmAddrs, HasSlots
  <1>3. \A b, l : /\ ContainsSlot(u, b, l) <=> HasSlots(u, b) /\ l \in SlotsOf(u, b)
                  /\ ContainsSlot(al, b, l) <=> HasSlots(al, b) /\ l \in SlotsOf(al, b)
    BY DEF ContainsSlot, HasSlots, SlotsOf
  <1>4. \A b \in Addrs : b # a => (HasSlots(u, b) <=> HasSlots(al, b))
    BY <1>1 DEF HasSlots
  <1>5. \A b \in Addrs, l \in Slots :
           ContainsSlot(u, b, l) <=> ContainsSlot(al, b, l) \/ (b = a /\ l = k)
    BY <1>1, <1>3, <1>4
  <1>6. WarmSlots(u) = WarmSlots(al) \cup {<<a, k>>}
    BY <1>5, WarmPairs
  <1> QED BY <1>1, <1>2, <1>6

warm(w, p, q) == [w EXCEPT !.warmAddrs = @ \cup p, !.warmSlots = @ \cup q]

\* A step that lists p and q.
LEMMA WarmDoes ==
  ASSUME NEW s, Sound(s), NEW t, Sound(t), Follows(t, s, 0), SameAccounts(t, s), t.refund = s.refund,
         t.logs = s.logs, t.transient = s.transient, NEW p, NEW q,
         WarmAddrs(t.access) = WarmAddrs(s.access) \cup p, WarmSlots(t.access) = WarmSlots(s.access) \cup q
  PROVE  Does(s, t, 0, warm(WorldOf(s), p, q))
  <1> DEFINE w == WorldOf(s)
  <1>1. w.warmAddrs = WarmAddrs(s.access) /\ w.warmSlots = WarmSlots(s.access)
    BY WorldShape
  <1>2. WorldOf(t) = putWarm(w, WarmAddrs(t.access), WarmSlots(t.access))
    BY WorldBeside
  <1> HIDE DEF w
  <1>3. warm(w, p, q) = putWarm(w, w.warmAddrs \cup p, w.warmSlots \cup q)
    BY Zenon DEF warm, putWarm
  <1> QED BY <1>1, <1>2, <1>3 DEF Does, w

\* AddAddressToAccessList.
LEMMA AddAddressDoes ==
  ASSUME NEW s, Sound(s), NEW a \in Addrs, s.access.addresses[a] = Nil
  PROVE  LET t == [journal(s, [change |-> "listAddress", account |-> a]) EXCEPT !.access = listAddress(@, a)]
         IN  Does(s, t, 0, warm(WorldOf(s), {a}, {}))
  <1> DEFINE e == [change |-> "listAddress", account |-> a]
             t == [journal(s, e) EXCEPT !.access = listAddress(@, a)]
  <1>1. /\ Noted(s, t, e) /\ t.refund = s.refund /\ t.logs = s.logs /\ t.transient = s.transient
        /\ t.access = listAddress(s.access, a)
    BY AddressNoted, Zenon
  <1> HIDE DEF t, e
  <1>2. Sound(t) /\ Follows(t, s, 0) /\ SameAccounts(t, s)
    BY <1>1, NotedSound DEF Noted, SameAccounts
  <1>3. s.access \in AccessList /\ Table(s.access)
    BY SoundFacts, DBFacts DEF Good, Listed
  <1>4. WarmAddrs(t.access) = WarmAddrs(s.access) \cup {a} /\ WarmSlots(t.access) = WarmSlots(s.access) \cup {}
    BY <1>1, <1>3, ListAddressWarm
  <1>5. Does(s, t, 0, warm(WorldOf(s), {a}, {}))
    BY <1>1, <1>2, <1>4, WarmDoes
  <1> QED BY <1>5, Zenon DEF t, e

\* AddSlotToAccessList, the address being listed or not.
LEMMA AddSlotDoes ==
  ASSUME NEW s, Sound(s), NEW a \in Addrs, NEW k \in Slots, ~ContainsSlot(s.access, a, k)
  PROVE  LET u == IF s.access.addresses[a] = Nil THEN journal(s, [change |-> "listAddress", account |-> a]) ELSE s
             t == [journal(u, [change |-> "listSlot", account |-> a, key |-> k]) EXCEPT !.access = listSlot(@, a, k)]
         IN  Does(s, t, 0, warm(WorldOf(s), {a}, {<<a, k>>}))
  <1> DEFINE e == [change |-> "listAddress", account |-> a]
             f == [change |-> "listSlot", account |-> a, key |-> k]
             t(u) == [journal(u, f) EXCEPT !.access = listSlot(@, a, k)]
             u == IF s.access.addresses[a] = Nil THEN journal(s, e) ELSE s
  <1>1. s.access \in AccessList /\ Table(s.access)
    BY SoundFacts, DBFacts DEF Good, Listed
  <1>2. ASSUME NEW r, Sound(r), Follows(r, s, 0), SameAccounts(r, s), r.refund = s.refund,
               r.logs = s.logs, r.transient = s.transient, r.access = listSlot(s.access, a, k)
        PROVE  Does(s, r, 0, warm(WorldOf(s), {a}, {<<a, k>>}))
    <2>1. /\ WarmAddrs(r.access) = WarmAddrs(s.access) \cup {a}
          /\ WarmSlots(r.access) = WarmSlots(s.access) \cup {<<a, k>>}
      BY <1>1, <1>2, ListSlotWarm
    <2> QED BY <1>2, <2>1, WarmDoes
  <1>3. CASE s.access.addresses[a] = Nil
    <2> DEFINE r == t(journal(s, e))
    <2>1. /\ Sound(r) /\ Follows(r, s, 0)
          /\ r.disk = s.disk /\ r.objects = s.objects /\ r.destruct = s.destruct
          /\ r.dirties = s.dirties /\ r.refund = s.refund /\ r.logs = s.logs
          /\ r.transient = s.transient /\ r.access = listSlot(s.access, a, k)
      BY <1>3, SlotAnew, Zenon
    <2> HIDE DEF r
    <2>2. Does(s, r, 0, warm(WorldOf(s), {a}, {<<a, k>>}))
      BY <1>2, <2>1 DEF SameAccounts
    <2>3. u = journal(s, e)
      BY <1>3
    <2> HIDE DEF u
    <2>4. t(u) = r
      BY <2>3 DEF r
    <2> HIDE DEF t
    <2> QED BY <2>2, <2>4, Zenon DEF t, u
  <1>4. CASE s.access.addresses[a] # Nil
    <2> DEFINE r == t(s)
    <2>1. /\ Noted(s, r, f) /\ r.refund = s.refund /\ r.logs = s.logs /\ r.transient = s.transient
          /\ r.access = listSlot(s.access, a, k)
      BY <1>4, SlotNoted, ZenonT(60)
    <2> HIDE DEF r, f
    <2>2. Sound(r) /\ Follows(r, s, 0) /\ SameAccounts(r, s)
      BY <2>1, NotedSound DEF Noted, SameAccounts
    <2>3. Does(s, r, 0, warm(WorldOf(s), {a}, {<<a, k>>}))
      BY <1>2, <2>1, <2>2
    <2>4. u = s
      BY <1>4
    <2> HIDE DEF u
    <2>5. t(u) = r
      BY <2>4 DEF r
    <2> HIDE DEF t
    <2> QED BY <2>3, <2>5, Zenon DEF t, u, f
  <1> QED BY <1>3, <1>4

\* Nothing is warm on a new list.
LEMMA NewListFacts ==
  /\ newAccessList \in AccessList /\ Table(newAccessList)
  /\ WarmAddrs(newAccessList) = {} /\ WarmSlots(newAccessList) = {}
  <1> DEFINE al == newAccessList
  <1>1. al \in AccessList /\ al.slots = <<>> /\ Len(al.slots) = 0 /\ \A a \in Addrs : al.addresses[a] = Nil
    BY DEF newAccessList, AccessList
  <1> HIDE DEF al
  <1>2. \A a \in Addrs : ~HasSlots(al, a)
    BY <1>1 DEF HasSlots
  <1>3. Table(al)
    BY <1>1, <1>2 DEF Table
  <1>4. WarmAddrs(al) = {} /\ WarmSlots(al) = {}
    BY <1>1 DEF WarmAddrs, WarmSlots, ContainsSlot
  <1> QED BY <1>1, <1>3, <1>4 DEF al

\* The list with which a transaction begins.
begun(a, list) ==
    IF list = Nil THEN listAddress(newAccessList, a)
    ELSE listSlot(listAddress(listAddress(newAccessList, a), list.account), list.account, list.key)

\* What is warm on the list with which a transaction begins.
LEMMA BegunFacts ==
  ASSUME NEW a \in Addrs
  PROVE  /\ /\ begun(a, Nil) \in AccessList /\ Table(begun(a, Nil))
            /\ WarmAddrs(begun(a, Nil)) = {a} /\ WarmSlots(begun(a, Nil)) = {}
         /\ \A b \in Addrs, k \in Slots : LET l == [account |-> b, key |-> k] IN l # Nil =>
               /\ begun(a, l) \in AccessList /\ Table(begun(a, l))
               /\ WarmAddrs(begun(a, l)) = {a, b} /\ WarmSlots(begun(a, l)) = {<<b, k>>}
  <1> DEFINE al == listAddress(newAccessList, a)
  <1>1. al \in AccessList /\ Table(al) /\ WarmAddrs(al) = {a} /\ WarmSlots(al) = {}
    BY NewListFacts, ListAddressWarm
  <1> HIDE DEF al
  <1>2. begun(a, Nil) = al
    BY DEF begun, al
  <1>3. ASSUME NEW b \in Addrs, NEW k \in Slots, NEW l, l = [account |-> b, key |-> k], l # Nil
        PROVE  /\ begun(a, l) \in AccessList /\ Table(begun(a, l))
               /\ WarmAddrs(begun(a, l)) = {a, b} /\ WarmSlots(begun(a, l)) = {<<b, k>>}
    <2> DEFINE bl == listAddress(al, b)
    <2>1. bl \in AccessList /\ Table(bl) /\ WarmAddrs(bl) = {a, b} /\ WarmSlots(bl) = {}
      BY <1>1, ListAddressWarm
    <2> HIDE DEF bl
    <2>2. begun(a, l) = listSlot(bl, b, k)
      BY <1>3 DEF begun, bl, al
    <2>3. /\ begun(a, l) \in AccessList /\ Table(begun(a, l))
          /\ WarmAddrs(begun(a, l)) = WarmAddrs(bl) \cup {b}
          /\ WarmSlots(begun(a, l)) = WarmSlots(bl) \cup {<<b, k>>}
      BY <2>1, <2>2, ListSlotWarm
    <2> QED BY <2>1, <2>3
  <1> QED BY <1>1, <1>2, <1>3

prepared(w, p, q) == [w EXCEPT !.warmAddrs = p, !.warmSlots = q, !.transient = [a \in Addrs |-> World!NoStorage]]

\* Prepare, which is not journalled.
LEMMA PrepareDoes ==
  ASSUME NEW s, Sound(s), NEW al \in AccessList, Table(al),
         \A i \in DOMAIN s.entries : s.entries[i].change \notin {"listAddress", "listSlot", "transient"}
  PROVE  LET t == [s EXCEPT !.access = al, !.transient = [a \in Addrs |-> [k \in Slots |-> Zero]]]
         IN  /\ Sound(t) /\ WorldOf(t) = prepared(WorldOf(s), WarmAddrs(al), WarmSlots(al))
             /\ t.entries = s.entries
  <1> DEFINE m == [a \in Addrs |-> [k \in Slots |-> Zero]]
             t == [s EXCEPT !.access = al, !.transient = m]
  <1>0. s \in DB
    BY SoundFacts
  <1>1. m \in [Addrs -> [Slots -> Values]] /\ m = [a \in Addrs |-> World!NoStorage]
    BY NilFacts DEF World!NoStorage
  <1> HIDE DEF m
  <1>2. \A i \in 1..Len(s.entries) : s.entries[i].change \notin ListChanges
    BY <1>0, DBFacts DEF ListChanges
  <1>3. /\ Sound(t) /\ t.disk = s.disk /\ t.objects = s.objects /\ t.destruct = s.destruct
        /\ t.dirties = s.dirties /\ t.refund = s.refund /\ t.logs = s.logs
        /\ t.transient = m /\ t.access = al
    <2>1. Sound(t)
      BY <1>1, <1>2, PrepareSound, Zenon
    <2>2. /\ t.disk = s.disk /\ t.objects = s.objects /\ t.destruct = s.destruct
          /\ t.dirties = s.dirties /\ t.refund = s.refund /\ t.logs = s.logs
          /\ t.transient = m /\ t.access = al
      BY <1>0, <1>1 DEF DB
    <2> QED BY <2>1, <2>2
  <1>4. t.entries = s.entries
    BY <1>0 DEF DB
  <1> HIDE DEF t
  <1>5. WorldOf(t) = putPrepared(WorldOf(s), WarmAddrs(al), WarmSlots(al), m)
    BY <1>3, WorldBeside DEF SameAccounts
  <1>6. Sound(t) /\ WorldOf(t) = prepared(WorldOf(s), WarmAddrs(al), WarmSlots(al)) /\ t.entries = s.entries
    BY <1>1, <1>3, <1>4, <1>5, Zenon DEF prepared, putPrepared
  <1> QED BY <1>6, Zenon DEF t, m

\* What Finalise makes of an account, as plain values.
finalAcct(v, d, touched) ==
    IF v.destroyed \/ (d /\ touched /\ World!Empty(v)) THEN World!Nobody ELSE World!Survivor(v)

\* The end of a transaction leaves an account that is not there as it is.
LEMMA FinalNobody ==
  ASSUME NEW d, NEW touched
  PROVE  finalAcct(World!Nobody, d, touched) = World!Nobody
  <1> DEFINE n == World!NoStorage
             F == FALSE
             N == World!Nobody
  <1>1. N = viewRecord(F, 0, 0, 0, n, n, F, F) /\ ~F
    BY NobodyFacts
  <1> HIDE DEF N, n, F
  <1>2. N.storage = n
    BY <1>1, ViewRecordFields
  <1>3. World!Survivor(N) = putSurvived(N, n, F)
    BY <1>2, Zenon DEF World!Survivor, putSurvived, F
  <1>4. putSurvived(N, n, F) = N
    BY <1>1, PutSurvived
  <1> QED BY <1>3, <1>4, Zenon DEF finalAcct, N

\* The marker of an account that stays does not change.
MarkKept(o, d, D, E, a) == Gone(o, d) \/ (a \in D <=> a \in E)

\* The answers of a finalised object.
LEMMA FinalView ==
  ASSUME NEW o \in Object, ~o.deleted, NEW d \in BOOLEAN, NEW disk, NEW D, NEW E, NEW a,
         MarkKept(o, d, D, E, a), NEW p, p = finaliseObject(o, d), NEW v, v = view(o, disk, D, a)
  PROVE  /\ Gone(o, d) => view(p, disk, E, a) = World!Nobody
         /\ ~Gone(o, d) => view(p, disk, E, a) = World!Survivor(v)
         /\ Gone(o, d) <=> v.destroyed \/ (d /\ World!Empty(v))
  <1> DEFINE S == StorageOf(o, disk, D, a)
             F == FALSE
             T == TRUE
  <1>1. /\ p \in Object /\ p.balance = o.balance /\ p.nonce = o.nonce /\ p.code = o.code
        /\ p.selfDestructed = o.selfDestructed /\ ~p.created /\ p.origin = o.origin
        /\ p.deleted <=> o.deleted \/ Gone(o, d)
        /\ ~Gone(o, d) => /\ p.dirty = NoCache
                          /\ \A k \in Slots : p.pending[k] = IF o.dirty[k] # Nil THEN o.dirty[k]
                                                             ELSE o.pending[k]
    BY FinalObject, ZenonT(60)
  <1>2. v = viewRecord(T, o.balance, o.nonce, o.code, S, CommittedOf(o, disk, D, a), o.selfDestructed, o.created)
    BY ViewLive
  <1> HIDE DEF S, T, F
  <1>3. /\ v.balance = o.balance /\ v.nonce = o.nonce /\ v.code = o.code /\ v.storage = S
        /\ v.destroyed = o.selfDestructed
    BY <1>2, ViewRecordFields
  <1>4. Gone(o, d) <=> v.destroyed \/ (d /\ World!Empty(v))
    BY <1>3, Zenon DEF Gone, empty, World!Empty
  <1>5. CASE Gone(o, d)
    <2>1. view(p, disk, E, a) = World!Nobody
      BY <1>1, <1>5, ViewGone DEF Live
    <2> QED BY <1>4, <1>5, <2>1
  <1>6. CASE ~Gone(o, d)
    <2>1. \A k \in Slots : /\ committedOf(p, disk, E, a, k) = stateOf(o, disk, D, a, k)
                           /\ stateOf(p, disk, E, a, k) = stateOf(o, disk, D, a, k)
      <3> TAKE k \in Slots
      <3>1. p.dirty[k] = Nil
        BY <1>1, <1>6 DEF NoCache
      <3>2. committedOf(p, disk, E, a, k) = stateOf(o, disk, D, a, k)
        BY <1>1, <1>6, NilFacts DEF committedOf, stateOf, MarkKept
      <3> QED BY <3>1, <3>2 DEF stateOf
    <2>2. StorageOf(p, disk, E, a) = S /\ CommittedOf(p, disk, E, a) = S
      BY <2>1 DEF StorageOf, CommittedOf, S
    <2>3. p.created = F
      BY <1>1, ObjectFacts DEF F
    <2>4. view(p, disk, E, a) = viewRecord(T, p.balance, p.nonce, p.code, StorageOf(p, disk, E, a),
                                           CommittedOf(p, disk, E, a), p.selfDestructed, p.created)
      <3>1. ~p.deleted
        BY <1>1, <1>6
      <3>2. ASSUME NEW q \in Object, ~q.deleted
            PROVE  view(q, disk, E, a) = viewRecord(T, q.balance, q.nonce, q.code, StorageOf(q, disk, E, a),
                                           CommittedOf(q, disk, E, a), q.selfDestructed, q.created)
        BY <3>2, ViewLive, Zenon DEF T
      <3> QED BY <1>1, <3>1, <3>2
    <2>5. view(p, disk, E, a) = viewRecord(T, o.balance, o.nonce, o.code, S, S, o.selfDestructed, F)
      BY <1>1, <2>2, <2>3, <2>4, Zenon
    <2>6. putSurvived(v, S, F) = viewRecord(T, o.balance, o.nonce, o.code, S, S, o.selfDestructed, F)
      BY <1>2, PutSurvived
    <2>7. World!Survivor(v) = putSurvived(v, S, F)
      BY <1>3, Zenon DEF World!Survivor, putSurvived, F
    <2> QED BY <1>4, <1>6, <2>5, <2>6, <2>7
  <1> QED BY <1>5, <1>6

\* An account that Finalise passes over has nothing to commit.
LEMMA UnchangedView ==
  ASSUME NEW s, Sound(s), NEW a \in Addrs, a \notin Changed(s), NEW d,
         NEW v, v = view(loaded(s, a), s.disk, s.destruct, a)
  PROVE  finalAcct(v, d, a \in Touched(s)) = v
  <1> DEFINE o == loaded(s, a)
             S == StorageOf(o, s.disk, s.destruct, a)
             C == CommittedOf(o, s.disk, s.destruct, a)
             F == FALSE
             T == TRUE
  <1>1. o \in Object \cup {Nil}
    BY LoadDoes
  <1>2. o # Nil /\ ~o.deleted
         => /\ ~o.selfDestructed /\ ~o.created
            /\ \A k \in Slots : stateOf(o, s.disk, s.destruct, a, k) = committedOf(o, s.disk, s.destruct, a, k)
    BY UnchangedClean
  <1>3. Present(s)
    BY SoundFacts DEF Good
  <1>4. o # Nil => a \notin Touched(s)
    BY <1>3 DEF Touched, Changed, Present, loaded, loadedObject
  <1> HIDE DEF o
  <1>5. CASE ~Live(o)
    <2>1. v = World!Nobody
      BY <1>5, ViewGone DEF o
    <2> QED BY <2>1, FinalNobody
  <1>6. CASE Live(o)
    <2>1. /\ o \in Object /\ ~o.deleted /\ ~o.selfDestructed /\ ~o.created /\ a \notin Touched(s) /\ S = C
      BY <1>1, <1>2, <1>4, <1>6 DEF Live, StorageOf, CommittedOf
    <2>2. o.selfDestructed = F /\ o.created = F
      BY <2>1, ObjectFacts
    <2>3. v = viewRecord(T, o.balance, o.nonce, o.code, S, C, o.selfDestructed, o.created)
      BY <2>1, ViewLive DEF o
    <2> HIDE DEF S, C, T, F
    <2>4. v = viewRecord(T, o.balance, o.nonce, o.code, S, S, F, F)
      BY <2>1, <2>2, <2>3, Zenon
    <2>5. v.storage = S /\ v.destroyed = F
      BY <2>4, ViewRecordFields
    <2>6. putSurvived(v, S, F) = v
      BY <2>4, PutSurvived
    <2>7. World!Survivor(v) = putSurvived(v, S, F)
      BY <2>5, Zenon DEF World!Survivor, putSurvived, F
    <2> QED BY <2>1, <2>5, <2>6, <2>7, Zenon DEF finalAcct, F
  <1> QED BY <1>5, <1>6

finalised(w, d, left) ==
    [w EXCEPT !.acct = [a \in Addrs |->
                 IF w.acct[a].destroyed \/ (d /\ a \in w.touched /\ World!Empty(w.acct[a]))
                 THEN World!Nobody ELSE World!Survivor(w.acct[a])],
              !.touched = left, !.refund = 0]

\* Finalise does to the world what the end of a transaction does; only Ripemd may stay touched.
LEMMA FinaliseDoes ==
  ASSUME NEW s, Sound(s), NEW d \in BOOLEAN, NEW t, t = finalState(s, d)
  PROVE  /\ Sound(t) /\ WorldOf(t) = finalised(WorldOf(s), d, Touched(t)) /\ t.entries = <<>>
         /\ Touched(t) \subseteq WorldOf(s).touched \cap {Ripemd}
  <1> DEFINE w == WorldOf(s)
             A == [a \in Addrs |-> finalAcct(w.acct[a], d, a \in w.touched)]
  <1>1. Sound(t)
    BY FinaliseSound
  <1>2. /\ t \in DB /\ t.disk = s.disk /\ t.objects = finalObjects(s, d)
        /\ t.destruct = finalDestruct(s, d) /\ t.refund = 0 /\ t.logs = s.logs
        /\ t.transient = s.transient /\ t.access = s.access /\ t.entries = <<>>
        /\ s.entries = <<>> => t.dirties = s.dirties
        /\ s.entries # <<>> => t.dirties = [a \in Addrs |-> 0]
    BY FinalFacts, Zenon
  <1>3. Good(s) /\ s \in DB /\ s.objects \in [Addrs -> Object \cup {Nil}] /\ s.entries \in Seq(Entry)
    BY SoundFacts, DBFacts
  <1>4. /\ w = worldRecord(Accts(s), Touched(s), s.refund, s.logs, s.transient,
                           WarmAddrs(s.access), WarmSlots(s.access))
        /\ w.touched = Touched(s)
        /\ \A a \in Addrs : w.acct[a] = view(loaded(s, a), s.disk, s.destruct, a)
    BY WorldShape
  <1>5. WorldOf(t) = worldRecord(Accts(t), Touched(t), t.refund, t.logs, t.transient,
                                 WarmAddrs(t.access), WarmSlots(t.access))
    BY <1>1, WorldFacts
  <1> HIDE DEF w
  <1>6. ASSUME NEW a \in Addrs
        PROVE  view(loaded(t, a), t.disk, t.destruct, a) = finalAcct(w.acct[a], d, a \in w.touched)
    <2> DEFINE v == view(loaded(s, a), s.disk, s.destruct, a)
    <2>1. CASE a \in Changed(s)
      <3> DEFINE o == s.objects[a]
                 p == finaliseObject(o, d)
      <3>1. o \in Object /\ loaded(s, a) = o /\ a \in Touched(s)
        BY <1>3, <2>1, NilFacts DEF Changed, loaded, loadedObject, Touched
      <3>2. /\ p \in Object /\ (p.deleted <=> o.deleted \/ Gone(o, d))
        BY <3>1, FinalObject
      <3>3. finalObjects(s, d)[a] = p
        BY <2>1 DEF finalObjects
      <3>4. t.objects[a] = p /\ loaded(t, a) = p
        BY <1>2, <3>2, <3>3, NilFacts DEF loaded, loadedObject
      <3>5. a \in t.destruct <=> a \in s.destruct \/ p.deleted
        BY <1>2, <2>1, <3>3 DEF finalDestruct
      <3> HIDE DEF o, p
      <3>6. CASE o.deleted
        <4>1. view(p, t.disk, t.destruct, a) = World!Nobody
          BY <3>2, <3>6, ViewGone DEF Live
        <4>2. w.acct[a] = World!Nobody
          BY <1>4, <3>1, <3>6, ViewGone DEF Live
        <4> QED BY <3>4, <4>1, <4>2, FinalNobody
      <3>7. CASE ~o.deleted
        <4>1. MarkKept(o, d, s.destruct, t.destruct, a)
          BY <3>2, <3>5, <3>7 DEF MarkKept
        <4>2. a \in w.touched /\ o \in Object /\ ~o.deleted
          BY <1>4, <3>1, <3>7
        <4>3. view(p, s.disk, t.destruct, a) = finalAcct(view(o, s.disk, s.destruct, a), d, a \in w.touched)
          <5> DEFINE v1 == view(o, s.disk, s.destruct, a)
          <5>1. p = finaliseObject(o, d)
            BY DEF p
          <5>2. /\ Gone(o, d) => view(p, s.disk, t.destruct, a) = World!Nobody
                /\ ~Gone(o, d) => view(p, s.disk, t.destruct, a) = World!Survivor(v1)
                /\ Gone(o, d) <=> v1.destroyed \/ (d /\ World!Empty(v1))
            BY <4>1, <4>2, <5>1, FinalView
          <5> HIDE DEF v1
          <5>3. view(p, s.disk, t.destruct, a) = finalAcct(v1, d, a \in w.touched)
            BY <4>2, <5>2, Zenon DEF finalAcct
          <5> QED BY <5>3 DEF v1
        <4> QED BY <1>2, <1>4, <3>1, <3>4, <4>3, Zenon
      <3> QED BY <3>6, <3>7
    <2>2. CASE a \notin Changed(s)
      <3>1. t.objects[a] = s.objects[a] /\ loaded(t, a) = loaded(s, a)
        BY <1>2, <2>2 DEF finalObjects, loaded
      <3>2. a \in t.destruct <=> a \in s.destruct
        BY <1>2, <2>2 DEF finalDestruct
      <3>3. view(loaded(t, a), t.disk, t.destruct, a) = view(loaded(s, a), s.disk, s.destruct, a)
        BY <1>2, <3>1, <3>2, ViewMark
      <3>4. finalAcct(v, d, a \in Touched(s)) = v
        BY <2>2, UnchangedView
      <3> QED BY <1>4, <3>3, <3>4
    <2> QED BY <2>1, <2>2
  <1>7. Accts(t) = A
    BY <1>6 DEF Accts
  <1>8. finalised(w, d, Touched(t)) = putFinalised(w, A, Touched(t), 0)
    BY Zenon DEF finalised, putFinalised, finalAcct
  <1> HIDE DEF A
  <1>9. putFinalised(w, A, Touched(t), 0)
          = worldRecord(A, Touched(t), 0, s.logs, s.transient, WarmAddrs(s.access), WarmSlots(s.access))
    BY <1>4, PutFinalised
  <1>10. WorldOf(t) = finalised(w, d, Touched(t))
    BY <1>2, <1>5, <1>7, <1>8, <1>9
  <1>11. Touched(t) \subseteq w.touched \cap {Ripemd}
    <2>1. CASE s.entries # <<>>
      BY <1>2, <2>1 DEF Touched
    <2>2. CASE s.entries = <<>>
      <3>1. ASSUME NEW a \in Addrs, a # Ripemd
            PROVE  s.dirties[a] = 0
        <4>1. Positions(s.entries, ChangesOf(a)) = {}
          BY <1>3, <2>2 DEF Positions
        <4>2. Count(s.entries, ChangesOf(a)) = 0
          BY <4>1, FS_EmptySet DEF Count
        <4> QED BY <1>3, <3>1, <4>2 DEF Good, Counted
      <3> QED BY <1>2, <1>4, <2>2, <3>1 DEF Touched
    <2> QED BY <2>1, <2>2
  <1> QED BY <1>1, <1>2, <1>10, <1>11 DEF w

\* The object of an account reads as the account, and has no change to finalise.
Holds(o, disk, a, acct) ==
    /\ acct = Nil => o = Nil
    /\ acct # Nil => /\ o \in Object /\ ~o.deleted /\ ~o.selfDestructed /\ ~o.created
                     /\ o.balance = acct.balance /\ o.nonce = acct.nonce /\ o.code = acct.code
                     /\ \A k \in Slots : /\ stateOf(o, disk, {}, a, k) = acct.storage[k]
                                         /\ committedOf(o, disk, {}, a, k) = acct.storage[k]

settle(v, x, b, n, c, st) ==
    [v EXCEPT !.exists = x, !.balance = b, !.nonce = n, !.code = c, !.storage = st, !.committed = st]

\* The record of an account of the alloc.
LEMMA SettleRecord ==
  ASSUME NEW e, NEW b, NEW n, NEW c, NEW s, NEW m, NEW d, NEW r, NEW x, NEW y, NEW z, NEW u, NEW st
  PROVE  settle(viewRecord(e, b, n, c, s, m, d, r), x, y, z, u, st) = viewRecord(x, y, z, u, st, st, d, r)
  <1> DEFINE v0 == viewRecord(e, b, n, c, s, m, d, r)
             v1 == [v0 EXCEPT !.exists = x]
             w == putStorage(putCode(putNonce(putBalance(v1, y), z), u), st)
  <1>1. v1 = viewRecord(x, b, n, c, s, m, d, r)
    BY DEF viewRecord
  <1>2. settle(v0, x, y, z, u, st) = [w EXCEPT !.committed = st]
    <2> HIDE DEF v0
    <2> QED BY DEF settle, putStorage, putCode, putNonce, putBalance
  <1> HIDE DEF v1
  <1>3. w = viewRecord(x, y, z, u, st, m, d, r)
    BY <1>1, PutBalance, PutNonce, PutCode, PutStorage
  <1> HIDE DEF w
  <1>4. [viewRecord(x, y, z, u, st, m, d, r) EXCEPT !.committed = st] = viewRecord(x, y, z, u, st, st, d, r)
    BY DEF viewRecord
  <1> QED BY <1>2, <1>3, <1>4

\* Such an object answers what the account holds.
LEMMA HoldsView ==
  ASSUME NEW o, NEW disk, NEW a, NEW acct \in Account \cup {Nil}, Holds(o, disk, a, acct)
  PROVE  view(o, disk, {}, a) = World!Settled(acct)
  <1>1. CASE acct = Nil
    <2>1. view(o, disk, {}, a) = World!Nobody
      BY <1>1, ViewGone DEF Holds, Live
    <2> QED BY <1>1, <2>1, Zenon DEF World!Settled
  <1>2. CASE acct # Nil
    <2> DEFINE st == acct.storage
               F == FALSE
               T == TRUE
    <2>1. /\ o \in Object /\ ~o.deleted /\ ~o.selfDestructed /\ ~o.created
          /\ o.balance = acct.balance /\ o.nonce = acct.nonce /\ o.code = acct.code
          /\ \A k \in Slots : /\ stateOf(o, disk, {}, a, k) = st[k] /\ committedOf(o, disk, {}, a, k) = st[k]
      BY <1>2 DEF Holds
    <2>2. st \in [Slots -> Values]
      BY <1>2 DEF Account
    <2>3. StorageOf(o, disk, {}, a) = st /\ CommittedOf(o, disk, {}, a) = st
      BY <2>1, <2>2 DEF StorageOf, CommittedOf
    <2>4. o.selfDestructed = F /\ o.created = F
      BY <2>1, ObjectFacts
    <2>5. view(o, disk, {}, a) = viewRecord(T, o.balance, o.nonce, o.code, StorageOf(o, disk, {}, a),
                                            CommittedOf(o, disk, {}, a), o.selfDestructed, o.created)
      BY <2>1, ViewLive
    <2>6. World!Nobody = viewRecord(F, 0, 0, 0, World!NoStorage, World!NoStorage, F, F)
      BY NobodyFacts
    <2>7. World!Settled(acct) = settle(World!Nobody, T, acct.balance, acct.nonce, acct.code, st)
      BY <1>2, Zenon DEF World!Settled, settle
    <2> HIDE DEF st, F, T
    <2>8. World!Settled(acct) = viewRecord(T, acct.balance, acct.nonce, acct.code, st, st, F, F)
      BY <2>6, <2>7, SettleRecord
    <2> QED BY <2>1, <2>3, <2>4, <2>5, <2>8, Zenon
  <1> QED BY <1>1, <1>2

\* A StateDB with nothing done yet, field by field.
LEMMA StateDBFields ==
  ASSUME NEW disk \in [Addrs -> Account \cup {Nil}], NEW objects \in [Addrs -> Object \cup {Nil}],
         NEW s, s = StateDB(disk, objects)
  PROVE  /\ s \in DB /\ s.disk = disk /\ s.objects = objects /\ s.destruct = {} /\ s.refund = 0 /\ s.logs = 0
         /\ s.transient = [a \in Addrs |-> World!NoStorage] /\ s.access = newAccessList
         /\ s.entries = <<>> /\ s.dirties = [a \in Addrs |-> 0]
  <1> DEFINE m == [a \in Addrs |-> [k \in Slots |-> Zero]]
             z == [a \in Addrs |-> 0]
             al == newAccessList
             q == <<>>
  <1>1. m \in [Addrs -> [Slots -> Values]] /\ m = [a \in Addrs |-> World!NoStorage]
    BY NilFacts DEF World!NoStorage
  <1>2. z \in [Addrs -> Int] /\ al \in AccessList /\ q \in Seq(Entry)
    BY NewListFacts
  <1>3. s = [disk |-> disk, objects |-> objects, destruct |-> {}, refund |-> 0, logs |-> 0,
             transient |-> m, access |-> al, entries |-> q, dirties |-> z]
    BY Zenon DEF StateDB
  <1> HIDE DEF m, z, al, q
  <1>4. /\ s \in DB /\ s.disk = disk /\ s.objects = objects /\ s.destruct = {} /\ s.refund = 0 /\ s.logs = 0
        /\ s.transient = m /\ s.access = al /\ s.entries = q /\ s.dirties = z
    BY <1>1, <1>2, <1>3 DEF DB
  <1> QED BY <1>1, <1>4 DEF al, q, z

\* It is sound.
LEMMA BeginSound ==
  ASSUME NEW disk \in [Addrs -> Account \cup {Nil}], NEW objects \in [Addrs -> Object \cup {Nil}],
         NEW s, s = StateDB(disk, objects), NEW alloc \in [Addrs -> Account \cup {Nil}],
         \A a \in Addrs : Holds(loaded(s, a), disk, a, alloc[a])
  PROVE  Sound(s)
  <1>1. /\ s \in DB /\ s.disk = disk /\ s.objects = objects /\ s.destruct = {} /\ s.refund = 0 /\ s.logs = 0
        /\ s.access = newAccessList /\ s.entries = <<>> /\ \A a \in Addrs : s.dirties[a] = 0
    BY StateDBFields
  <1>2. Len(s.entries) = 0
    BY <1>1
  <1>3. Present(s)
    BY <1>1, <1>2 DEF Present
  <1>4. \A P : Count(s.entries, P) = 0
    BY <1>2, FS_EmptySet DEF Count, Positions
  <1>5. Counted(s)
    BY <1>1, <1>4 DEF Counted
  <1>6. Listed(s.access, s.entries)
    <2>1. Table(s.access)
      BY <1>1, NewListFacts
    <2>2. \A a \in Addrs : ~HasSlots(s.access, a)
      BY <1>1 DEF HasSlots, newAccessList
    <2>3. SlotsListed(s.access, s.entries) /\ AddrsListed(s.access, s.entries)
      BY <1>2 DEF SlotsListed, AddrsListed, SlotAt, AddrAt
    <2>4. Ordered(s.access, s.entries)
      BY <2>2 DEF Ordered
    <2> QED BY <2>1, <2>3, <2>4 DEF Listed
  <1>7. Clean(s)
    <2>1. ASSUME NEW a \in Addrs, loaded(s, a) # Nil, ~loaded(s, a).deleted
          PROVE  /\ ~loaded(s, a).selfDestructed /\ ~loaded(s, a).created
                 /\ \A k \in Slots : stateOf(loaded(s, a), s.disk, s.destruct, a, k)
                                       = committedOf(loaded(s, a), s.disk, s.destruct, a, k)
      <3>1. Holds(loaded(s, a), disk, a, alloc[a]) /\ alloc[a] # Nil
        BY <2>1 DEF Holds
      <3> QED BY <1>1, <3>1 DEF Holds
    <2> QED BY <1>1, <2>1, Zenon DEF Clean
  <1>8. Kept(s)
    <2>1. revert(s, 0) = s
      BY <1>2, RevertNothing
    <2>2. \A n \in 0..Len(s.entries) : n = 0
      BY <1>2
    <2> QED BY <1>7, <2>1, <2>2 DEF Kept
  <1> QED BY <1>1, <1>3, <1>5, <1>6, <1>8 DEF Sound, Good

begin(alloc) ==
    [acct |-> [a \in Addrs |-> World!Settled(alloc[a])], touched |-> {}, refund |-> 0,
     logs |-> 0, transient |-> [a \in Addrs |-> World!NoStorage], warmAddrs |-> {}, warmSlots |-> {}]

\* It reads as the alloc.
LEMMA BeginWorld ==
  ASSUME NEW disk \in [Addrs -> Account \cup {Nil}], NEW objects \in [Addrs -> Object \cup {Nil}],
         NEW s, s = StateDB(disk, objects), NEW alloc \in [Addrs -> Account \cup {Nil}],
         \A a \in Addrs : Holds(loaded(s, a), disk, a, alloc[a])
  PROVE  Sound(s) /\ WorldOf(s) = begin(alloc)
  <1>1. /\ s \in DB /\ s.disk = disk /\ s.objects = objects /\ s.destruct = {} /\ s.refund = 0 /\ s.logs = 0
        /\ s.transient = [a \in Addrs |-> World!NoStorage] /\ s.access = newAccessList
        /\ \A a \in Addrs : s.dirties[a] = 0
    BY StateDBFields
  <1>2. Sound(s)
    BY BeginSound
  <1>3. WorldOf(s) = worldRecord(Accts(s), Touched(s), s.refund, s.logs, s.transient,
                                 WarmAddrs(s.access), WarmSlots(s.access))
    BY <1>2, WorldFacts
  <1>4. \A a \in Addrs : view(loaded(s, a), s.disk, s.destruct, a) = World!Settled(alloc[a])
    <2> TAKE a \in Addrs
    <2>1. alloc[a] \in Account \cup {Nil} /\ Holds(loaded(s, a), disk, a, alloc[a])
      OBVIOUS
    <2>2. view(loaded(s, a), disk, {}, a) = World!Settled(alloc[a])
      BY <2>1, HoldsView
    <2> QED BY <1>1, <2>2
  <1>5. Accts(s) = [a \in Addrs |-> World!Settled(alloc[a])]
    BY <1>4 DEF Accts
  <1>6. Touched(s) = {}
    BY <1>1 DEF Touched
  <1>7. WarmAddrs(s.access) = {} /\ WarmSlots(s.access) = {}
    BY <1>1, NewListFacts
  <1>8. WorldOf(s) = begin(alloc)
    BY <1>1, <1>3, <1>5, <1>6, <1>7, Zenon DEF worldRecord, begin
  <1> QED BY <1>2, <1>8

\* Opened over a root, or filled, committed and used on: the same world.
LEMMA OpenDoes ==
  ASSUME NEW alloc \in [Addrs -> Account \cup {Nil}]
  PROVE  LET s == StateDB(alloc, [a \in Addrs |-> Nil]) IN Sound(s) /\ WorldOf(s) = begin(alloc)
  <1> DEFINE O == [a \in Addrs |-> Nil]
             s == StateDB(alloc, O)
  <1>1. O \in [Addrs -> Object \cup {Nil}]
    OBVIOUS
  <1>2. s.disk = alloc /\ s.objects = O
    BY <1>1, StateDBFields
  <1>3. ASSUME NEW a \in Addrs
        PROVE  Holds(loaded(s, a), alloc, a, alloc[a])
    <2> DEFINE o == newObject(alloc[a])
    <2>1. alloc[a] \in Account \cup {Nil}
      OBVIOUS
    <2>2. loaded(s, a) = IF alloc[a] # Nil THEN o ELSE Nil
      BY <1>2 DEF loaded, loadedObject
    <2>3. CASE alloc[a] = Nil
      BY <2>2, <2>3 DEF Holds
    <2>4. CASE alloc[a] # Nil
      <3>1. /\ o \in Object /\ o.dirty = NoCache /\ o.pending = NoCache /\ o.origin = NoCache
            /\ ~o.selfDestructed /\ ~o.deleted /\ ~o.created
            /\ o.balance = alloc[a].balance /\ o.nonce = alloc[a].nonce /\ o.code = alloc[a].code
        BY <2>1, <2>4, NewObjectFacts
      <3> HIDE DEF o
      <3>2. \A k \in Slots : /\ stateOf(o, alloc, {}, a, k) = alloc[a].storage[k]
                             /\ committedOf(o, alloc, {}, a, k) = alloc[a].storage[k]
        BY <2>4, <3>1 DEF stateOf, committedOf, NoCache
      <3> QED BY <2>2, <2>4, <3>1, <3>2 DEF Holds
    <2> QED BY <2>3, <2>4
  <1> HIDE DEF O, s
  <1>4. s = StateDB(alloc, O)
    BY DEF s
  <1>5. Sound(s) /\ WorldOf(s) = begin(alloc)
    BY <1>1, <1>3, <1>4, BeginWorld
  <1> QED BY <1>5 DEF s, O

\* The object that the commit of the alloc leaves.
LEMMA CommittedFacts ==
  ASSUME NEW acct \in Account, acct # Nil
  PROVE  LET o == committedObject(acct)
         IN  /\ o \in Object /\ o.dirty = NoCache /\ o.pending = NoCache /\ o.origin = acct.storage
             /\ ~o.selfDestructed /\ ~o.deleted /\ ~o.created
             /\ o.balance = acct.balance /\ o.nonce = acct.nonce /\ o.code = acct.code
  <1> DEFINE n == newObject(acct)
             o == committedObject(acct)
             st == acct.storage
  <1>1. /\ n \in Object /\ n.dirty = NoCache /\ n.pending = NoCache
        /\ ~n.selfDestructed /\ ~n.deleted /\ ~n.created
        /\ n.balance = acct.balance /\ n.nonce = acct.nonce /\ n.code = acct.code
    BY NewObjectFacts
  <1>2. st \in [Slots -> Values \cup {Nil}]
    BY DEF Account
  <1>3. o = [n EXCEPT !.origin = st]
    BY Zenon DEF committedObject
  <1> HIDE DEF n, st, o
  <1>4. o \in Object /\ o.origin = st /\ o.dirty = n.dirty /\ o.pending = n.pending
    BY <1>1, <1>2, <1>3 DEF Object
  <1>5. o.selfDestructed = n.selfDestructed /\ o.deleted = n.deleted /\ o.created = n.created
    BY <1>1, <1>3 DEF Object
  <1>6. o.balance = n.balance /\ o.nonce = n.nonce /\ o.code = n.code
    BY <1>1, <1>3 DEF Object
  <1> QED BY <1>1, <1>4, <1>5, <1>6, Zenon DEF o, st

\* MakeOffTheChainStateDB.
LEMMA MakeDoes ==
  ASSUME NEW alloc \in [Addrs -> Account \cup {Nil}]
  PROVE  LET s == StateDB([a \in Addrs |-> Nil],
                          [a \in Addrs |-> IF alloc[a] = Nil THEN Nil ELSE committedObject(alloc[a])])
         IN  Sound(s) /\ WorldOf(s) = begin(alloc)
  <1> DEFINE N == [a \in Addrs |-> Nil]
             O == [a \in Addrs |-> IF alloc[a] = Nil THEN Nil ELSE committedObject(alloc[a])]
             s == StateDB(N, O)
  <1>1. ASSUME NEW a \in Addrs, alloc[a] # Nil, NEW o, o = committedObject(alloc[a])
        PROVE  /\ o \in Object /\ o.dirty = NoCache /\ o.pending = NoCache /\ o.origin = alloc[a].storage
               /\ ~o.selfDestructed /\ ~o.deleted /\ ~o.created
               /\ o.balance = alloc[a].balance /\ o.nonce = alloc[a].nonce /\ o.code = alloc[a].code
    <2>1. alloc[a] \in Account
      BY <1>1
    <2> QED BY <1>1, <2>1, CommittedFacts
  <1>2. N \in [Addrs -> Account \cup {Nil}] /\ O \in [Addrs -> Object \cup {Nil}]
    BY <1>1
  <1>3. s.disk = N /\ s.objects = O
    BY <1>2, StateDBFields
  <1>4. ASSUME NEW a \in Addrs
        PROVE  Holds(loaded(s, a), N, a, alloc[a])
    <2> DEFINE o == committedObject(alloc[a])
    <2>1. loaded(s, a) = IF alloc[a] # Nil THEN o ELSE Nil
      BY <1>3 DEF loaded, loadedObject
    <2>2. CASE alloc[a] = Nil
      BY <2>1, <2>2 DEF Holds
    <2>3. CASE alloc[a] # Nil
      <3>1. /\ o \in Object /\ o.dirty = NoCache /\ o.pending = NoCache /\ o.origin = alloc[a].storage
            /\ ~o.selfDestructed /\ ~o.deleted /\ ~o.created
            /\ o.balance = alloc[a].balance /\ o.nonce = alloc[a].nonce /\ o.code = alloc[a].code
        BY <1>1, <2>3
      <3> HIDE DEF o
      <3>2. alloc[a].storage \in [Slots -> Values]
        BY <2>3 DEF Account
      <3>3. \A k \in Slots : /\ stateOf(o, N, {}, a, k) = alloc[a].storage[k]
                             /\ committedOf(o, N, {}, a, k) = alloc[a].storage[k]
        BY <3>1, <3>2, NilFacts DEF stateOf, committedOf, NoCache
      <3> QED BY <2>1, <2>3, <3>1, <3>3 DEF Holds
    <2> QED BY <2>2, <2>3
  <1> HIDE DEF N, O, s
  <1>5. s = StateDB(N, O)
    BY DEF s
  <1>6. Sound(s) /\ WorldOf(s) = begin(alloc)
    BY <1>2, <1>4, <1>5, BeginWorld
  <1> QED BY <1>6 DEF s, N, O

(***************************************************************************)
(* The inductive invariant.                                                 *)
(***************************************************************************)
Revision == [id : Nat, journalIndex : Nat]

Revisions(q, n, next) ==
    /\ q \in Seq(Revision)
    /\ \A i \in 1..Len(q) : q[i].journalIndex <= n /\ q[i].id < next
    /\ \A i, j \in 1..Len(q) : i < j => /\ q[i].id < q[j].id
                                        /\ q[i].journalIndex <= q[j].journalIndex

Snapshots(s, q, sv) ==
    /\ \E W : sv \in Seq(W)
    /\ Len(sv) = Len(q)
    /\ \A i \in 1..Len(q) : sv[i] = WorldOf(revert(s, q[i].journalIndex))

Consistent(s, q, next, w, sv) ==
    /\ Sound(s) /\ w = WorldOf(s)
    /\ next \in Nat
    /\ Revisions(q, Len(s.entries), next)
    /\ Snapshots(s, q, sv)

\* Positions of revisions lie in the journal.
LEMMA RevisionFacts ==
  ASSUME NEW q, NEW n \in Nat, NEW next \in Nat, Revisions(q, n, next)
  PROVE  /\ Len(q) \in Nat /\ DOMAIN q = 1..Len(q)
         /\ \A i \in 1..Len(q) : /\ q[i].journalIndex \in 0..n /\ q[i].id \in Nat
  <1>1. q \in Seq(Revision)
    BY DEF Revisions
  <1>2. \A i \in 1..Len(q) : q[i] \in Revision
    BY <1>1
  <1>3. \A i \in 1..Len(q) : q[i].journalIndex \in Nat /\ q[i].id \in Nat
    BY <1>2 DEF Revision
  <1> QED BY <1>1, <1>3 DEF Revisions

\* What a revert brings back is sound.
LEMMA SoundRevert ==
  ASSUME NEW s, Sound(s), NEW n \in 0..Len(s.entries)
  PROVE  Sound(revert(s, n)) /\ Len(revert(s, n).entries) = n /\ Len(s.entries) \in Nat
  BY SoundFacts, GoodRevert, KeptRevert DEF Sound

\* A step of the operations, which touches Ripemd for good when d is 1.
LEMMA ConsistentStep ==
  ASSUME NEW s, NEW q, NEW next, NEW w, NEW sv, Consistent(s, q, next, w, sv),
         NEW t, NEW d \in {0, 1}, NEW v, Does(s, t, d, v), d = 1 => Ripemd \in Addrs,
         NEW su, d = 0 => su = sv, d = 1 => su = [i \in DOMAIN sv |-> World!Touch(sv[i], Ripemd)]
  PROVE  Consistent(t, q, next, v, su)
  <1>1. /\ Sound(s) /\ Sound(t) /\ v = WorldOf(t) /\ Follows(t, s, d) /\ next \in Nat
        /\ Revisions(q, Len(s.entries), next) /\ Snapshots(s, q, sv)
    BY DEF Consistent, Does
  <1>2. Len(s.entries) \in Nat /\ Len(t.entries) \in Nat /\ Len(s.entries) <= Len(t.entries)
    BY <1>1, SoundFacts, DBFacts DEF Follows
  <1>3. /\ Len(q) \in Nat /\ \A i \in 1..Len(q) : q[i].journalIndex \in 0..Len(s.entries)
    BY <1>1, <1>2, RevisionFacts
  <1>4. Revisions(q, Len(t.entries), next)
    BY <1>1, <1>2, <1>3 DEF Revisions
  <1>5. PICK W : sv \in Seq(W)
    BY <1>1 DEF Snapshots
  <1>6. /\ Len(sv) = Len(q) /\ DOMAIN sv = 1..Len(q)
        /\ \A i \in 1..Len(q) : sv[i] = WorldOf(revert(s, q[i].journalIndex))
    BY <1>1, <1>5 DEF Snapshots
  <1>7. ASSUME NEW i \in 1..Len(q)
        PROVE  /\ d = 0 => WorldOf(revert(t, q[i].journalIndex)) = sv[i]
               /\ d = 1 => WorldOf(revert(t, q[i].journalIndex)) = World!Touch(sv[i], Ripemd)
    <2> DEFINE n == q[i].journalIndex
    <2>1. n \in 0..Len(s.entries) /\ n \in 0..Len(t.entries)
      BY <1>2, <1>3
    <2> HIDE DEF n
    <2>2. Sound(revert(s, n)) /\ Sound(revert(t, n)) /\ Same(revert(t, n), revert(s, n), d)
      BY <1>1, <2>1, SoundRevert DEF Follows
    <2>3. d \in Nat
      OBVIOUS
    <2>4. /\ d = 0 => WorldOf(revert(t, n)) = WorldOf(revert(s, n))
          /\ d = 1 => WorldOf(revert(t, n)) = World!Touch(WorldOf(revert(s, n)), Ripemd)
      BY <2>2, <2>3, WorldSame
    <2>5. sv[i] = WorldOf(revert(s, n))
      BY <1>6 DEF n
    <2> QED BY <2>4, <2>5 DEF n
  <1>8. CASE d = 0
    <2>1. su = sv
      BY <1>8
    <2>2. Snapshots(t, q, su)
      BY <1>5, <1>6, <1>7, <1>8, <2>1 DEF Snapshots
    <2> QED BY <1>1, <1>4, <2>2 DEF Consistent
  <1>9. CASE d = 1
    <2> DEFINE V == {World!Touch(x, Ripemd) : x \in W}
               T(x) == World!Touch(x, Ripemd)
    <2>1. su = [i \in 1..Len(q) |-> T(sv[i])]
      BY <1>6, <1>9
    <2>2. \A i \in 1..Len(q) : T(sv[i]) \in V
      BY <1>5, <1>6
    <2> HIDE DEF V, T
    <2>3. su \in Seq(V) /\ Len(su) = Len(q) /\ \A i \in 1..Len(q) : su[i] = T(sv[i])
      BY <1>3, <2>1, <2>2
    <2>4. \A i \in 1..Len(q) : su[i] = WorldOf(revert(t, q[i].journalIndex))
      BY <1>7, <1>9, <2>3 DEF T
    <2>5. Snapshots(t, q, su)
      BY <2>3, <2>4 DEF Snapshots
    <2> QED BY <1>1, <1>4, <2>5 DEF Consistent
  <1> QED BY <1>8, <1>9

\* Snapshot.
LEMMA ConsistentSnapshot ==
  ASSUME NEW s, NEW q, NEW next, NEW w, NEW sv, Consistent(s, q, next, w, sv)
  PROVE  Consistent(s, Append(q, [id |-> next, journalIndex |-> Len(s.entries)]), next + 1, w, Append(sv, w))
  <1> DEFINE N == Len(s.entries)
             r == [id |-> next, journalIndex |-> N]
             q2 == Append(q, r)
             sv2 == Append(sv, w)
             L == Len(q)
  <1>1. /\ Sound(s) /\ w = WorldOf(s) /\ next \in Nat /\ Revisions(q, N, next) /\ Snapshots(s, q, sv)
        /\ N \in Nat
    BY SoundFacts, DBFacts DEF Consistent
  <1>2. q \in Seq(Revision) /\ L \in Nat
        /\ \A i \in 1..L : q[i].journalIndex \in 0..N /\ q[i].id \in Nat
    BY <1>1, RevisionFacts DEF Revisions
  <1>3. r \in Revision /\ r.id = next /\ r.journalIndex = N
    BY <1>1 DEF Revision
  <1> HIDE DEF r, N
  <1>4. /\ q2 \in Seq(Revision) /\ Len(q2) = L + 1
        /\ q2[L + 1] = r /\ \A i \in 1..L : q2[i] = q[i]
    BY <1>2, <1>3
  <1>5. PICK W : sv \in Seq(W)
    BY <1>1 DEF Snapshots
  <1>6. sv \in Seq(W \cup {w}) /\ w \in W \cup {w} /\ Len(sv) = L
    BY <1>1, <1>5 DEF Snapshots
  <1>7. /\ sv2 \in Seq(W \cup {w}) /\ Len(sv2) = L + 1 /\ sv2[L + 1] = w
        /\ \A i \in 1..L : sv2[i] = sv[i]
    BY <1>2, <1>6
  <1> HIDE DEF q2, sv2, L
  <1>8. \A i \in 1..(L + 1) : i \in 1..L \/ i = L + 1
    BY <1>2
  <1>9. Revisions(q2, N, next + 1)
    <2>1. \A i \in 1..(L + 1) : q2[i].journalIndex <= N /\ q2[i].id < next + 1
      <3> SUFFICES ASSUME NEW i \in 1..(L + 1)
                   PROVE  q2[i].journalIndex <= N /\ q2[i].id < next + 1
        OBVIOUS
      <3>1. CASE i \in 1..L
        <4>1. q[i].journalIndex <= N /\ q[i].id < next /\ q[i].id \in Nat
          BY <1>1, <1>2, <3>1 DEF Revisions, L
        <4> QED BY <1>1, <1>4, <3>1, <4>1
      <3>2. CASE i = L + 1
        BY <1>1, <1>3, <1>4, <3>2
      <3> QED BY <1>8, <3>1, <3>2
    <2>2. ASSUME NEW i \in 1..(L + 1), NEW j \in 1..(L + 1), i < j
          PROVE  q2[i].id < q2[j].id /\ q2[i].journalIndex <= q2[j].journalIndex
      <3>1. i \in 1..L
        BY <1>2, <2>2
      <3>2. CASE j \in 1..L
        BY <1>1, <1>4, <2>2, <3>1, <3>2 DEF Revisions, L
      <3>3. CASE j = L + 1
        BY <1>1, <1>3, <1>4, <3>1, <3>3 DEF Revisions, L
      <3> QED BY <1>8, <3>2, <3>3
    <2> QED BY <1>4, <2>1, <2>2 DEF Revisions
  <1>10. revert(s, N) = s
    BY <1>1, RevertNothing DEF N
  <1>11. \A i \in 1..(L + 1) : sv2[i] = WorldOf(revert(s, q2[i].journalIndex))
    BY <1>1, <1>3, <1>4, <1>7, <1>8, <1>10 DEF Snapshots, L
  <1>12. Snapshots(s, q2, sv2)
    BY <1>4, <1>7, <1>11 DEF Snapshots
  <1>13. next + 1 \in Nat
    BY <1>1
  <1> QED BY <1>1, <1>9, <1>12, <1>13 DEF Consistent, q2, sv2, r, N

\* RevertToSnapshot.
LEMMA ConsistentRevert ==
  ASSUME NEW s, NEW q, NEW next, NEW w, NEW sv, Consistent(s, q, next, w, sv), NEW idx \in 1..Len(q)
  PROVE  Consistent(revert(s, q[idx].journalIndex), SubSeq(q, 1, idx - 1), next, sv[idx], SubSeq(sv, 1, idx - 1))
  <1> DEFINE N == Len(s.entries)
             n == q[idx].journalIndex
             t == revert(s, n)
             q2 == SubSeq(q, 1, idx - 1)
             sv2 == SubSeq(sv, 1, idx - 1)
  <1>1. /\ Sound(s) /\ Good(s) /\ next \in Nat /\ Revisions(q, N, next) /\ Snapshots(s, q, sv) /\ N \in Nat
    BY SoundFacts, DBFacts DEF Consistent
  <1>2. q \in Seq(Revision) /\ Len(q) \in Nat
        /\ \A i \in 1..Len(q) : q[i].journalIndex \in 0..N /\ q[i].id \in Nat
    BY <1>1, RevisionFacts DEF Revisions
  <1>3. idx \in Nat /\ idx - 1 \in Nat /\ idx - 1 < Len(q) /\ \A i \in 1..(idx - 1) : i \in 1..Len(q) /\ i < idx
    BY <1>2
  <1>4. /\ q2 \in Seq(Revision) /\ Len(q2) = idx - 1
        /\ \A i \in 1..(idx - 1) : q2[i] = q[i]
    BY <1>2, <1>3, CutSeq
  <1>5. PICK W : sv \in Seq(W)
    BY <1>1 DEF Snapshots
  <1>6. Len(sv) = Len(q)
    BY <1>1 DEF Snapshots
  <1>7. sv2 \in Seq(W) /\ Len(sv2) = idx - 1 /\ \A i \in 1..(idx - 1) : sv2[i] = sv[i]
    BY <1>3, <1>5, <1>6, CutSeq
  <1> HIDE DEF q2, sv2
  <1>8. n \in 0..N
    BY <1>2
  <1>9. Sound(t) /\ Len(t.entries) = n
    BY <1>1, <1>8, SoundRevert
  <1>10. Revisions(q2, n, next)
    <2>1. \A i \in 1..(idx - 1) : q2[i].journalIndex <= n /\ q2[i].id < next
      BY <1>1, <1>3, <1>4 DEF Revisions
    <2>2. \A i, j \in 1..(idx - 1) : i < j => q2[i].id < q2[j].id /\ q2[i].journalIndex <= q2[j].journalIndex
      BY <1>1, <1>3, <1>4 DEF Revisions
    <2> QED BY <1>4, <2>1, <2>2 DEF Revisions
  <1>11. ASSUME NEW i \in 1..(idx - 1)
         PROVE  sv2[i] = WorldOf(revert(t, q2[i].journalIndex))
    <2> DEFINE m == q[i].journalIndex
    <2>1. m \in 0..n
      BY <1>1, <1>2, <1>3 DEF Revisions
    <2>2. sv[i] = WorldOf(revert(s, m))
      BY <1>1, <1>3 DEF Snapshots
    <2> HIDE DEF m, n
    <2>3. revert(t, m) = revert(s, m)
      BY <1>1, <1>8, <2>1, RevertRevert
    <2> QED BY <1>4, <1>7, <2>2, <2>3 DEF m
  <1>12. Snapshots(t, q2, sv2)
    BY <1>4, <1>7, <1>11 DEF Snapshots
  <1>13. sv[idx] = WorldOf(t)
    BY <1>1 DEF Snapshots
  <1> HIDE DEF t, n
  <1> QED BY <1>1, <1>9, <1>10, <1>12, <1>13 DEF Consistent, q2, sv2, t, n

\* A sound state without revisions.
LEMMA ConsistentAlone ==
  ASSUME NEW t, Sound(t), NEW next \in Nat
  PROVE  Consistent(t, <<>>, next, WorldOf(t), <<>>)
  <1>1. Revisions(<<>>, Len(t.entries), next)
    BY DEF Revisions
  <1>2. Snapshots(t, <<>>, <<>>)
    BY DEF Snapshots
  <1> QED BY <1>1, <1>2 DEF Consistent

Inv == Consistent(sdb, validRevisions, nextRevisionId, world, saved)

\* What the invariant says of the present.
LEMMA InvFacts ==
  ASSUME Inv
  PROVE  Sound(sdb) /\ world = WorldOf(sdb)
  BY DEF Inv, Consistent

\* Both ways of beginning establish the invariant.
LEMMA InvInit == Init => Inv
  <1> SUFFICES ASSUME Init PROVE Inv
    OBVIOUS
  <1>1. PICK alloc \in Allocs : (Open(alloc) \/ MakeOffTheChainStateDB(alloc)) /\ World!Begin(alloc)
    BY DEF Init
  <1>2. alloc \in [Addrs -> Account \cup {Nil}]
    BY JournalAssumption
  <1>3. Sound(sdb) /\ WorldOf(sdb) = begin(alloc)
    <2>1. CASE Open(alloc)
      BY <1>2, <2>1, OpenDoes, Zenon DEF Open
    <2>2. CASE MakeOffTheChainStateDB(alloc)
      BY <1>2, <2>2, MakeDoes, Zenon DEF MakeOffTheChainStateDB
    <2> QED BY <1>1, <2>1, <2>2
  <1>4. world = begin(alloc) /\ saved = <<>>
    BY <1>1, Zenon DEF World!Begin, begin
  <1>5. validRevisions = <<>> /\ nextRevisionId = 0 /\ 0 \in Nat
    BY DEF Init
  <1>6. Consistent(sdb, <<>>, 0, WorldOf(sdb), <<>>)
    BY <1>3, <1>5, ConsistentAlone
  <1> QED BY <1>3, <1>4, <1>5, <1>6 DEF Inv

\* An operation that does to the world what it does to the state.
LEMMA Become_Inv ==
  ASSUME Inv, NEW t, NEW w, Become(t), World!Set(w), Does(sdb, t, 0, w)
  PROVE  Inv'
  <1>1. /\ sdb' = t /\ validRevisions' = validRevisions /\ nextRevisionId' = nextRevisionId
        /\ world' = w /\ saved' = saved
    BY DEF Become, World!Set
  <1>2. Consistent(t, validRevisions, nextRevisionId, w, saved)
    <2>1. Consistent(sdb, validRevisions, nextRevisionId, world, saved) /\ 0 \in {0, 1}
      BY DEF Inv
    <2> QED BY <2>1, ConsistentStep
  <1> QED BY <1>1, <1>2 DEF Inv

\* One lemma for each operation.
LEMMA AddBalance_Inv ==
  ASSUME Inv, NEW a \in Addrs, NEW n \in {0, 1}, AddBalance(a, n), World!AddBalance(a, n)
  PROVE  Inv'
  <1> DEFINE u == GetOrNewStateObject(sdb, a)
             w == World!Ensure(world, a)
             t == setField(u, a, "balance", u.objects[a].balance + n)
             v == World!Touch([w EXCEPT !.acct[a].balance = @ + n], a)
  <1>1. Sound(sdb) /\ world = WorldOf(sdb) /\ n \in Nat
    BY InvFacts
  <1>2. /\ n > 0 => Does(sdb, t, 0, v)
        /\ Does(sdb, touch(u, a), IF a = Ripemd THEN 1 ELSE 0, World!Touch(w, a))
        /\ Does(sdb, u, 0, w)
        /\ empty(u.objects[a]) <=> World!Empty(w.acct[a])
    BY <1>1, AddBalanceDoes, Zenon
  <1>3. Become(IF n > 0 THEN t ELSE IF empty(u.objects[a]) THEN touch(u, a) ELSE u)
    BY Zenon DEF AddBalance
  <1>4. IF n > 0 THEN World!Set(v)
        ELSE IF ~World!Empty(w.acct[a]) THEN World!Set(w)
        ELSE /\ world' = World!Touch(w, a)
             /\ saved' = IF a = Ripemd THEN [i \in DOMAIN saved |-> World!Touch(saved[i], a)] ELSE saved
    BY Zenon DEF World!AddBalance
  <1> HIDE DEF u, w, t, v
  <1>5. CASE n > 0
    BY <1>2, <1>3, <1>4, <1>5, Become_Inv
  <1>6. CASE ~(n > 0) /\ ~empty(u.objects[a])
    BY <1>2, <1>3, <1>4, <1>6, Become_Inv
  <1>7. CASE ~(n > 0) /\ empty(u.objects[a])
    <2> DEFINE d == IF a = Ripemd THEN 1 ELSE 0
               su == IF a = Ripemd THEN [i \in DOMAIN saved |-> World!Touch(saved[i], a)] ELSE saved
    <2>1. Become(touch(u, a)) /\ world' = World!Touch(w, a) /\ saved' = su
      BY <1>2, <1>3, <1>4, <1>7
    <2>2. /\ d \in {0, 1} /\ (d = 1 => Ripemd \in Addrs) /\ (d = 0 => su = saved)
          /\ (d = 1 => su = [i \in DOMAIN saved |-> World!Touch(saved[i], Ripemd)])
      OBVIOUS
    <2>3. Does(sdb, touch(u, a), d, World!Touch(w, a))
      BY <1>2
    <2> HIDE DEF d, su
    <2>4. Consistent(sdb, validRevisions, nextRevisionId, world, saved)
      BY DEF Inv
    <2>5. Consistent(touch(u, a), validRevisions, nextRevisionId, World!Touch(w, a), su)
      BY <2>2, <2>3, <2>4, ConsistentStep
    <2> QED BY <2>1, <2>5 DEF Inv, Become
  <1> QED BY <1>5, <1>6, <1>7

LEMMA SubBalance_Inv ==
  ASSUME Inv, NEW a \in Addrs, NEW n \in {0, 1}, SubBalance(a, n), World!SubBalance(a, n)
  PROVE  Inv'
  <1> DEFINE u == GetOrNewStateObject(sdb, a)
             w == World!Ensure(world, a)
             t == setField(u, a, "balance", u.objects[a].balance - n)
             v == World!Touch([w EXCEPT !.acct[a].balance = @ - n], a)
  <1>1. Sound(sdb) /\ world = WorldOf(sdb) /\ n \in Nat
    BY InvFacts
  <1>2. n <= u.objects[a].balance /\ Become(IF n > 0 THEN t ELSE u)
    BY Zenon DEF SubBalance
  <1>3. Does(sdb, t, 0, v) /\ Does(sdb, u, 0, w)
    BY <1>1, <1>2, SubBalanceDoes, Zenon
  <1>4. World!Set(IF n > 0 THEN v ELSE w)
    BY Zenon DEF World!SubBalance
  <1> HIDE DEF u, w, t, v
  <1>5. CASE n > 0
    BY <1>2, <1>3, <1>4, <1>5, Become_Inv
  <1>6. CASE ~(n > 0)
    BY <1>2, <1>3, <1>4, <1>6, Become_Inv
  <1> QED BY <1>5, <1>6

LEMMA SetNonce_Inv ==
  ASSUME Inv, NEW a \in Addrs, SetNonce(a), World!SetNonce(a)
  PROVE  Inv'
  <1> DEFINE u == GetOrNewStateObject(sdb, a)
             w == World!Ensure(world, a)
             t == setField(u, a, "nonce", u.objects[a].nonce + 1)
             v == World!Touch([w EXCEPT !.acct[a].nonce = @ + 1], a)
  <1>1. Sound(sdb) /\ world = WorldOf(sdb)
    BY InvFacts
  <1>2. Become(t)
    BY Zenon DEF SetNonce
  <1>3. Does(sdb, t, 0, v)
    BY <1>1, SetNonceDoes, Zenon
  <1>4. World!Set(v)
    BY Zenon DEF World!SetNonce
  <1> HIDE DEF u, w, t, v
  <1> QED BY <1>2, <1>3, <1>4, Become_Inv

LEMMA SetCode_Inv ==
  ASSUME Inv, NEW a \in Addrs, NEW c \in {0, 1}, SetCode(a, c), World!SetCode(a, c)
  PROVE  Inv'
  <1> DEFINE u == GetOrNewStateObject(sdb, a)
             w == World!Ensure(world, a)
             t == setField(u, a, "code", c)
             v == World!Touch([w EXCEPT !.acct[a].code = c], a)
  <1>1. Sound(sdb) /\ world = WorldOf(sdb)
    BY InvFacts
  <1>2. Become(t)
    BY Zenon DEF SetCode
  <1>3. Does(sdb, t, 0, v)
    BY <1>1, SetCodeDoes, Zenon
  <1>4. World!Set(v)
    BY Zenon DEF World!SetCode
  <1> HIDE DEF u, w, t, v
  <1> QED BY <1>2, <1>3, <1>4, Become_Inv

LEMMA CreateAccount_Inv ==
  ASSUME Inv, NEW a \in Addrs, CreateAccount(a), World!CreateAccount(a)
  PROVE  Inv'
  <1> DEFINE u == load(sdb, a)
             c == createObject(u, a)
             t == IF exist(u, a) THEN [c EXCEPT !.objects[a].balance = u.objects[a].balance] ELSE c
             w == world
             v == World!Touch([w EXCEPT !.acct[a] = [World!Newborn EXCEPT !.balance = w.acct[a].balance]], a)
  <1>1. Sound(sdb) /\ w = WorldOf(sdb)
    BY InvFacts
  <1>2. Become(t)
    BY Zenon DEF CreateAccount
  <1>3. Does(sdb, t, 0, v)
    BY <1>1, CreateAccountDoes, Zenon
  <1>4. World!Set(v)
    BY Zenon DEF World!CreateAccount
  <1> HIDE DEF t, v
  <1> QED BY <1>2, <1>3, <1>4, Become_Inv

LEMMA Destroy_Inv ==
  ASSUME Inv, NEW a \in Addrs
  PROVE  /\ SelfDestruct(a) /\ World!SelfDestruct(a) => Inv'
         /\ Selfdestruct6780(a) /\ World!Selfdestruct6780(a) => Inv'
  <1> DEFINE u == load(sdb, a)
             t == selfDestruct(u, a)
             w == world
             v == World!Touch([w EXCEPT !.acct[a].balance = 0, !.acct[a].destroyed = TRUE], a)
  <1>1. Sound(sdb) /\ w = WorldOf(sdb)
    BY InvFacts
  <1>2. exist(u, a) => Does(sdb, t, 0, v)
    BY <1>1, SelfDestructDoes, Zenon
  <1>3. Does(sdb, u, 0, w) /\ (exist(u, a) <=> w.acct[a].exists)
    BY <1>1, LoadDoes
  <1>4. w.acct[a].created <=> exist(u, a) /\ u.objects[a].created
    BY <1>1, CreatedExists
  <1>5. v = World!Destroyed(a)
    BY Zenon DEF World!Destroyed
  <1>6. ASSUME SelfDestruct(a), World!SelfDestruct(a)
        PROVE  Inv'
    <2>1. Become(IF exist(u, a) THEN t ELSE u)
      BY <1>6, Zenon DEF SelfDestruct
    <2>2. World!Set(IF w.acct[a].exists THEN World!Destroyed(a) ELSE w)
      BY <1>6, Zenon DEF World!SelfDestruct
    <2> HIDE DEF u, t, v, w
    <2>3. CASE exist(u, a)
      BY <1>2, <1>3, <1>5, <2>1, <2>2, <2>3, Become_Inv
    <2>4. CASE ~exist(u, a)
      BY <1>3, <2>1, <2>2, <2>4, Become_Inv
    <2> QED BY <2>3, <2>4
  <1>7. ASSUME Selfdestruct6780(a), World!Selfdestruct6780(a)
        PROVE  Inv'
    <2>1. Become(IF exist(u, a) /\ u.objects[a].created THEN t ELSE u)
      BY <1>7, Zenon DEF Selfdestruct6780
    <2>2. World!Set(IF w.acct[a].created THEN World!Destroyed(a) ELSE w)
      BY <1>7, Zenon DEF World!Selfdestruct6780
    <2> HIDE DEF u, t, v, w
    <2>3. CASE exist(u, a) /\ u.objects[a].created
      BY <1>2, <1>4, <1>5, <2>1, <2>2, <2>3, Become_Inv
    <2>4. CASE ~(exist(u, a) /\ u.objects[a].created)
      BY <1>3, <1>4, <2>1, <2>2, <2>4, Become_Inv
    <2> QED BY <2>3, <2>4
  <1> QED BY <1>6, <1>7

LEMMA GetState_Inv ==
  ASSUME Inv, NEW a \in Addrs, NEW k \in Slots, GetState(a, k), World!Set(world)
  PROVE  Inv'
  <1> DEFINE u == load(sdb, a)
             t == IF exist(u, a) THEN cache(u, a, k) ELSE u
  <1>1. Sound(sdb) /\ world = WorldOf(sdb)
    BY InvFacts
  <1>2. Become(t)
    BY Zenon DEF GetState
  <1>3. Does(sdb, t, 0, world)
    BY <1>1, GetStateDoes, Zenon
  <1> HIDE DEF t
  <1> QED BY <1>2, <1>3, Become_Inv

LEMMA SetState_Inv ==
  ASSUME Inv, NEW a \in Addrs, NEW k \in Slots, NEW x \in Values, SetState(a, k, x), World!SetState(a, k, x)
  PROVE  Inv'
  <1> DEFINE u == cache(GetOrNewStateObject(sdb, a), a, k)
             f == [change |-> "storage", account |-> a, key |-> k, prev |-> State(u, a, k)]
             t == [journal(u, f) EXCEPT !.objects[a].dirty[k] = x]
             w == World!Ensure(world, a)
             v == World!Touch([w EXCEPT !.acct[a].storage[k] = x], a)
  <1>1. Sound(sdb) /\ world = WorldOf(sdb)
    BY InvFacts
  <1>2. Become(IF State(u, a, k) = x THEN u ELSE t)
    BY Zenon DEF SetState
  <1>3. Does(sdb, u, 0, w) /\ Does(sdb, t, 0, v) /\ State(u, a, k) = w.acct[a].storage[k]
    <2>1. Does(sdb, t, 0, v)
      BY <1>1, SetStateDoes, Zenon
    <2>2. u = cache(GetOrNewStateObject(sdb, a), a, k) /\ w = World!Ensure(WorldOf(sdb), a)
      BY <1>1
    <2> HIDE DEF u, w, t, v
    <2>3. Does(sdb, u, 0, w) /\ State(u, a, k) = w.acct[a].storage[k]
      BY <1>1, <2>2, SetStateReads
    <2> QED BY <2>1, <2>2, <2>3
  <1>4. World!Set(IF w.acct[a].storage[k] = x THEN w ELSE v)
    BY Zenon DEF World!SetState
  <1> HIDE DEF u, f, t, w, v
  <1>5. CASE State(u, a, k) = x
    BY <1>2, <1>3, <1>4, <1>5, Become_Inv
  <1>6. CASE State(u, a, k) # x
    BY <1>2, <1>3, <1>4, <1>6, Become_Inv
  <1> QED BY <1>5, <1>6

LEMMA AddAddressToAccessList_Inv ==
  ASSUME Inv, NEW a \in Addrs, AddAddressToAccessList(a), World!Warm({a}, {})
  PROVE  Inv'
  <1> DEFINE t == [journal(sdb, [change |-> "listAddress", account |-> a]) EXCEPT !.access = listAddress(@, a)]
             w == warm(world, {a}, {})
  <1>1. Sound(sdb) /\ world = WorldOf(sdb)
    BY InvFacts
  <1>2. sdb.access.addresses[a] = Nil /\ Become(t)
    BY Zenon DEF AddAddressToAccessList
  <1>3. Does(sdb, t, 0, w)
    BY <1>1, <1>2, AddAddressDoes, Zenon
  <1>4. World!Set(w)
    BY Zenon DEF World!Warm, warm
  <1> HIDE DEF t, w
  <1> QED BY <1>2, <1>3, <1>4, Become_Inv

LEMMA AddSlotToAccessList_Inv ==
  ASSUME Inv, NEW a \in Addrs, NEW k \in Slots, AddSlotToAccessList(a, k), World!Warm({a}, {<<a, k>>})
  PROVE  Inv'
  <1> DEFINE u == IF sdb.access.addresses[a] = Nil THEN journal(sdb, [change |-> "listAddress", account |-> a])
                  ELSE sdb
             t == [journal(u, [change |-> "listSlot", account |-> a, key |-> k]) EXCEPT !.access = listSlot(@, a, k)]
             w == warm(world, {a}, {<<a, k>>})
  <1>1. Sound(sdb) /\ world = WorldOf(sdb)
    BY InvFacts
  <1>2. ~ContainsSlot(sdb.access, a, k) /\ Become(t)
    BY Zenon DEF AddSlotToAccessList
  <1>3. Does(sdb, t, 0, w)
    BY <1>1, <1>2, AddSlotDoes, Zenon
  <1>4. World!Set(w)
    BY Zenon DEF World!Warm, warm
  <1> HIDE DEF t, w
  <1> QED BY <1>2, <1>3, <1>4, Become_Inv

\* A transaction begins with no revision to go back to.
LEMMA Prepare_Inv ==
  ASSUME Inv, NEW a \in Addrs, NEW l, Prepare(a, l), NEW P, NEW Q, World!Prepare(P, Q),
         begun(a, l) \in AccessList, Table(begun(a, l)), WarmAddrs(begun(a, l)) = P, WarmSlots(begun(a, l)) = Q
  PROVE  Inv'
  <1> DEFINE al == begun(a, l)
             m == [b \in Addrs |-> [k \in Slots |-> Zero]]
             t == [sdb EXCEPT !.access = al, !.transient = m]
             w == prepared(world, P, Q)
  <1>1. Sound(sdb) /\ world = WorldOf(sdb)
    BY InvFacts
  <1>2. /\ validRevisions = <<>>
        /\ \A i \in DOMAIN sdb.entries : sdb.entries[i].change \notin {"listAddress", "listSlot", "transient"}
        /\ Become(t)
    BY Zenon DEF Prepare, begun
  <1>3. world' = w /\ saved' = saved
    BY Zenon DEF World!Prepare, World!Set, prepared
  <1> HIDE DEF al
  <1>4. Sound(t) /\ WorldOf(t) = prepared(WorldOf(sdb), WarmAddrs(al), WarmSlots(al))
    <2>1. al \in AccessList /\ Table(al)
      BY DEF al
    <2> QED BY <1>1, <1>2, <2>1, PrepareDoes, Zenon
  <1> HIDE DEF t, w, m
  <1>5. WorldOf(t) = w
    BY <1>1, <1>4 DEF w, al
  <1>6. sdb' = t /\ validRevisions' = <<>> /\ nextRevisionId' = nextRevisionId
    BY <1>2 DEF Become
  <1>7. saved = <<>> /\ nextRevisionId \in Nat
    <2>1. Len(saved) = 0 /\ \E W : saved \in Seq(W)
      BY <1>2 DEF Inv, Consistent, Snapshots
    <2> QED BY <2>1 DEF Inv, Consistent
  <1>8. Consistent(t, <<>>, nextRevisionId, WorldOf(t), <<>>)
    BY <1>4, <1>7, ConsistentAlone
  <1> QED BY <1>3, <1>5, <1>6, <1>7, <1>8 DEF Inv

LEMMA Refund_Inv ==
  ASSUME Inv
  PROVE  /\ AddRefund /\ World!AddRefund => Inv'
         /\ SubRefund /\ World!SubRefund => Inv'
  <1> DEFINE e == [change |-> "refund", prev |-> sdb.refund]
             t(n) == [journal(sdb, e) EXCEPT !.refund = n]
             w == world
             v(n) == [w EXCEPT !.refund = n]
  <1>1. Sound(sdb) /\ w = WorldOf(sdb) /\ w.refund = sdb.refund /\ sdb.refund \in Nat
    BY InvFacts, WorldShape, SoundFacts, DBFacts
  <1>2. ASSUME NEW n \in Nat PROVE Does(sdb, t(n), 0, v(n))
    BY <1>1, RefundDoes, Zenon
  <1>3. ASSUME AddRefund, World!AddRefund
        PROVE  Inv'
    <2>1. Become(t(sdb.refund + 1))
      BY <1>3, Zenon DEF AddRefund, changeRefund
    <2>2. World!Set(v(w.refund + 1))
      BY <1>3, Zenon DEF World!AddRefund
    <2>3. sdb.refund + 1 \in Nat
      BY <1>1
    <2> HIDE DEF t, v, w
    <2> QED BY <1>1, <1>2, <2>1, <2>2, <2>3, Become_Inv
  <1>4. ASSUME SubRefund, World!SubRefund
        PROVE  Inv'
    <2>1. sdb.refund > 0 /\ Become(t(sdb.refund - 1))
      BY <1>4, Zenon DEF SubRefund, changeRefund
    <2>2. World!Set(v(w.refund - 1))
      BY <1>4, Zenon DEF World!SubRefund
    <2>3. sdb.refund - 1 \in Nat
      BY <1>1, <2>1
    <2> HIDE DEF t, v, w
    <2> QED BY <1>1, <1>2, <2>1, <2>2, <2>3, Become_Inv
  <1> QED BY <1>3, <1>4

LEMMA AddLog_Inv ==
  ASSUME Inv, AddLog, World!AddLog
  PROVE  Inv'
  <1> DEFINE t == [journal(sdb, [change |-> "log"]) EXCEPT !.logs = @ + 1]
             w == world
             v == [w EXCEPT !.logs = @ + 1]
  <1>1. Sound(sdb) /\ w = WorldOf(sdb)
    BY InvFacts
  <1>2. Become(t)
    BY Zenon DEF AddLog
  <1>3. Does(sdb, t, 0, v)
    BY <1>1, LogDoes, Zenon
  <1>4. World!Set(v)
    BY Zenon DEF World!AddLog
  <1> HIDE DEF t, v
  <1> QED BY <1>2, <1>3, <1>4, Become_Inv

LEMMA SetTransientState_Inv ==
  ASSUME Inv, NEW a \in Addrs, NEW k \in Slots, NEW x \in Values,
         SetTransientState(a, k, x), World!SetTransientState(a, k, x)
  PROVE  Inv'
  <1> DEFINE e == [change |-> "transient", account |-> a, key |-> k, prev |-> sdb.transient[a][k]]
             t == [journal(sdb, e) EXCEPT !.transient[a][k] = x]
             w == world
             v == [w EXCEPT !.transient[a][k] = x]
  <1>1. Sound(sdb) /\ w = WorldOf(sdb)
    BY InvFacts
  <1>2. Become(IF sdb.transient[a][k] = x THEN sdb ELSE t)
    BY Zenon DEF SetTransientState
  <1>3. Does(sdb, t, 0, v)
    BY <1>1, TransientDoes, Zenon
  <1>4. World!Set(v)
    BY Zenon DEF World!SetTransientState
  <1>5. CASE sdb.transient[a][k] # x
    <2> HIDE DEF t, v
    <2> QED BY <1>2, <1>3, <1>4, <1>5, Become_Inv
  <1>6. CASE sdb.transient[a][k] = x
    <2>1. v = w
      <3> DEFINE m == sdb.transient
                 A == Accts(sdb)
                 T == Touched(sdb)
                 p == WarmAddrs(sdb.access)
                 q == WarmSlots(sdb.access)
      <3>1. w = worldRecord(A, T, sdb.refund, sdb.logs, m, p, q) /\ w.transient = m
        BY <1>1, WorldShape
      <3>2. m \in [Addrs -> [Slots -> Values]]
        BY <1>1, SoundFacts, DBFacts
      <3>3. m[a][k] = x
        BY <1>6
      <3> HIDE DEF m, A, T, p, q, w
      <3>4. [m EXCEPT ![a][k] = x] = m
        BY <3>2, <3>3
      <3>5. v = putTransient(w, [m EXCEPT ![a][k] = x])
        BY <3>1, Zenon DEF putTransient
      <3> QED BY <3>1, <3>4, <3>5, PutTransient
    <2> HIDE DEF v
    <2> QED BY <1>2, <1>4, <1>6, <2>1 DEF Become, World!Set, Inv
  <1> QED BY <1>5, <1>6

LEMMA Snapshot_Inv ==
  ASSUME Inv, Snapshot, World!Snapshot
  PROVE  Inv'
  BY ConsistentSnapshot DEF Inv, Snapshot, World!Snapshot

LEMMA Revert_Inv ==
  ASSUME Inv, NEW idx \in DOMAIN validRevisions, RevertToSnapshot(validRevisions[idx].id), World!Revert(idx)
  PROVE  Inv'
  <1> DEFINE q == validRevisions
  <1>1. /\ Sound(sdb) /\ Revisions(q, Len(sdb.entries), nextRevisionId) /\ nextRevisionId \in Nat
        /\ Len(sdb.entries) \in Nat
    BY SoundFacts, DBFacts DEF Inv, Consistent
  <1>2. Len(q) \in Nat /\ DOMAIN q = 1..Len(q) /\ \A i \in 1..Len(q) : q[i].id \in Nat
    BY <1>1, RevisionFacts
  <1>3. PICK j \in DOMAIN q : /\ q[j].id = q[idx].id
                              /\ sdb' = revert(sdb, q[j].journalIndex)
                              /\ validRevisions' = SubSeq(q, 1, j - 1)
                              /\ UNCHANGED nextRevisionId
    BY DEF RevertToSnapshot
  <1>4. j = idx
    <2>1. ~(j < idx) /\ ~(idx < j)
      BY <1>1, <1>2, <1>3 DEF Revisions
    <2> QED BY <1>2, <2>1
  <1>5. Consistent(revert(sdb, q[idx].journalIndex), SubSeq(q, 1, idx - 1), nextRevisionId, saved[idx],
                   SubSeq(saved, 1, idx - 1))
    BY <1>2, ConsistentRevert DEF Inv
  <1> QED BY <1>3, <1>4, <1>5 DEF Inv, World!Revert

LEMMA Finalise_Inv ==
  ASSUME Inv, NEW d \in BOOLEAN, Finalise(d), World!Finalise(d, {a \in Addrs : sdb'.dirties[a] > 0})
  PROVE  Inv'
  <1>1. Sound(sdb) /\ world = WorldOf(sdb) /\ nextRevisionId \in Nat
    BY DEF Inv, Consistent
  <1>2. sdb' = finalState(sdb, d) /\ validRevisions' = <<>> /\ nextRevisionId' = nextRevisionId
    BY Zenon DEF Finalise, finalState, finalObjects, finalDestruct, Changed
  <1> DEFINE t == finalState(sdb, d)
  <1>3. Sound(t) /\ WorldOf(t) = finalised(WorldOf(sdb), d, Touched(t))
    BY <1>1, FinaliseDoes
  <1> HIDE DEF t
  <1>4. world' = finalised(world, d, Touched(t)) /\ saved' = <<>>
    <2>1. {a \in Addrs : sdb'.dirties[a] > 0} = Touched(t)
      BY <1>2 DEF Touched, t
    <2> QED BY <2>1, Zenon DEF World!Finalise, finalised
  <1>5. Consistent(t, <<>>, nextRevisionId, WorldOf(t), <<>>)
    BY <1>1, <1>3, ConsistentAlone
  <1> QED BY <1>1, <1>2, <1>3, <1>4, <1>5 DEF Inv, t

\* The operations by their kind.
LEMMA Accounts_Inv ==
  ASSUME Inv, NEW a \in Addrs, OnAccounts(a)
  PROVE  Inv'
  <1>1. ASSUME NEW n \in {0, 1}, AddBalance(a, n), World!AddBalance(a, n) PROVE Inv'
    BY <1>1, AddBalance_Inv
  <1>2. ASSUME NEW n \in {0, 1}, SubBalance(a, n), World!SubBalance(a, n) PROVE Inv'
    BY <1>2, SubBalance_Inv
  <1>3. CASE SetNonce(a) /\ World!SetNonce(a)
    BY <1>3, SetNonce_Inv
  <1>4. CASE SetCode(a, 1) /\ World!SetCode(a, 1)
    <2>1. 1 \in {0, 1}
      OBVIOUS
    <2> QED BY <1>4, <2>1, SetCode_Inv
  <1>5. CASE CreateAccount(a) /\ World!CreateAccount(a)
    BY <1>5, CreateAccount_Inv
  <1>6. CASE SelfDestruct(a) /\ World!SelfDestruct(a)
    BY <1>6, Destroy_Inv
  <1>7. CASE Selfdestruct6780(a) /\ World!Selfdestruct6780(a)
    BY <1>7, Destroy_Inv
  <1> QED BY <1>1, <1>2, <1>3, <1>4, <1>5, <1>6, <1>7, Zenon DEF OnAccounts

LEMMA Storage_Inv ==
  ASSUME Inv, NEW a \in Addrs, NEW k \in Slots, OnStorage(a, k)
  PROVE  Inv'
  <1>1. CASE GetState(a, k) /\ World!Set(world)
    BY <1>1, GetState_Inv
  <1>2. ASSUME NEW v \in Values, SetState(a, k, v), World!SetState(a, k, v) PROVE Inv'
    BY <1>2, SetState_Inv
  <1> QED BY <1>1, <1>2, Zenon DEF OnStorage

LEMMA Lists_Inv ==
  ASSUME Inv, NEW a \in Addrs, NEW k \in Slots, OnLists(a, k)
  PROVE  Inv'
  <1>1. CASE AddAddressToAccessList(a) /\ World!Warm({a}, {})
    BY <1>1, AddAddressToAccessList_Inv
  <1>2. CASE AddSlotToAccessList(a, k) /\ World!Warm({a}, {<<a, k>>})
    BY <1>2, AddSlotToAccessList_Inv
  <1>3. CASE Prepare(a, Nil) /\ World!Prepare({a}, {})
    <2>1. /\ begun(a, Nil) \in AccessList /\ Table(begun(a, Nil))
          /\ WarmAddrs(begun(a, Nil)) = {a} /\ WarmSlots(begun(a, Nil)) = {}
      BY BegunFacts
    <2> QED BY <1>3, <2>1, Prepare_Inv
  <1>4. ASSUME NEW b \in Addrs, Prepare(a, [account |-> b, key |-> k]), World!Prepare({a, b}, {<<b, k>>})
        PROVE  Inv'
    <2> DEFINE l == [account |-> b, key |-> k]
    <2>1. l # Nil
      BY JournalAssumption
    <2>2. /\ begun(a, l) \in AccessList /\ Table(begun(a, l))
          /\ WarmAddrs(begun(a, l)) = {a, b} /\ WarmSlots(begun(a, l)) = {<<b, k>>}
      BY <2>1, BegunFacts
    <2>3. Prepare(a, l)
      BY <1>4
    <2> HIDE DEF l
    <2> QED BY <1>4, <2>2, <2>3, Prepare_Inv
  <1> QED BY <1>1, <1>2, <1>3, <1>4, Zenon DEF OnLists

LEMMA Others_Inv ==
  ASSUME Inv, NEW a \in Addrs, NEW k \in Slots, OnOthers(a, k)
  PROVE  Inv'
  <1>1. CASE AddRefund /\ World!AddRefund
    BY <1>1, Refund_Inv
  <1>2. CASE SubRefund /\ World!SubRefund
    BY <1>2, Refund_Inv
  <1>3. CASE AddLog /\ World!AddLog
    BY <1>3, AddLog_Inv
  <1>4. ASSUME NEW v \in Values, SetTransientState(a, k, v), World!SetTransientState(a, k, v) PROVE Inv'
    BY <1>4, SetTransientState_Inv
  <1> QED BY <1>1, <1>2, <1>3, <1>4, Zenon DEF OnOthers

\* Every step keeps it.
LEMMA InvNext == Inv /\ [Next]_vars => Inv'
  <1> SUFFICES ASSUME Inv, [Next]_vars PROVE Inv'
    OBVIOUS
  <1>1. ASSUME NEW a \in Addrs, OnAccounts(a) PROVE Inv'
    BY <1>1, Accounts_Inv
  <1>2. ASSUME NEW a \in Addrs, NEW k \in Slots, OnStorage(a, k) \/ OnLists(a, k) \/ OnOthers(a, k) PROVE Inv'
    BY <1>2, Storage_Inv, Lists_Inv, Others_Inv
  <1>3. CASE Snapshot /\ World!Snapshot
    BY <1>3, Snapshot_Inv
  <1>4. ASSUME NEW idx \in DOMAIN validRevisions, RevertToSnapshot(validRevisions[idx].id), World!Revert(idx)
        PROVE  Inv'
    BY <1>4, Revert_Inv
  <1>5. ASSUME NEW d \in BOOLEAN, Finalise(d), World!Finalise(d, {a \in Addrs : sdb'.dirties[a] > 0})
        PROVE  Inv'
    BY <1>5, Finalise_Inv
  <1>6. CASE UNCHANGED vars
    BY <1>6 DEF vars, Inv
  <1> QED BY <1>1, <1>2, <1>3, <1>4, <1>5, <1>6, Zenon DEF Next

\* The StateDB is sound, reads as the plain world, and each open revision stands for the world
\* in which it was taken: the invariant from which the properties follow.
THEOREM InductiveInvariant == Spec => []Inv
  BY InvInit, InvNext, PTL DEF Spec

\* After every sequence of the operations of StateDB, with every nesting of Snapshot and
\* RevertToSnapshot and over any number of transactions, the getters answer what plain values
\* would: objects, layers of storage, markers of destroyed accounts and the access list are
\* never seen to disagree, whether the state was opened or made off the chain.
THEOREM GettersReadAsWorld == Spec => []ReadsAsWorld
  <1>1. Inv => ReadsAsWorld
    BY DEF Inv, Consistent, ReadsAsWorld
  <1> QED BY <1>1, InductiveInvariant, PTL

\* RevertToSnapshot to any revision that is still valid brings back the world in which Snapshot
\* was called, whatever was done, reverted or read since; only the touch of Ripemd stays.
THEOREM RevertsBringBack == Spec => []SnapshotsKept
  <1>1. Inv => SnapshotsKept
    <2> SUFFICES ASSUME Inv PROVE SnapshotsKept
      OBVIOUS
    <2>1. /\ Sound(sdb) /\ Revisions(validRevisions, Len(sdb.entries), nextRevisionId) /\ nextRevisionId \in Nat
          /\ Len(sdb.entries) \in Nat
      BY SoundFacts, DBFacts DEF Inv, Consistent
    <2>2. DOMAIN validRevisions = 1..Len(validRevisions)
      BY <2>1, RevisionFacts
    <2> QED BY <2>2 DEF Inv, Consistent, Snapshots, SnapshotsKept
  <1> QED BY <1>1, InductiveInvariant, PTL

\* The count of changes from which Finalise takes its accounts is the number of the account's
\* entries in the journal, through append, revert and the end of a transaction; Ripemd's is at
\* least that.
THEOREM CountsOfChangesExact == Spec => []DirtiesExact
  <1>1. Inv => DirtiesExact
    <2> SUFFICES ASSUME Inv PROVE DirtiesExact
      OBVIOUS
    <2>1. Sound(sdb) /\ Counted(sdb) /\ sdb.entries \in Seq(Entry)
      BY SoundFacts, DBFacts DEF Inv, Consistent, Good
    <2>2. ASSUME NEW a \in Addrs
          PROVE  {i \in DOMAIN sdb.entries :
                     sdb.entries[i].change \in AccountChanges /\ sdb.entries[i].account = a}
                   = Positions(sdb.entries, ChangesOf(a))
      <3>1. DOMAIN sdb.entries = 1..Len(sdb.entries) /\ \A i \in 1..Len(sdb.entries) : sdb.entries[i] \in Entry
        BY <2>1
      <3> QED BY <3>1 DEF Positions, ChangesOf
    <2> QED BY <2>1, <2>2, Zenon DEF DirtiesExact, Counted, Count
  <1> QED BY <1>1, InductiveInvariant, PTL

\* Each position of the access list's table of slots belongs to exactly one address and has a
\* slot: DeleteSlot, which cuts the table at the position of its address, is only ever called
\* when that position is the last.
THEOREM SlotTableSound == Spec => []AccessTableSound
  <1>1. Inv => AccessTableSound
    <2> SUFFICES ASSUME Inv PROVE AccessTableSound
      OBVIOUS
    <2> DEFINE al == sdb.access
    <2>1. al \in AccessList /\ Table(al) /\ Nil \notin Nat
      BY SoundFacts, DBFacts, NilFacts DEF Inv, Consistent, Good, Listed
    <2>2. DOMAIN al.slots = 1..Len(al.slots) /\ Len(al.slots) \in Nat
      BY <2>1, AccessFacts
    <2> HIDE DEF al
    <2>3. ASSUME NEW i \in 1..Len(al.slots)
          PROVE  al.slots[i] # {} /\ Cardinality({a \in Addrs : al.addresses[a] = i}) = 1
      <3>1. PICK a \in Addrs : al.addresses[a] = i
        BY <2>1 DEF Table
      <3>2. HasSlots(al, a)
        BY <2>1, <2>2, <3>1 DEF HasSlots, NoSlots
      <3>3. {b \in Addrs : al.addresses[b] = i} = {a}
        BY <2>1, <3>1, <3>2 DEF Table
      <3> QED BY <2>1, <3>3, FS_Singleton DEF Table
    <2> QED BY <2>2, <2>3 DEF AccessTableSound, al
  <1> QED BY <1>1, InductiveInvariant, PTL

\* Objects, journal, counts and revisions keep their shape, and the revisions lie in the journal
\* in the order of their ids.
THEOREM TypeCorrect == Spec => []TypeOK
  <1>1. Inv => TypeOK
    <2> SUFFICES ASSUME Inv PROVE TypeOK
      OBVIOUS
    <2>1. /\ Sound(sdb) /\ Good(sdb) /\ sdb \in DB /\ nextRevisionId \in Nat
          /\ Revisions(validRevisions, Len(sdb.entries), nextRevisionId)
      BY SoundFacts DEF Inv, Consistent
    <2>2. /\ sdb.objects \in [Addrs -> Object \cup {Nil}] /\ sdb.destruct \in SUBSET Addrs
          /\ sdb.refund \in Nat /\ sdb.logs \in Int /\ sdb.transient \in [Addrs -> [Slots -> Values]]
          /\ sdb.access \in AccessList /\ sdb.entries \in Seq(Entry) /\ sdb.dirties \in [Addrs -> Int]
          /\ Len(sdb.entries) \in Nat
      BY <2>1, DBFacts
    <2>3. \A P : Count(sdb.entries, P) \in Nat
      BY <2>2, CountType
    <2>4. sdb.logs \in Nat /\ \A a \in Addrs : sdb.dirties[a] \in Nat
      BY <2>1, <2>2, <2>3 DEF Good, Counted
    <2>5. sdb.dirties \in [Addrs -> Nat]
      BY <2>2, <2>4
    <2>6. sdb.access.addresses \in [Addrs -> 0..Len(sdb.access.slots) \cup {Nil}]
      <3> DEFINE al == sdb.access
      <3>1. /\ al.addresses \in [Addrs -> Nat \cup {Nil}] /\ Len(al.slots) \in Nat
            /\ \A a \in Addrs : HasSlots(al, a) => al.addresses[a] \in 1..Len(al.slots)
        BY <2>1, <2>2, AccessFacts DEF Good, Listed, Table
      <3> HIDE DEF al
      <3>2. \A a \in Addrs : al.addresses[a] \in 0..Len(al.slots) \cup {Nil}
        BY <3>1 DEF HasSlots, NoSlots
      <3> QED BY <3>1, <3>2 DEF al
    <2>7. ASSUME NEW i \in DOMAIN validRevisions
          PROVE  /\ validRevisions[i].journalIndex <= Len(sdb.entries)
                 /\ i > 1 => /\ validRevisions[i - 1].id < validRevisions[i].id
                             /\ validRevisions[i - 1].journalIndex <= validRevisions[i].journalIndex
      <3>1. Len(validRevisions) \in Nat /\ DOMAIN validRevisions = 1..Len(validRevisions)
        BY <2>1, <2>2, RevisionFacts
      <3>2. i > 1 => i - 1 \in 1..Len(validRevisions) /\ i - 1 < i
        BY <3>1
      <3> QED BY <2>1, <3>1, <3>2 DEF Revisions
    <2> QED BY <2>2, <2>4, <2>5, <2>6, <2>7 DEF TypeOK
  <1> QED BY <1>1, InductiveInvariant, PTL
=============================================================================
