--------------------------- MODULE InvMiner_proofs ---------------------------
(***************************************************************************)
(* The miner keeps exactly the relations that a look at all calls would, for *)
(* every set of traces, every threshold and every number of calls.  The      *)
(* invariant says what an entry's count stands for while mining goes on, and *)
(* that the model an entry is checked with means what its text says.         *)
(***************************************************************************)
EXTENDS InvMiner, FiniteSetTheorems, TLAPS

Ops == {"==", "== -"}

\* What a found relation is when nothing, one address or two addresses were replaced.
NormalOf(op, x, y) ==
    [rel |-> [op |-> op, x |-> x, y |-> y],
     model |-> [x |-> x, y |-> y, replacement |-> 0, outer |-> {}]]

\* x and y are names of the call t whose values the relation op holds between.
Shows(t, op, x, y) ==
    /\ op \in Ops /\ x \in DOMAIN t /\ y \in DOMAIN t /\ x # y
    /\ checkRelation(op, t[x], t[y])

\* b is a variable of the call t whose value is one of the keys of x and y.
Names(t, b, x, y) == b \in Roles(t) /\ t[b].val \in {x[2], y[2]}

OnceOf(op, x, y, b, t) ==
    LET u == Replace(x, t[b].val, -b[1])
        v == Replace(y, t[b].val, -b[1])
    IN  [rel |-> [op |-> op, x |-> u, y |-> v],
         model |-> [x |-> u, y |-> v, replacement |-> b[1], outer |-> {}]]

TwiceOf(op, x, y, b, c, t) ==
    LET u == Replace(x, t[b].val, -b[1])
        v == Replace(y, t[b].val, -b[1])
    IN  [rel |-> [op |-> op, x |-> Replace(u, t[c].val, -c[1]), y |-> Replace(v, t[c].val, -c[1])],
         model |-> [x |-> u, y |-> v, replacement |-> b[1], outer |-> {c[1]}]]

LEMMA NormalShape ==
  ASSUME NEW t \in Dtraces, NEW f \in Normal(t)
  PROVE  \E op, x, y : Shows(t, op, x, y) /\ f = NormalOf(op, x, y)
  <1> DEFINE Pairs == {q \in (DOMAIN t) \X (DOMAIN t) :
                           Smaller(q[1], q[2]) /\ isComparable(q[1], q[2])}
             All == {[rel |-> [op |-> op, x |-> p[1], y |-> p[2]],
                      model |-> [x |-> p[1], y |-> p[2], replacement |-> 0, outer |-> {}]] :
                        op \in Ops, p \in Pairs}
  <1>0. f \in All
    <2>1. f \in mineVars(t)
      BY DEF Normal
    <2>2. mineVars(t) = All
      BY SMT DEF mineVars, Ops
    <2> HIDE DEF All
    <2> QED BY <2>1, <2>2
  <1>1. PICK op \in Ops, p \in Pairs :
          f = [rel |-> [op |-> op, x |-> p[1], y |-> p[2]],
               model |-> [x |-> p[1], y |-> p[2], replacement |-> 0, outer |-> {}]]
    <2> HIDE DEF Pairs
    <2> QED BY <1>0
  <1> DEFINE x == p[1]
             y == p[2]
  <1>2. x \in DOMAIN t /\ y \in DOMAIN t /\ Smaller(x, y)
    BY <1>1
  <1>3. x \in Bases \X Nat /\ y \in Bases \X Nat
    BY <1>2, MinerAssumption
  <1>4. x # y
    <2>1. x[1] \in Nat /\ x[2] \in Nat
      BY <1>3, MinerAssumption
    <2> QED BY <1>2, <2>1 DEF Smaller
  <1>5. f.rel.op = op /\ f.rel.x = x /\ f.rel.y = y
    BY <1>1
  <1>6. constructRelation(op, t[x], t[y])
    BY <1>5 DEF Normal
  <1>7. checkRelation(op, t[x], t[y])
    BY <1>6, Zenon DEF constructRelation
  <1>8. Shows(t, op, x, y)
    BY <1>1, <1>2, <1>4, <1>7 DEF Shows
  <1> QED BY <1>1, <1>8 DEF NormalOf

LEMMA LiftShape ==
  ASSUME NEW t, NEW found, NEW f \in Lift(found, t)
  PROVE  \E g \in found, r \in Roles(t) :
            t[r].val \in {g.rel.x[2], g.rel.y[2]} /\ f = Infer(g, r, t)
  BY DEF Lift

LEMMA OnceShape ==
  ASSUME NEW t \in Dtraces, NEW f \in Lift(Normal(t), t)
  PROVE  \E op, x, y, b : Shows(t, op, x, y) /\ Names(t, b, x, y) /\ f = OnceOf(op, x, y, b, t)
  <1>1. PICK g \in Normal(t), b \in Roles(t) :
               t[b].val \in {g.rel.x[2], g.rel.y[2]} /\ f = Infer(g, b, t)
    BY LiftShape
  <1>2. PICK op, x, y : Shows(t, op, x, y) /\ g = NormalOf(op, x, y)
    BY NormalShape
  <1>3. g.rel.x = x /\ g.rel.y = y /\ g.model.replacement = 0 /\ g.rel = [op |-> op, x |-> x, y |-> y]
    BY <1>2 DEF NormalOf
  <1>4. Names(t, b, x, y)
    BY <1>1, <1>3 DEF Names
  <1>5. f = OnceOf(op, x, y, b, t)
    BY <1>1, <1>3 DEF OnceOf, Infer
  <1> QED BY <1>2, <1>4, <1>5

LEMMA TwiceShape ==
  ASSUME NEW t \in Dtraces, NEW f \in Lift(Lift(Normal(t), t), t)
  PROVE  \E op, x, y, b, c :
            /\ Shows(t, op, x, y) /\ Names(t, b, x, y)
            /\ Names(t, c, Replace(x, t[b].val, -b[1]), Replace(y, t[b].val, -b[1]))
            /\ f = TwiceOf(op, x, y, b, c, t)
  <1>1. PICK g \in Lift(Normal(t), t), c \in Roles(t) :
               t[c].val \in {g.rel.x[2], g.rel.y[2]} /\ f = Infer(g, c, t)
    BY LiftShape
  <1>2. PICK op, x, y, b :
               Shows(t, op, x, y) /\ Names(t, b, x, y) /\ g = OnceOf(op, x, y, b, t)
    BY OnceShape
  <1> DEFINE u == Replace(x, t[b].val, -b[1])
             v == Replace(y, t[b].val, -b[1])
             m == [x |-> u, y |-> v, replacement |-> b[1], outer |-> {}]
  <1>3. g.rel = [op |-> op, x |-> u, y |-> v] /\ g.model = m
    BY <1>2 DEF OnceOf
  <1>4. Names(t, c, u, v)
    BY <1>1, <1>3 DEF Names
  <1>5. b[1] # 0
    BY <1>2, MinerAssumption DEF Names, Roles
  <1>6. f = [rel |-> [op |-> op, x |-> Replace(u, t[c].val, -c[1]),
                                y |-> Replace(v, t[c].val, -c[1])],
             model |-> [m EXCEPT !.outer = @ \cup {c[1]}]]
    BY <1>1, <1>3, <1>5 DEF Infer
  <1>7. f = TwiceOf(op, x, y, b, c, t)
    <2>1. ASSUME NEW n, NEW p, NEW q, NEW r, NEW d,
                 n = [x |-> p, y |-> q, replacement |-> r, outer |-> {}]
          PROVE  [n EXCEPT !.outer = @ \cup {d}]
                   = [x |-> p, y |-> q, replacement |-> r, outer |-> {d}]
      BY <2>1
    <2>2. m = [x |-> u, y |-> v, replacement |-> b[1], outer |-> {}]
      OBVIOUS
    <2>3. [m EXCEPT !.outer = @ \cup {c[1]}]
            = [x |-> u, y |-> v, replacement |-> b[1], outer |-> {c[1]}]
      <3> HIDE DEF m, u, v
      <3> QED BY <2>1, <2>2
    <2> QED BY <1>6, <2>3, Zenon DEF TwiceOf
  <1> QED BY <1>2, <1>4, <1>7

LEMMA NameShape ==
  ASSUME NEW t \in Dtraces, NEW x \in DOMAIN t
  PROVE  /\ x \in Bases \X Int /\ x[1] \in Bases /\ x[2] \in Nat /\ x = <<x[1], x[2]>>
         /\ t[x] # Nonsensical
  <1>1. x \in Bases \X Nat /\ t[x] \in Value
    BY MinerAssumption
  <1>2. t[x] # Nonsensical
    BY <1>1 DEF Value, Nonsensical
  <1> QED BY <1>1, <1>2

LEMMA RoleShape ==
  ASSUME NEW t \in Dtraces, NEW b \in Roles(t)
  PROVE  /\ b \in DOMAIN t /\ b[1] \in Bases /\ b[1] \in Nat /\ b[1] > 0
         /\ b = <<b[1], 0>> /\ t[b].val \in Nat
  <1>1. b \in DOMAIN t /\ b[2] = 0 /\ t[b].type = "str"
    BY DEF Roles
  <1>2. b \in Bases \X Nat /\ t[b].val \in Nat
    BY <1>1, MinerAssumption
  <1>3. b[1] \in Nat \ {0}
    BY <1>2, MinerAssumption
  <1> QED BY <1>1, <1>2, <1>3

LEMMA ReplaceShape ==
  ASSUME NEW x \in Bases \X Int, NEW old \in Int, NEW new \in Int
  PROVE  /\ Replace(x, old, new) \in Bases \X Int
         /\ Replace(x, old, new)[1] = x[1]
         /\ Replace(x, old, new)[2] = IF x[2] = old THEN new ELSE x[2]
  BY DEF Replace

\* The model undoes its own replacement.
LEMMA ReplaceBack ==
  ASSUME NEW x \in Bases \X Int, x[2] \in Nat, NEW old \in Nat, NEW b \in Nat \ {0}
  PROVE  Replace(Replace(x, old, -b), -b, old) = x
  <1>1. CASE x[2] = old
    <2>1. Replace(x, old, -b) = <<x[1], -b>>
      BY <1>1 DEF Replace
    <2>2. Replace(<<x[1], -b>>, -b, old) = <<x[1], old>>
      BY DEF Replace
    <2> QED BY <1>1, <2>1, <2>2
  <1>2. CASE x[2] # old
    BY <1>2 DEF Replace
  <1> QED BY <1>1, <1>2

\* A model that resolves to two names between which the relation holds is satisfied.
LEMMA Satisfied ==
  ASSUME NEW t \in Dtraces, NEW op, NEW x, NEW y, Shows(t, op, x, y), NEW m,
         OriginalVar(m.x, m, t) = t[x], OriginalVar(m.y, m, t) = t[y]
  PROVE  checkInv(op, m, t) = "satisfy"
  <1>1. x \in DOMAIN t /\ y \in DOMAIN t /\ checkRelation(op, t[x], t[y])
    BY Zenon DEF Shows
  <1>2. t[x] # Nonsensical /\ t[y] # Nonsensical
    BY <1>1, NameShape, Zenon
  <1>3. Nonsensical \notin {t[x], t[y]}
    BY <1>2
  <1> QED BY <1>1, <1>3, Zenon DEF checkInv

\* For a relation with at most one replaced address the model has the names of the text.
Fit(r, m) ==
    Shallow(r) =>
        /\ m.x = r.x /\ m.y = r.y /\ m.outer = {}
        /\ r.x[2] \in Nat \cup {-m.replacement}
        /\ r.y[2] \in Nat \cup {-m.replacement}
        /\ m.replacement # 0 => -m.replacement \in {r.x[2], r.y[2]}

Sound(f, t) ==
    /\ f.rel \in Relation /\ f.model \in Model /\ f.rel.x # f.rel.y
    /\ Fit(f.rel, f.model)
    /\ checkInv(f.rel.op, f.model, t) = "satisfy"

LEMMA NormalSound ==
  ASSUME NEW t \in Dtraces, NEW op, NEW x, NEW y, Shows(t, op, x, y)
  PROVE  Sound(NormalOf(op, x, y), t)
  <1> DEFINE f == NormalOf(op, x, y)
  <1>1. op \in Ops /\ x \in DOMAIN t /\ y \in DOMAIN t /\ x # y
    BY Zenon DEF Shows
  <1>2. /\ x \in Bases \X Int /\ x[2] \in Nat
        /\ y \in Bases \X Int /\ y[2] \in Nat
    BY <1>1, NameShape
  <1>3. /\ f.rel.op = op /\ f.rel.x = x /\ f.rel.y = y
        /\ f.model.x = x /\ f.model.y = y /\ f.model.replacement = 0 /\ f.model.outer = {}
        /\ f.rel = [op |-> op, x |-> x, y |-> y]
        /\ f.model = [x |-> x, y |-> y, replacement |-> 0, outer |-> {}]
    BY DEF NormalOf
  <1> HIDE DEF f
  <1>4. f.rel \in Relation /\ f.model \in Model /\ f.rel.x # f.rel.y
    BY <1>1, <1>2, <1>3 DEF Relation, Model, Ops
  <1>5. Fit(f.rel, f.model)
    BY <1>2, <1>3 DEF Fit
  <1>6. OriginalVar(f.model.x, f.model, t) = t[x] /\ OriginalVar(f.model.y, f.model, t) = t[y]
    BY <1>1, <1>3 DEF OriginalVar, getTraceDictVar
  <1>7. checkInv(f.rel.op, f.model, t) = "satisfy"
    BY <1>3, <1>6, Satisfied
  <1> QED BY <1>4, <1>5, <1>7 DEF Sound, f

\* The value that a model with one replacement finds for the name made from x.
LEMMA OriginalOf ==
  ASSUME NEW t \in Dtraces, NEW x \in DOMAIN t, NEW b \in Roles(t), NEW m,
         m.replacement = b[1], \A r \in m.outer : <<r, 0>> \in DOMAIN t
  PROVE  OriginalVar(Replace(x, t[b].val, -b[1]), m, t) = t[x]
  <1>1. x \in Bases \X Int /\ x[2] \in Nat
    BY NameShape
  <1>2. b \in DOMAIN t /\ b[1] \in Nat \ {0} /\ b = <<b[1], 0>> /\ t[b].val \in Nat
    BY RoleShape
  <1>3. m.replacement # 0 /\ <<m.replacement, 0>> = b
    BY <1>2
  <1>4. ~ \E r \in m.outer \cup {m.replacement} : <<r, 0>> \notin DOMAIN t
    BY <1>2, <1>3
  <1>5. Replace(Replace(x, t[b].val, -b[1]), -b[1], t[b].val) = x
    BY <1>1, <1>2, ReplaceBack
  <1>6. OriginalVar(Replace(x, t[b].val, -b[1]), m, t) =
          getTraceDictVar(Replace(Replace(x, t[b].val, -b[1]), -m.replacement,
                                  t[<<m.replacement, 0>>].val), t)
    BY <1>3, <1>4, Zenon DEF OriginalVar
  <1>7. getTraceDictVar(x, t) = t[x]
    BY DEF getTraceDictVar
  <1> QED BY <1>3, <1>5, <1>6, <1>7

LEMMA OnceSound ==
  ASSUME NEW t \in Dtraces, NEW op, NEW x, NEW y, Shows(t, op, x, y),
         NEW b, Names(t, b, x, y)
  PROVE  Sound(OnceOf(op, x, y, b, t), t)
  <1> DEFINE f == OnceOf(op, x, y, b, t)
             n == t[b].val
             u == Replace(x, n, -b[1])
             v == Replace(y, n, -b[1])
  <1>1. op \in Ops /\ x \in DOMAIN t /\ y \in DOMAIN t /\ x # y
    BY Zenon DEF Shows
  <1>2. /\ x \in Bases \X Int /\ x[1] \in Bases /\ x[2] \in Nat /\ x = <<x[1], x[2]>>
        /\ y \in Bases \X Int /\ y[1] \in Bases /\ y[2] \in Nat /\ y = <<y[1], y[2]>>
    BY <1>1, NameShape
  <1>3. b \in Roles(t) /\ n \in {x[2], y[2]}
    BY DEF Names
  <1>4. b[1] \in Bases /\ b[1] \in Nat /\ b[1] > 0 /\ n \in Nat
    BY <1>3, RoleShape
  <1>5. /\ f.rel.op = op /\ f.rel.x = u /\ f.rel.y = v
        /\ f.model.x = u /\ f.model.y = v /\ f.model.replacement = b[1] /\ f.model.outer = {}
        /\ f.rel = [op |-> op, x |-> u, y |-> v]
        /\ f.model = [x |-> u, y |-> v, replacement |-> b[1], outer |-> {}]
    BY DEF OnceOf
  <1>6. /\ u \in Bases \X Int /\ u[1] = x[1] /\ u[2] = IF x[2] = n THEN -b[1] ELSE x[2]
        /\ v \in Bases \X Int /\ v[1] = y[1] /\ v[2] = IF y[2] = n THEN -b[1] ELSE y[2]
    <2> HIDE DEF n
    <2> QED BY <1>2, <1>4, ReplaceShape
  <1> HIDE DEF f, u, v, n
  <1>7. u # v
    BY <1>1, <1>2, <1>4, <1>6
  <1>8. f.rel \in Relation /\ f.model \in Model /\ f.rel.x # f.rel.y
    BY <1>1, <1>4, <1>5, <1>6, <1>7 DEF Relation, Model, Ops
  <1>9. Fit(f.rel, f.model)
    BY <1>2, <1>3, <1>4, <1>5, <1>6 DEF Fit
  <1>10. OriginalVar(f.model.x, f.model, t) = t[x] /\ OriginalVar(f.model.y, f.model, t) = t[y]
    BY <1>1, <1>3, <1>5, OriginalOf DEF u, v, n
  <1>11. checkInv(f.rel.op, f.model, t) = "satisfy"
    BY <1>5, <1>10, Satisfied
  <1> QED BY <1>8, <1>9, <1>11 DEF Sound, f

\* Of two replacements the text keeps both, so the relation is not shallow.
LEMMA TwiceSound ==
  ASSUME NEW t \in Dtraces, NEW op, NEW x, NEW y, Shows(t, op, x, y),
         NEW b, Names(t, b, x, y), NEW c,
         Names(t, c, Replace(x, t[b].val, -b[1]), Replace(y, t[b].val, -b[1]))
  PROVE  Sound(TwiceOf(op, x, y, b, c, t), t)
  <1> DEFINE f == TwiceOf(op, x, y, b, c, t)
             n == t[b].val
             k == t[c].val
             u == Replace(x, n, -b[1])
             v == Replace(y, n, -b[1])
             p == Replace(u, k, -c[1])
             q == Replace(v, k, -c[1])
  <1>1. op \in Ops /\ x \in DOMAIN t /\ y \in DOMAIN t /\ x # y
    BY Zenon DEF Shows
  <1>2. /\ x \in Bases \X Int /\ x[1] \in Bases /\ x[2] \in Nat /\ x = <<x[1], x[2]>>
        /\ y \in Bases \X Int /\ y[1] \in Bases /\ y[2] \in Nat /\ y = <<y[1], y[2]>>
    BY <1>1, NameShape
  <1>3. b \in Roles(t) /\ n \in {x[2], y[2]} /\ c \in Roles(t) /\ k \in {u[2], v[2]}
    BY DEF Names
  <1>4. /\ b[1] \in Bases /\ b[1] \in Nat /\ b[1] > 0 /\ n \in Nat
        /\ c[1] \in Bases /\ c[1] \in Nat /\ c[1] > 0 /\ k \in Nat
        /\ b = <<b[1], 0>> /\ c = <<c[1], 0>> /\ c \in DOMAIN t
    BY <1>3, RoleShape
  <1>5. /\ f.rel.op = op /\ f.rel.x = p /\ f.rel.y = q
        /\ f.model.x = u /\ f.model.y = v /\ f.model.replacement = b[1] /\ f.model.outer = {c[1]}
        /\ f.rel = [op |-> op, x |-> p, y |-> q]
        /\ f.model = [x |-> u, y |-> v, replacement |-> b[1], outer |-> {c[1]}]
    BY DEF TwiceOf
  <1>6. /\ u \in Bases \X Int /\ u[1] = x[1] /\ u[2] = IF x[2] = n THEN -b[1] ELSE x[2]
        /\ v \in Bases \X Int /\ v[1] = y[1] /\ v[2] = IF y[2] = n THEN -b[1] ELSE y[2]
    <2> HIDE DEF n
    <2> QED BY <1>2, <1>4, ReplaceShape
  <1>7. /\ p \in Bases \X Int /\ p[1] = u[1] /\ p[2] = IF u[2] = k THEN -c[1] ELSE u[2]
        /\ q \in Bases \X Int /\ q[1] = v[1] /\ q[2] = IF v[2] = k THEN -c[1] ELSE v[2]
    <2> HIDE DEF k, u, v
    <2> QED BY <1>4, <1>6, ReplaceShape
  <1>9. n # k => b[1] # c[1]
    BY <1>4
  <1> HIDE DEF f, u, v, n, k, p, q
  <1>10. n # k
    BY <1>2, <1>3, <1>4, <1>6
  <1>11. p[2] < 0 /\ q[2] < 0 /\ p[2] # q[2]
    BY <1>2, <1>3, <1>4, <1>6, <1>7, <1>9, <1>10
  <1>12. p # q
    BY <1>11
  <1>13. f.rel \in Relation /\ f.model \in Model /\ f.rel.x # f.rel.y
    BY <1>1, <1>4, <1>5, <1>6, <1>7, <1>12 DEF Relation, Model, Ops
  <1>14. Fit(f.rel, f.model)
    BY <1>5, <1>11 DEF Fit, Shallow
  <1>15. OriginalVar(f.model.x, f.model, t) = t[x] /\ OriginalVar(f.model.y, f.model, t) = t[y]
    BY <1>1, <1>3, <1>4, <1>5, OriginalOf DEF u, v, n
  <1>16. checkInv(f.rel.op, f.model, t) = "satisfy"
    BY <1>5, <1>15, Satisfied
  <1> QED BY <1>13, <1>14, <1>16 DEF Sound, f

\* What the search finds in a call holds of the call, as text and as model.
LEMMA FoundSound ==
  ASSUME NEW t \in Dtraces, NEW f \in inferInvs(t)
  PROVE  Sound(f, t)
  <1>1. CASE f \in Normal(t)
    <2>1. PICK op, x, y : Shows(t, op, x, y) /\ f = NormalOf(op, x, y)
      BY <1>1, NormalShape
    <2> QED BY <2>1, NormalSound
  <1>2. CASE f \in Lift(Normal(t), t)
    <2>1. PICK op, x, y, b :
              Shows(t, op, x, y) /\ Names(t, b, x, y) /\ f = OnceOf(op, x, y, b, t)
      BY <1>2, OnceShape
    <2> QED BY <2>1, OnceSound
  <1>3. CASE f \in Lift(Lift(Normal(t), t), t)
    <2>1. PICK op, x, y, b, c :
              /\ Shows(t, op, x, y) /\ Names(t, b, x, y)
              /\ Names(t, c, Replace(x, t[b].val, -b[1]), Replace(y, t[b].val, -b[1]))
              /\ f = TwiceOf(op, x, y, b, c, t)
      BY <1>3, TwiceShape
    <2> QED BY <2>1, TwiceSound
  <1> QED BY <1>1, <1>2, <1>3, Zenon DEF inferInvs

LEMMA ModelsSound ==
  ASSUME NEW t \in Dtraces, NEW models \in Models(t), NEW r \in Found(t)
  PROVE  \E f \in inferInvs(t) : f.rel = r /\ f.model = models[r]
  <1> DEFINE found == inferInvs(t)
             ways(q) == {f.model : f \in {g \in found : g.rel = q}}
             two == {q \in Found(t) : Cardinality(ways(q)) > 1}
  <1>1. PICK w \in {v \in [two -> UNION {ways(q) : q \in two}] : \A q \in two : v[q] \in ways(q)} :
          models = [q \in Found(t) |-> IF q \in two THEN w[q] ELSE CHOOSE m \in ways(q) : TRUE]
    BY Zenon DEF Models
  <1>2. \E m : m \in ways(r)
    BY DEF Found
  <1>3. (CHOOSE m \in ways(r) : TRUE) \in ways(r)
    <2> HIDE DEF ways
    <2> QED BY <1>2, Zenon
  <1>4. models[r] = IF r \in two THEN w[r] ELSE CHOOSE m \in ways(r) : TRUE
    <2> HIDE DEF ways, two
    <2> QED BY <1>1
  <1>5. models[r] \in ways(r)
    <2>1. r \in two => w[r] \in ways(r)
      <3> HIDE DEF ways, two
      <3> QED BY <1>1
    <2> HIDE DEF ways, two
    <2> QED BY <1>3, <1>4, <2>1, Zenon
  <1> QED BY <1>5

-----------------------------------------------------------------------------
(* Text and model say the same of every call.                              *)

LEMMA TextOfName ==
  ASSUME NEW t, NEW m, NEW x \in Bases \X Int,
         m.replacement \in Nat, m.outer = {}, x[2] \in Nat \cup {-m.replacement},
         m.replacement # 0 => <<m.replacement, 0>> \in DOMAIN t
  PROVE  OriginalVar(x, m, t) = TextValue(x, t)
  <1>1. CASE m.replacement = 0
    <2>1. ~ (x[2] < 0)
      BY <1>1
    <2>2. OriginalVar(x, m, t) = getTraceDictVar(x, t)
      BY <1>1, Zenon DEF OriginalVar
    <2>3. TextValue(x, t) = getTraceDictVar(x, t)
      BY <2>1, Zenon DEF TextValue, Resolved
    <2> QED BY <2>2, <2>3
  <1>2. CASE m.replacement # 0
    <2> DEFINE b == m.replacement
               n == t[<<b, 0>>].val
    <2>1. ~ \E r \in m.outer \cup {b} : <<r, 0>> \notin DOMAIN t
      BY <1>2
    <2>2. OriginalVar(x, m, t) = getTraceDictVar(Replace(x, -b, n), t)
      BY <1>2, <2>1, Zenon DEF OriginalVar
    <2>3. CASE x[2] = -b
      <3>1. x[2] < 0 /\ -x[2] = b
        BY <1>2, <2>3
      <3>2. Replace(x, -b, n) = <<x[1], n>>
        BY <2>3, Zenon DEF Replace
      <3>3. Resolved(x, t) = <<x[1], n>>
        BY <3>1 DEF Resolved
      <3>4. <<-x[2], 0>> \in DOMAIN t
        BY <1>2, <3>1
      <3>5. TextValue(x, t) = getTraceDictVar(<<x[1], n>>, t)
        BY <3>3, <3>4, Zenon DEF TextValue
      <3> QED BY <2>2, <3>2, <3>5
    <2>4. CASE x[2] # -b
      <3>1. ~ (x[2] < 0)
        BY <2>4
      <3>2. Replace(x, -b, n) = x
        BY <2>4, Zenon DEF Replace
      <3>3. TextValue(x, t) = getTraceDictVar(x, t)
        BY <3>1, Zenon DEF TextValue, Resolved
      <3> QED BY <2>2, <3>2, <3>3
    <2> QED BY <2>3, <2>4
  <1> QED BY <1>1, <1>2

LEMMA TextIsModel ==
  ASSUME NEW t, NEW r \in Relation, NEW m \in Model, Fit(r, m), Shallow(r)
  PROVE  checkInv(r.op, m, t) = "satisfy" <=> TextHolds(r, t)
  <1>1. /\ m.x = r.x /\ m.y = r.y /\ m.outer = {}
        /\ r.x[2] \in Nat \cup {-m.replacement}
        /\ r.y[2] \in Nat \cup {-m.replacement}
        /\ m.replacement # 0 => -m.replacement \in {r.x[2], r.y[2]}
    BY DEF Fit
  <1>2. m.replacement \in Nat
    <2>1. m.replacement \in Bases \cup {0}
      BY DEF Model
    <2>2. \A b \in Bases \cup {0} : b \in Nat
      BY MinerAssumption
    <2> QED BY <2>1, <2>2, Zenon
  <1>3. r.x \in Bases \X Int /\ r.y \in Bases \X Int
    BY DEF Relation
  <1> DEFINE v == OriginalVar(m.x, m, t)
             w == OriginalVar(m.y, m, t)
  <1>4. checkInv(r.op, m, t) = "satisfy" <=> Nonsensical \notin {v, w} /\ checkRelation(r.op, v, w)
    <2>1. CASE Nonsensical \in {v, w}
      <3>1. checkInv(r.op, m, t) = "exist_nonsensical"
        BY <2>1, Zenon DEF checkInv
      <3> HIDE DEF v, w
      <3> QED BY <2>1, <3>1
    <2>2. CASE Nonsensical \notin {v, w}
      <3>1. checkInv(r.op, m, t) = IF checkRelation(r.op, v, w) THEN "satisfy" ELSE "violate"
        BY <2>2, Zenon DEF checkInv
      <3> HIDE DEF v, w
      <3>2. CASE checkRelation(r.op, v, w)
        BY <2>2, <3>1, <3>2
      <3>3. CASE ~ checkRelation(r.op, v, w)
        BY <2>2, <3>1, <3>3
      <3> QED BY <3>2, <3>3
    <2> QED BY <2>1, <2>2
  <1>5. CASE m.replacement # 0 => <<m.replacement, 0>> \in DOMAIN t
    <2>1. v = TextValue(r.x, t) /\ w = TextValue(r.y, t)
      BY <1>1, <1>2, <1>3, <1>5, TextOfName
    <2> QED BY <1>4, <2>1, Zenon DEF TextHolds
  <1>6. CASE ~ (m.replacement # 0 => <<m.replacement, 0>> \in DOMAIN t)
    <2>1. \E q \in m.outer \cup {m.replacement} : <<q, 0>> \notin DOMAIN t
      BY <1>6
    <2>2. v = Nonsensical
      BY <1>6, <2>1, Zenon DEF OriginalVar
    <2>3. ASSUME NEW x, x \in Bases \X Int, x[2] = -m.replacement
          PROVE  TextValue(x, t) = Nonsensical
      <3>1. x[2] < 0 /\ -x[2] = m.replacement
        BY <1>2, <1>6, <2>3
      <3>2. <<-x[2], 0>> \notin DOMAIN t
        BY <1>6, <3>1
      <3> QED BY <3>1, <3>2, Zenon DEF TextValue
    <2>4. Nonsensical \in {TextValue(r.x, t), TextValue(r.y, t)}
      BY <1>1, <1>3, <1>6, <2>3
    <2>5. ~ TextHolds(r, t)
      BY <2>4, Zenon DEF TextHolds
    <2> QED BY <1>4, <2>2, <2>5
  <1> QED BY <1>5, <1>6

-----------------------------------------------------------------------------
(* The bar.                                                                *)

LEMMA BarMonotone ==
  ASSUME threshold \in Thresholds, NEW i \in Int, NEW j \in Int, i <= j, WithinBar(j)
  PROVE  WithinBar(i)
  <1>1. threshold[1] \in Nat /\ threshold[2] \in Nat \ {0} /\ NumCalls \in Nat
    BY MinerAssumption
  <1> DEFINE d == threshold[2]
             bar == NumCalls * (threshold[2] - threshold[1])
  <1>2. d \in Nat /\ bar \in Int
    BY <1>1
  <1>3. j * d <= bar
    BY Zenon DEF WithinBar
  <1> HIDE DEF d, bar
  <1>4. (j - i) * d >= 0 /\ (j - i) * d = j * d - i * d
    BY <1>2
  <1>5. i * d <= bar
    BY <1>2, <1>3, <1>4
  <1> QED BY <1>5, Zenon DEF WithinBar, d, bar

\* With threshold 1 no failure is within the bar.
LEMMA BarStrict ==
  ASSUME threshold \in Thresholds, threshold[1] = threshold[2], NEW i \in Int
  PROVE  WithinBar(i) <=> i <= 0
  <1>1. threshold[1] \in Nat /\ threshold[2] \in Nat \ {0} /\ NumCalls \in Nat
    BY MinerAssumption
  <1> DEFINE d == threshold[2]
  <1>2. NumCalls * (threshold[2] - threshold[1]) = 0
    BY <1>1
  <1>3. WithinBar(i) <=> i * d <= 0
    BY <1>2 DEF WithinBar
  <1>4. d \in Nat \ {0}
    BY <1>1
  <1> HIDE DEF d
  <1>5. i * d <= 0 <=> i <= 0
    BY <1>4
  <1> QED BY <1>3, <1>5

-----------------------------------------------------------------------------
(* Counting.                                                               *)

\* The next call is searched.
Searching == Count = 0 \/ WithinBar(Count + 1)

MissedIn(r) ==
    {i \in DOMAIN seen : IF i \in Searched THEN r \notin Found(seen[i])
                         ELSE ~TextHolds(r, seen[i])}

LEMMA SearchedStep ==
  ASSUME seen \in Seq(Dtraces), NEW t \in Dtraces, seen' = Append(seen, t),
         threshold' = threshold
  PROVE  /\ Searched' = IF Searching THEN Searched \cup {Count + 1} ELSE Searched
         /\ Count + 1 \in Searched' <=> Searching
         /\ Count + 1 \notin Searched
  <1>1. /\ Count \in Nat /\ DOMAIN seen = 1..Count /\ DOMAIN seen' = 1..(Count + 1)
    BY DEF Count
  <1>2. \A i : WithinBar(i)' <=> WithinBar(i)
    BY DEF WithinBar
  <1>3. Searched' = {i \in 1..(Count + 1) : i = 1 \/ WithinBar(i)}
    BY <1>1, <1>2 DEF Searched
  <1>4. Searched = {i \in 1..Count : i = 1 \/ WithinBar(i)}
    BY <1>1 DEF Searched
  <1>5. ASSUME NEW i PROVE i \in Searched' <=> i \in Searched \/ (i = Count + 1 /\ Searching)
    BY <1>1, <1>3, <1>4 DEF Searching
  <1>6. Count + 1 \notin Searched
    BY <1>1, <1>4
  <1> QED BY <1>5, <1>6

LEMMA MissesStep ==
  ASSUME seen \in Seq(Dtraces), NEW t \in Dtraces, seen' = Append(seen, t),
         threshold' = threshold, NEW r
  PROVE  /\ Misses(r) \in Nat /\ Misses(r)' \in Nat
         /\ Misses(r)' = IF (IF Searching THEN r \notin Found(t) ELSE ~TextHolds(r, t))
                        THEN Misses(r) + 1 ELSE Misses(r)
         /\ MissedIn(r) = 1..Count => Misses(r) = Count
  <1>1. /\ Count \in Nat /\ DOMAIN seen = 1..Count /\ DOMAIN seen' = 1..(Count + 1)
        /\ Count + 1 \notin 1..Count
    BY DEF Count
  <1>2. /\ \A i \in 1..Count : seen'[i] = seen[i]
        /\ seen'[Count + 1] = t
    BY DEF Count
  <1>3. /\ Searched' = IF Searching THEN Searched \cup {Count + 1} ELSE Searched
        /\ Count + 1 \in Searched' <=> Searching
    BY SearchedStep
  <1>4. MissedIn(r)' = {i \in DOMAIN seen' : IF i \in Searched' THEN r \notin Found(seen'[i])
                                           ELSE ~TextHolds(r, seen'[i])}
    BY Zenon DEF MissedIn
  <1> DEFINE miss == IF Searching THEN r \notin Found(t) ELSE ~TextHolds(r, t)
  <1>5. ASSUME NEW i \in 1..Count PROVE i \in MissedIn(r)' <=> i \in MissedIn(r)
    <2>1. i \in Searched' <=> i \in Searched
      BY <1>1, <1>3
    <2>2. i \in DOMAIN seen /\ i \in DOMAIN seen' /\ seen'[i] = seen[i]
      BY <1>1, <1>2
    <2> QED BY <1>4, <2>1, <2>2, Zenon DEF MissedIn
  <1>6. Count + 1 \in MissedIn(r)' <=> miss
    <2>1. Count + 1 \in DOMAIN seen' /\ seen'[Count + 1] = t
      BY <1>1, <1>2
    <2> QED BY <1>3, <1>4, <2>1, Zenon
  <1>7. MissedIn(r) \subseteq 1..Count /\ MissedIn(r)' \subseteq 1..(Count + 1)
    BY <1>1, <1>4 DEF MissedIn
  <1> HIDE DEF miss
  <1>8. MissedIn(r)' = IF miss THEN MissedIn(r) \cup {Count + 1} ELSE MissedIn(r)
    <2>1. \A i : i \in 1..(Count + 1) <=> i \in 1..Count \/ i = Count + 1
      BY <1>1
    <2>2. Count + 1 \notin MissedIn(r)
      BY <1>1, <1>7
    <2>3. ASSUME NEW i PROVE i \in MissedIn(r)' <=> i \in MissedIn(r) \/ (i = Count + 1 /\ miss)
      <3>1. CASE i \in 1..Count
        <4>1. i # Count + 1
          BY <1>1, <3>1
        <4> QED BY <1>5, <3>1, <4>1, Zenon
      <3>2. CASE i \notin 1..Count
        <4>1. i \notin MissedIn(r) /\ (i \in MissedIn(r)' => i = Count + 1)
          BY <1>7, <2>1, <3>2
        <4> QED BY <1>6, <4>1, Zenon
      <3> QED BY <3>1, <3>2
    <2>4. CASE miss
      BY <2>3, <2>4
    <2>5. CASE ~miss
      BY <2>3, <2>5
    <2> QED BY <2>4, <2>5
  <1>9. /\ IsFiniteSet(1..Count) /\ Cardinality(1..Count) = Count
    BY <1>1, FS_Interval
  <1>10. IsFiniteSet(MissedIn(r)) /\ Cardinality(MissedIn(r)) \in Nat
    BY <1>7, <1>9, FS_Subset, FS_CardinalityType
  <1>11. Cardinality(MissedIn(r) \cup {Count + 1}) = Cardinality(MissedIn(r)) + 1
    <2>1. Count + 1 \notin MissedIn(r)
      BY <1>1, <1>7
    <2> QED BY <1>10, <2>1, FS_AddElement
  <1>12. /\ Misses(r) = Cardinality(MissedIn(r))
         /\ Misses(r)' = Cardinality(MissedIn(r)')
    BY Zenon DEF Misses, MissedIn
  <1>13. Misses(r)' = IF miss THEN Misses(r) + 1 ELSE Misses(r)
    BY <1>8, <1>11, <1>12
  <1>14. Misses(r) \in Nat /\ Misses(r)' \in Nat
    BY <1>10, <1>12, <1>13
  <1> QED BY <1>9, <1>12, <1>13, <1>14, Zenon DEF miss

-----------------------------------------------------------------------------
(* The inductive invariant.                                                *)

Shown == UNION {Found(seen[i]) : i \in Searched}

\* Entries come from searched calls, and their models fit their texts.
EntriesFit ==
    /\ Count = 0 => DOMAIN invs = {}
    /\ DOMAIN invs \subseteq Shown
    /\ \A r \in DOMAIN invs : Fit(r, invs[r].model)

\* The count of an entry is the number of calls that did not fail it.
CountsExact ==
    \A r \in DOMAIN invs : Shallow(r) => invs[r].num = Count - Misses(r)

\* So far exactly the relations within the bar are left, once the search has ended.
KeptSoFar ==
    Count > 0 =>
        \A r \in Shown : Shallow(r) =>
            (r \in DOMAIN invs <=> Count \in Searched \/ WithinBar(Misses(r)))

\* With threshold 1 every call satisfies every entry.
AllSatisfied ==
    threshold[1] = threshold[2] =>
        \A r \in DOMAIN invs :
            /\ invs[r].num = Count
            /\ \A j \in DOMAIN seen : checkInv(r.op, invs[r].model, seen[j]) = "satisfy"

Verdicts ==
    /\ Count = NumCalls => /\ DOMAIN keyInvs = DOMAIN invs
                           /\ \A r \in DOMAIN invs : keyInvs[r] = invs[r]
    /\ Count # NumCalls => DOMAIN keyInvs = {} /\ checked = <<>>
    /\ violations \in Seq(SUBSET Relation)
    /\ \A i \in DOMAIN checked :
          violations[i] = {r \in DOMAIN keyInvs :
                              checkInv(r.op, keyInvs[r].model, checked[i]) = "violate"}

Inv == TypeOK /\ EntriesFit /\ CountsExact /\ KeptSoFar /\ AllSatisfied /\ Verdicts

LEMMA InitInv == Init => Inv
  <1> SUFFICES ASSUME Init PROVE Inv
    OBVIOUS
  <1>1. /\ threshold \in Thresholds /\ seen = <<>> /\ checked = <<>> /\ violations = <<>>
        /\ DOMAIN invs = {} /\ DOMAIN keyInvs = {}
    BY DEF Init
  <1>2. Count = 0 /\ NumCalls \in Nat \ {0}
    BY <1>1, MinerAssumption DEF Count
  <1>3. TypeOK
    BY <1>1, <1>2 DEF TypeOK
  <1>4. EntriesFit /\ CountsExact /\ KeptSoFar /\ AllSatisfied
    BY <1>1, <1>2 DEF EntriesFit, CountsExact, KeptSoFar, AllSatisfied
  <1>5. Verdicts
    BY <1>1, <1>2 DEF Verdicts
  <1> QED BY <1>3, <1>4, <1>5 DEF Inv

\* While the search goes on, all calls so far were searched.
LEMMA AllSearched ==
  ASSUME seen \in Seq(Dtraces), threshold \in Thresholds, Searching
  PROVE  Searched = 1..Count
  <1>1. Count \in Nat /\ DOMAIN seen = 1..Count
    BY DEF Count
  <1>2. ASSUME NEW i \in 1..Count PROVE i = 1 \/ WithinBar(i)
    <2>1. Count # 0 /\ i \in Int /\ i <= Count + 1 /\ Count + 1 \in Int
      BY <1>1
    <2>2. WithinBar(Count + 1)
      BY <2>1 DEF Searching
    <2> QED BY <2>1, <2>2, BarMonotone
  <1> QED BY <1>1, <1>2 DEF Searched

LEMMA SearchedBefore ==
  ASSUME seen \in Seq(Dtraces), Searching, threshold \in Thresholds, NEW r, r \notin Shown
  PROVE  MissedIn(r) = 1..Count
  <1>1. Count \in Nat /\ DOMAIN seen = 1..Count /\ Searched = 1..Count
    BY AllSearched DEF Count
  <1>2. ASSUME NEW i \in 1..Count PROVE r \notin Found(seen[i])
    BY <1>1 DEF Shown
  <1> QED BY <1>1, <1>2 DEF MissedIn

LEMMA ShownStep ==
  ASSUME seen \in Seq(Dtraces), NEW t \in Dtraces, seen' = Append(seen, t),
         threshold' = threshold
  PROVE  Shown' = IF Searching THEN Shown \cup Found(t) ELSE Shown
  <1>1. /\ Count \in Nat /\ DOMAIN seen = 1..Count
        /\ \A i \in 1..Count : seen'[i] = seen[i]
        /\ seen'[Count + 1] = t
    BY DEF Count
  <1>2. Searched' = IF Searching THEN Searched \cup {Count + 1} ELSE Searched
    BY SearchedStep
  <1>3. Searched \subseteq 1..Count
    BY <1>1 DEF Searched
  <1>4. Shown' = UNION {Found(seen'[i]) : i \in Searched'}
    BY Zenon DEF Shown
  <1>5. \A i \in Searched : seen'[i] = seen[i]
    BY <1>1, <1>3
  <1>6. ASSUME NEW r PROVE r \in Shown' <=> r \in Shown \/ (Searching /\ r \in Found(t))
    <2>1. r \in Shown' <=> \E i \in Searched' : r \in Found(seen'[i])
      BY <1>4
    <2>2. r \in Shown <=> \E i \in Searched : r \in Found(seen[i])
      BY DEF Shown
    <2> QED BY <1>1, <1>2, <1>5, <2>1, <2>2
  <1> QED BY <1>6

-----------------------------------------------------------------------------
(* A call that is searched.                                                *)

LEMMA SearchStep ==
  ASSUME Inv, NEW t \in Dtraces, Count < NumCalls, seen' = Append(seen, t), Searching,
         NEW models \in Models(t), invs' = searchInvs(t, models),
         threshold' = threshold
  PROVE  /\ (\A r \in DOMAIN invs :
                /\ r \in Relation
                /\ invs[r] \in [num : 1..Count, model : Model]
                /\ r.x # r.y)'
         /\ EntriesFit' /\ CountsExact' /\ KeptSoFar' /\ AllSatisfied'
  <1>1. /\ threshold \in Thresholds /\ seen \in Seq(Dtraces) /\ Count \in Nat
        /\ DOMAIN seen = 1..Count /\ DOMAIN seen' = 1..(Count + 1)
        /\ seen'[Count + 1] = t
        /\ Count' = Count + 1
    BY DEF Inv, TypeOK, Count
  <1>2. \A r \in DOMAIN invs :
            /\ r \in Relation
            /\ invs[r] \in [num : 1..Count, model : Model]
            /\ invs[r].num \in 1..Count /\ invs[r].model \in Model
            /\ r.x # r.y
    BY DEF Inv, TypeOK
  <1>3. DOMAIN invs' = DOMAIN invs \cup Found(t)
    BY DEF searchInvs
  <1>4. ASSUME NEW r \in Found(t)
        PROVE  /\ r \in Relation /\ models[r] \in Model /\ r.x # r.y /\ Fit(r, models[r])
               /\ checkInv(r.op, models[r], t) = "satisfy"
    <2>1. PICK f \in inferInvs(t) : f.rel = r /\ f.model = models[r]
      BY ModelsSound
    <2>2. Sound(f, t)
      BY FoundSound
    <2> QED BY <2>1, <2>2, Zenon DEF Sound
  <1>5. ASSUME NEW r \in Found(t), r \notin DOMAIN invs
        PROVE  invs'[r] = [num |-> 1, model |-> models[r]]
    BY <1>5 DEF searchInvs
  <1>6. ASSUME NEW r \in DOMAIN invs
        PROVE  /\ invs'[r] = [num |-> invs'[r].num, model |-> invs[r].model]
               /\ invs'[r].model = invs[r].model
               /\ invs'[r].num = IF r \in Found(t) THEN invs[r].num + 1 ELSE invs[r].num
    <2>0. invs[r] = [num |-> invs[r].num, model |-> invs[r].model]
      BY <1>2
    <2>1. CASE r \in Found(t)
      <3>1. invs'[r] = [invs[r] EXCEPT !.num = @ + 1]
        BY <2>1 DEF searchInvs
      <3>2. ASSUME NEW e, NEW n, NEW m, e = [num |-> n, model |-> m]
            PROVE  [e EXCEPT !.num = @ + 1] = [num |-> n + 1, model |-> m]
        BY <3>2
      <3>3. invs'[r] = [num |-> invs[r].num + 1, model |-> invs[r].model]
        BY <2>0, <3>1, <3>2
      <3> QED BY <2>1, <3>3
    <2>2. CASE r \notin Found(t)
      <3>1. invs'[r] = invs[r]
        BY <2>2 DEF searchInvs
      <3> QED BY <2>0, <2>2, <3>1
    <2> QED BY <2>1, <2>2
  <1>7. ASSUME NEW r \in DOMAIN invs'
        PROVE  /\ r \in Relation /\ r.x # r.y
               /\ invs'[r].num \in 1..(Count + 1) /\ invs'[r].model \in Model
               /\ invs'[r] \in [num : 1..(Count + 1), model : Model]
               /\ Fit(r, invs'[r].model)
    <2>1. CASE r \in DOMAIN invs
      <3>1. Fit(r, invs[r].model)
        BY <2>1 DEF Inv, EntriesFit
      <3>2. invs'[r].num = IF r \in Found(t) THEN invs[r].num + 1 ELSE invs[r].num
        BY <1>6, <2>1, Zenon
      <3>3. invs'[r].model = invs[r].model /\ invs'[r] = [num |-> invs'[r].num, model |-> invs[r].model]
        BY <1>6, <2>1, Zenon
      <3>4. r \in Relation /\ invs[r].num \in 1..Count /\ invs[r].model \in Model /\ r.x # r.y
        BY <1>2, <2>1, Zenon
      <3>5. invs'[r].num \in 1..(Count + 1)
        BY <1>1, <3>2, <3>4
      <3>6. invs'[r] \in [num : 1..(Count + 1), model : Model]
        BY <3>3, <3>4, <3>5
      <3> QED BY <3>1, <3>3, <3>4, <3>5, <3>6
    <2>2. CASE r \notin DOMAIN invs
      BY <1>1, <1>3, <1>4, <1>5, <2>2
    <2> QED BY <2>1, <2>2
  <1>8. (\A r \in DOMAIN invs :
            /\ r \in Relation
            /\ invs[r] \in [num : 1..Count, model : Model]
            /\ r.x # r.y)'
    BY <1>1, <1>7
  <1>9. Shown' = Shown \cup Found(t)
    BY <1>1, ShownStep
  <1>10. DOMAIN invs \subseteq Shown
    BY DEF Inv, EntriesFit
  <1>11. EntriesFit'
    BY <1>1, <1>3, <1>7, <1>9, <1>10 DEF EntriesFit
  <1>12. ASSUME NEW r \in Shown, Shallow(r) PROVE r \in DOMAIN invs
    <2>1. Searched = 1..Count
      BY <1>1, AllSearched
    <2>2. Count > 0 /\ Count \in Searched
      BY <1>1, <2>1 DEF Shown
    <2> QED BY <1>12, <2>2 DEF Inv, KeptSoFar
  <1>13. ASSUME NEW r \in DOMAIN invs', Shallow(r)
         PROVE  invs'[r].num = Count + 1 - Misses(r)'
    <2>1. /\ Misses(r) \in Nat
          /\ Misses(r)' = IF r \notin Found(t) THEN Misses(r) + 1 ELSE Misses(r)
          /\ MissedIn(r) = 1..Count => Misses(r) = Count
      BY <1>1, MissesStep
    <2>2. CASE r \in DOMAIN invs
      <3>1. invs[r].num = Count - Misses(r)
        BY <1>13, <2>2 DEF Inv, CountsExact
      <3>2. invs'[r].num = IF r \in Found(t) THEN invs[r].num + 1 ELSE invs[r].num
        BY <1>6, <2>2
      <3> QED BY <1>1, <2>1, <3>1, <3>2
    <2>3. CASE r \notin DOMAIN invs
      <3>1. r \in Found(t) /\ invs'[r].num = 1
        BY <1>3, <1>5, <2>3
      <3>2. r \notin Shown
        BY <1>12, <1>13, <2>3
      <3>3. Misses(r) = Count
        BY <1>1, <2>1, <3>2, SearchedBefore
      <3> QED BY <1>1, <2>1, <3>1, <3>3
    <2> QED BY <2>2, <2>3
  <1>14. CountsExact'
    <2>1. ASSUME NEW r \in DOMAIN invs', Shallow(r)
          PROVE  (invs[r].num = Count - Misses(r))'
      <3>1. invs'[r].num = Count + 1 - Misses(r)'
        BY <1>13, <2>1
      <3>2. Count' = Count + 1 /\ Count \in Nat /\ Misses(r)' \in Nat
        BY <1>1, MissesStep
      <3> QED BY <3>1, <3>2
    <2> QED BY <2>1, Zenon DEF CountsExact
  <1>15. KeptSoFar'
    <2>1. Count' \in Searched'
      BY <1>1, SearchedStep
    <2>2. ASSUME NEW r \in Shown', Shallow(r) PROVE r \in DOMAIN invs'
      BY <1>3, <1>9, <1>12, <2>2
    <2> QED BY <2>1, <2>2 DEF KeptSoFar
  <1>16. AllSatisfied'
    <2> SUFFICES ASSUME threshold[1] = threshold[2], NEW r \in DOMAIN invs'
                 PROVE  /\ invs'[r].num = Count'
                        /\ \A j \in DOMAIN seen' :
                              checkInv(r.op, invs'[r].model, seen'[j]) = "satisfy"
      BY DEF AllSatisfied
    <2>1. Count = 0
      BY <1>1, BarStrict DEF Searching
    <2>2. DOMAIN invs = {}
      BY <2>1 DEF Inv, EntriesFit
    <2>3. r \in Found(t) /\ invs'[r].num = 1 /\ invs'[r].model = models[r]
      BY <1>3, <1>5, <2>2
    <2>4. \A j \in DOMAIN seen' : seen'[j] = t
      BY <1>1, <2>1
    <2> QED BY <1>1, <1>4, <2>1, <2>3, <2>4
  <1> QED BY <1>8, <1>11, <1>14, <1>15, <1>16

-----------------------------------------------------------------------------
(* A call that is only counted.                                            *)

LEMMA IncrementStep ==
  ASSUME Inv, NEW t \in Dtraces, Count < NumCalls, seen' = Append(seen, t), ~Searching,
         invs' = increment(t), threshold' = threshold
  PROVE  /\ (\A r \in DOMAIN invs :
                /\ r \in Relation
                /\ invs[r] \in [num : 1..Count, model : Model]
                /\ r.x # r.y)'
         /\ EntriesFit' /\ CountsExact' /\ KeptSoFar' /\ AllSatisfied'
  <1> DEFINE hit(r) == IF checkInv(r.op, invs[r].model, t) = "satisfy" THEN 1 ELSE 0
             num(r) == invs[r].num + hit(r)
  <1>1. /\ threshold \in Thresholds /\ seen \in Seq(Dtraces) /\ Count \in Nat
        /\ DOMAIN seen = 1..Count /\ DOMAIN seen' = 1..(Count + 1)
        /\ \A i \in 1..Count : seen'[i] = seen[i]
        /\ seen'[Count + 1] = t
        /\ Count' = Count + 1
    BY DEF Inv, TypeOK, Count
  <1>2. Count > 0 /\ ~WithinBar(Count + 1)
    BY <1>1 DEF Searching
  <1>3. \A r \in DOMAIN invs :
            /\ r \in Relation
            /\ invs[r] \in [num : 1..Count, model : Model]
            /\ invs[r].num \in 1..Count /\ invs[r].model \in Model
            /\ r.x # r.y
    BY DEF Inv, TypeOK
  <1>4. invs' = [r \in {q \in DOMAIN invs : WithinBar(Count + 1 - num(q))} |->
                    [invs[r] EXCEPT !.num = num(r)]]
    BY Zenon DEF increment
  <1>5. \A r : r \in DOMAIN invs' <=> r \in DOMAIN invs /\ WithinBar(Count + 1 - num(r))
    BY <1>4
  <1>6. \A r : hit(r) \in {0, 1}
    OBVIOUS
  <1>7. ASSUME NEW r \in DOMAIN invs
        PROVE  num(r) \in 1..(Count + 1) /\ num(r) \in Nat
    <2>1. invs[r].num \in 1..Count /\ hit(r) \in {0, 1}
      BY <1>3, <1>6
    <2> HIDE DEF hit
    <2> QED BY <1>1, <2>1
  <1>8. ASSUME NEW r \in DOMAIN invs'
        PROVE  invs'[r] = [num |-> num(r), model |-> invs[r].model]
    <2>1. invs'[r] = [invs[r] EXCEPT !.num = num(r)] /\ r \in DOMAIN invs
      BY <1>4, <1>5
    <2>2. invs[r] = [num |-> invs[r].num, model |-> invs[r].model]
      BY <1>3, <2>1
    <2>3. ASSUME NEW e, NEW n, NEW m, NEW k, e = [num |-> n, model |-> m]
          PROVE  [e EXCEPT !.num = k] = [num |-> k, model |-> m]
      BY <2>3
    <2> HIDE DEF num
    <2> QED BY <2>1, <2>2, <2>3
  <1> HIDE DEF num
  <1>9. ASSUME NEW r \in DOMAIN invs'
        PROVE  invs'[r].num = num(r) /\ invs'[r].model = invs[r].model
    BY <1>8
  <1>10. ASSUME NEW r \in DOMAIN invs'
         PROVE  /\ r \in Relation /\ r.x # r.y
                /\ invs'[r] \in [num : 1..(Count + 1), model : Model]
                /\ Fit(r, invs'[r].model)
    <2>1. r \in DOMAIN invs
      BY <1>5
    <2>2. r \in Relation /\ r.x # r.y /\ invs[r].model \in Model
      BY <1>3, <2>1, Zenon
    <2>3. num(r) \in 1..(Count + 1)
      BY <1>7, <2>1
    <2>4. invs'[r] \in [num : 1..(Count + 1), model : Model]
      BY <1>8, <2>2, <2>3
    <2>5. Fit(r, invs[r].model)
      BY <2>1 DEF Inv, EntriesFit
    <2> QED BY <1>9, <2>2, <2>4, <2>5
  <1>11. (\A r \in DOMAIN invs :
            /\ r \in Relation
            /\ invs[r] \in [num : 1..Count, model : Model]
            /\ r.x # r.y)'
    BY <1>1, <1>10
  <1>12. Shown' = Shown
    BY <1>1, ShownStep
  <1>13. EntriesFit'
    <2>1. DOMAIN invs \subseteq Shown
      BY DEF Inv, EntriesFit
    <2> QED BY <1>1, <1>5, <1>10, <1>12, <2>1 DEF EntriesFit
  <1>14. ASSUME NEW r \in DOMAIN invs, Shallow(r)
         PROVE  num(r) = Count + 1 - Misses(r)'
    <2>1. /\ Misses(r) \in Nat
          /\ Misses(r)' = IF ~TextHolds(r, t) THEN Misses(r) + 1 ELSE Misses(r)
      BY <1>1, MissesStep
    <2>2. invs[r].num = Count - Misses(r)
      BY <1>14 DEF Inv, CountsExact
    <2>3. r \in Relation /\ invs[r].model \in Model /\ Fit(r, invs[r].model)
      BY <1>3 DEF Inv, EntriesFit
    <2>4. checkInv(r.op, invs[r].model, t) = "satisfy" <=> TextHolds(r, t)
      BY <1>14, <2>3, TextIsModel
    <2>5. hit(r) = IF TextHolds(r, t) THEN 1 ELSE 0
      BY <2>4
    <2> HIDE DEF hit
    <2> QED BY <1>1, <2>1, <2>2, <2>5 DEF num
  <1>15. CountsExact'
    <2>1. ASSUME NEW r \in DOMAIN invs', Shallow(r)
          PROVE  (invs[r].num = Count - Misses(r))'
      <3>1. invs'[r].num = Count + 1 - Misses(r)'
        BY <1>5, <1>9, <1>14, <2>1
      <3>2. Count' = Count + 1 /\ Count \in Nat /\ Misses(r)' \in Nat
        BY <1>1, MissesStep
      <3> QED BY <3>1, <3>2
    <2> QED BY <2>1, Zenon DEF CountsExact
  <1>16. KeptSoFar'
    <2>1. Count' \notin Searched'
      BY <1>1, SearchedStep
    <2>2. ASSUME NEW r \in Shown, Shallow(r)
          PROVE  r \in DOMAIN invs' <=> WithinBar(Misses(r)')
      <3>1. /\ Misses(r) \in Nat /\ Misses(r)' \in Nat /\ Misses(r) <= Misses(r)'
        BY <1>1, MissesStep
      <3>2. CASE r \in DOMAIN invs
        <4>1. num(r) = Count + 1 - Misses(r)' /\ num(r) \in Nat
          BY <1>7, <1>14, <2>2, <3>2
        <4>2. Count + 1 - num(r) = Misses(r)'
          BY <1>1, <3>1, <4>1
        <4> QED BY <1>5, <3>2, <4>2
      <3>3. CASE r \notin DOMAIN invs
        <4>1. ~WithinBar(Misses(r))
          BY <1>2, <2>2, <3>3 DEF Inv, KeptSoFar
        <4>2. ~WithinBar(Misses(r)')
          BY <1>1, <3>1, <4>1, BarMonotone
        <4> QED BY <1>5, <3>3, <4>2
      <3> QED BY <3>2, <3>3
    <2>3. \A i : WithinBar(i)' <=> WithinBar(i)
      BY DEF WithinBar
    <2>4. ASSUME NEW r \in Shown', Shallow(r)
          PROVE  (r \in DOMAIN invs <=> Count \in Searched \/ WithinBar(Misses(r)))'
      <3>1. WithinBar(Misses(r))' <=> WithinBar(Misses(r)')
        BY Zenon DEF WithinBar
      <3>2. r \in DOMAIN invs' <=> WithinBar(Misses(r)')
        BY <1>12, <2>2, <2>4
      <3> QED BY <2>1, <3>1, <3>2
    <2> QED BY <2>4, Zenon DEF KeptSoFar
  <1>17. AllSatisfied'
    <2> SUFFICES ASSUME threshold[1] = threshold[2], NEW r \in DOMAIN invs'
                 PROVE  /\ invs'[r].num = Count'
                        /\ \A j \in DOMAIN seen' :
                              checkInv(r.op, invs'[r].model, seen'[j]) = "satisfy"
      BY DEF AllSatisfied
    <2>1. r \in DOMAIN invs /\ WithinBar(Count + 1 - num(r))
      BY <1>5
    <2>2. /\ invs[r].num = Count
          /\ \A j \in DOMAIN seen : checkInv(r.op, invs[r].model, seen[j]) = "satisfy"
      BY <2>1 DEF Inv, AllSatisfied
    <2>3. Count + 1 - num(r) <= 0
      BY <1>1, <1>7, <2>1, BarStrict
    <2>4. num(r) = Count + hit(r) /\ hit(r) \in {0, 1}
      BY <1>6, <2>2 DEF num
    <2>5. hit(r) = 1 /\ num(r) = Count + 1
      <3> HIDE DEF hit
      <3> QED BY <1>1, <2>3, <2>4
    <2>6. checkInv(r.op, invs[r].model, t) = "satisfy"
      BY <2>5
    <2>7. \A j \in 1..(Count + 1) : j \in 1..Count \/ j = Count + 1
      BY <1>1
    <2>8. \A j \in DOMAIN seen' : checkInv(r.op, invs[r].model, seen'[j]) = "satisfy"
      BY <1>1, <2>2, <2>6, <2>7
    <2> QED BY <1>1, <1>9, <2>5, <2>8
  <1> QED BY <1>11, <1>13, <1>15, <1>16, <1>17

-----------------------------------------------------------------------------
(* All steps.                                                              *)

LEMMA MineStep ==
  ASSUME Inv, NEW t \in Dtraces, Mine(t)
  PROVE  Inv'
  <1>1. /\ Count < NumCalls /\ seen' = Append(seen, t)
        /\ threshold' = threshold /\ checked' = checked /\ violations' = violations
        /\ keyInvs' = IF Count + 1 = NumCalls THEN selectKeyInvs(invs') ELSE keyInvs
    BY DEF Mine
  <1>2. /\ (\A r \in DOMAIN invs :
                /\ r \in Relation
                /\ invs[r] \in [num : 1..Count, model : Model]
                /\ r.x # r.y)'
        /\ EntriesFit' /\ CountsExact' /\ KeptSoFar' /\ AllSatisfied'
    <2>1. CASE Searching
      <3>1. PICK models \in Models(t) : invs' = searchInvs(t, models)
        BY <2>1 DEF Mine, Searching
      <3> QED BY <1>1, <2>1, <3>1, SearchStep
    <2>2. CASE ~Searching
      <3>1. invs' = increment(t)
        BY <2>2 DEF Mine, Searching
      <3> QED BY <1>1, <2>2, <3>1, IncrementStep
    <2> QED BY <2>1, <2>2
  <1>3. /\ threshold \in Thresholds /\ seen \in Seq(Dtraces) /\ Count \in Nat
        /\ NumCalls \in Nat /\ checked \in Seq(Dtraces) /\ Len(violations) = Len(checked)
    BY MinerAssumption DEF Inv, TypeOK, Count
  <1>4. seen' \in Seq(Dtraces) /\ Count' = Count + 1
    BY <1>1, <1>3 DEF Count
  <1>5. /\ DOMAIN keyInvs = {} /\ checked = <<>> /\ violations \in Seq(SUBSET Relation)
    <2>1. Count # NumCalls
      BY <1>1, <1>3
    <2> QED BY <2>1 DEF Inv, Verdicts
  <1>6. /\ Count + 1 = NumCalls => /\ DOMAIN keyInvs' = DOMAIN invs'
                                   /\ \A r \in DOMAIN invs' : keyInvs'[r] = invs'[r]
        /\ Count + 1 # NumCalls => DOMAIN keyInvs' = {}
    <2>1. CASE Count + 1 = NumCalls
      <3>1. keyInvs' = [r \in {q \in DOMAIN invs' : invs'[q].num >= 0} |-> invs'[r]]
        BY <1>1, <2>1 DEF selectKeyInvs
      <3>2. ASSUME NEW r \in DOMAIN invs' PROVE invs'[r].num >= 0
        <4>1. invs'[r].num \in 1..Count'
          BY <1>2
        <4> QED BY <4>1, <1>3, <1>4
      <3>3. {q \in DOMAIN invs' : invs'[q].num >= 0} = DOMAIN invs'
        BY <3>2
      <3> QED BY <2>1, <3>1, <3>3
    <2>2. CASE Count + 1 # NumCalls
      BY <1>1, <1>5, <2>2
    <2> QED BY <2>1, <2>2
  <1>7. TypeOK'
    <2>1. DOMAIN keyInvs' \subseteq DOMAIN invs'
      BY <1>6
    <2>2. Count' <= NumCalls
      BY <1>1, <1>3, <1>4
    <2> QED BY <1>1, <1>2, <1>3, <1>4, <2>1, <2>2 DEF TypeOK
  <1>8. Verdicts'
    BY <1>1, <1>4, <1>5, <1>6 DEF Verdicts
  <1> QED BY <1>2, <1>7, <1>8 DEF Inv

LEMMA CheckStep ==
  ASSUME Inv, NEW t \in Dtraces, checkInvs(t)
  PROVE  Inv'
  <1>1. /\ Count = NumCalls /\ checked' = Append(checked, t)
        /\ violations' = Append(violations,
              {r \in DOMAIN keyInvs : checkInv(r.op, keyInvs[r].model, t) = "violate"})
        /\ threshold' = threshold /\ seen' = seen /\ invs' = invs /\ keyInvs' = keyInvs
    BY DEF checkInvs
  <1> DEFINE bad(u) == {r \in DOMAIN keyInvs : checkInv(r.op, keyInvs[r].model, u) = "violate"}
  <1>2. /\ checked \in Seq(Dtraces) /\ Len(violations) = Len(checked)
        /\ violations \in Seq(SUBSET Relation)
        /\ DOMAIN keyInvs \subseteq DOMAIN invs /\ DOMAIN invs \subseteq Relation
    BY DEF Inv, TypeOK, Verdicts
  <1>3. bad(t) \in SUBSET Relation
    BY <1>2
  <1>4. \A i \in DOMAIN checked : violations[i] = bad(checked[i])
    BY DEF Inv, Verdicts
  <1>5. violations' = Append(violations, bad(t))
    BY <1>1
  <1> HIDE DEF bad
  <1>6. /\ checked' \in Seq(Dtraces) /\ Len(violations') = Len(checked')
        /\ violations' \in Seq(SUBSET Relation)
    BY <1>1, <1>2, <1>3, <1>5
  <1>7. \A i \in DOMAIN checked' : violations'[i] = bad(checked'[i])
    <2> DEFINE n == Len(checked)
    <2>1. n \in Nat /\ DOMAIN checked = 1..n /\ DOMAIN checked' = 1..(n + 1)
      BY <1>1, <1>2
    <2>2. checked'[n + 1] = t /\ \A i \in 1..n : checked'[i] = checked[i]
      BY <1>1, <1>2
    <2>3. violations'[n + 1] = bad(t) /\ \A i \in 1..n : violations'[i] = violations[i]
      BY <1>2, <1>3, <1>5
    <2>4. \A i \in 1..(n + 1) : i \in 1..n \/ i = n + 1
      BY <2>1
    <2> HIDE DEF n
    <2> QED BY <1>4, <2>1, <2>2, <2>3, <2>4
  <1>8. Count' = Count
    BY <1>1 DEF Count
  <1>9. TypeOK'
    BY <1>1, <1>6, <1>8 DEF Inv, TypeOK
  <1>10. Searched' = Searched
    BY <1>1 DEF Searched, WithinBar
  <1>11. Shown' = Shown /\ \A r : Misses(r)' = Misses(r)
    BY <1>1, <1>10 DEF Shown, Misses
  <1>12. EntriesFit'
    BY <1>1, <1>8, <1>11 DEF Inv, EntriesFit
  <1>13. CountsExact'
    BY <1>1, <1>8, <1>11 DEF Inv, CountsExact
  <1>14. KeptSoFar'
    BY <1>1, <1>8, <1>10, <1>11 DEF Inv, KeptSoFar, WithinBar
  <1>15. AllSatisfied'
    BY <1>1, <1>8 DEF Inv, AllSatisfied
  <1>16. Verdicts'
    BY <1>1, <1>6, <1>7, <1>8 DEF Inv, Verdicts, bad
  <1> QED BY <1>9, <1>12, <1>13, <1>14, <1>15, <1>16 DEF Inv

(***************************************************************************)
(* The invariant is inductive: mining a call, by search or by counting, and *)
(* checking a call preserve it.                                             *)
(***************************************************************************)
THEOREM InductiveInvariant == Spec => []Inv
  <1>1. Init => Inv
    BY InitInv
  <1>2. Inv /\ [Next]_vars => Inv'
    <2> SUFFICES ASSUME Inv, [Next]_vars PROVE Inv'
      OBVIOUS
    <2>1. ASSUME NEW t \in Dtraces, Mine(t) PROVE Inv'
      BY <2>1, MineStep
    <2>2. ASSUME NEW t \in Dtraces, checkInvs(t) PROVE Inv'
      BY <2>2, CheckStep
    <2>3. CASE UNCHANGED vars
      <3>1. /\ threshold' = threshold /\ seen' = seen /\ invs' = invs /\ keyInvs' = keyInvs
            /\ checked' = checked /\ violations' = violations
        BY <2>3 DEF vars
      <3>2. Count' = Count /\ Searched' = Searched
        BY <3>1 DEF Count, Searched, WithinBar
      <3>3. Shown' = Shown /\ \A r : Misses(r)' = Misses(r)
        BY <3>1, <3>2 DEF Shown, Misses
      <3>4. TypeOK' /\ Verdicts' /\ AllSatisfied'
        BY <3>1, <3>2 DEF Inv, TypeOK, Verdicts, AllSatisfied
      <3>5. EntriesFit' /\ CountsExact'
        BY <3>1, <3>2, <3>3 DEF Inv, EntriesFit, CountsExact
      <3>6. KeptSoFar'
        BY <3>1, <3>2, <3>3 DEF Inv, KeptSoFar, WithinBar
      <3> QED BY <3>4, <3>5, <3>6 DEF Inv
    <2> QED BY <2>1, <2>2, <2>3 DEF Next
  <1> QED BY <1>1, <1>2, PTL DEF Spec

(***************************************************************************)
(* The entries of relationDict are relations between two different names,   *)
(* with a count between 1 and the number of calls, whatever is searched,    *)
(* counted and removed.                                                     *)
(***************************************************************************)
THEOREM TypeCorrect == Spec => []TypeOK
  <1>1. Inv => TypeOK
    BY DEF Inv
  <1> QED BY <1>1, InductiveInvariant, PTL

(***************************************************************************)
(* incrementalAlg and selectKeyInvs keep exactly the relations with at most *)
(* one replaced address that some searched call shows and that no more      *)
(* calls fail than the threshold allows: the early removal loses nothing,   *)
(* and no relation comes back with a count that forgot its failures.        *)
(***************************************************************************)
THEOREM MiningIsExact == Spec => []KeptExactly
  <1>1. Inv => KeptExactly
    <2> SUFFICES ASSUME Inv, Count = NumCalls, checked = <<>>
                 PROVE  {r \in DOMAIN keyInvs : Shallow(r)} =
                        {r \in UNION {Found(seen[i]) : i \in Searched} :
                            Shallow(r) /\ (NumCalls \in Searched \/ WithinBar(Misses(r)))}
      BY DEF KeptExactly
    <2>1. DOMAIN keyInvs = DOMAIN invs
      BY DEF Inv, Verdicts
    <2>2. DOMAIN invs \subseteq Shown
      BY DEF Inv, EntriesFit
    <2>3. Count > 0
      BY MinerAssumption
    <2>4. \A r \in Shown : Shallow(r) =>
             (r \in DOMAIN invs <=> Count \in Searched \/ WithinBar(Misses(r)))
      BY <2>3 DEF Inv, KeptSoFar
    <2>5. ASSUME NEW r
          PROVE  r \in DOMAIN keyInvs /\ Shallow(r) <=>
                 r \in Shown /\ Shallow(r) /\ (NumCalls \in Searched \/ WithinBar(Misses(r)))
      BY <2>1, <2>2, <2>4
    <2> QED BY <2>5, Zenon DEF Shown
  <1> QED BY <1>1, InductiveInvariant, PTL

(***************************************************************************)
(* With threshold 1, checkInvs reports nothing of a call that is like one   *)
(* that was mined: every relation that survives was satisfied, with the     *)
(* model it is checked with, by every mined call, the searched one included. *)
(***************************************************************************)
THEOREM NoFalseAlarms == Spec => []NoFalseAlarm
  <1>1. Inv => NoFalseAlarm
    <2> SUFFICES ASSUME Inv, threshold[1] = threshold[2], NEW i \in DOMAIN checked,
                        NEW j \in DOMAIN seen, seen[j] = checked[i]
                 PROVE  violations[i] = {}
      BY DEF NoFalseAlarm
    <2>1. Count = NumCalls
      BY DEF Inv, Verdicts
    <2>2. /\ DOMAIN keyInvs = DOMAIN invs
          /\ \A r \in DOMAIN invs : keyInvs[r] = invs[r]
      BY <2>1 DEF Inv, Verdicts
    <2>3. violations[i] = {r \in DOMAIN keyInvs :
                              checkInv(r.op, keyInvs[r].model, checked[i]) = "violate"}
      BY DEF Inv, Verdicts
    <2>4. \A r \in DOMAIN invs : checkInv(r.op, invs[r].model, checked[i]) = "satisfy"
      BY DEF Inv, AllSatisfied
    <2> QED BY <2>2, <2>3, <2>4
  <1> QED BY <1>1, InductiveInvariant, PTL
=============================================================================
