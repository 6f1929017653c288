------------------------------ MODULE InvMiner ------------------------------
(***************************************************************************)
(* Mining and checking the invariants of one method (incrementalAlg,       *)
(* selectKeyInvs and checkInvs; methods do not share state).  The calls    *)
(* of the method arrive one by one as traceDicts, maps from variable names *)
(* to values.  Relations between two variables are searched in the first   *)
(* calls and counted in the others, those that fail too often are removed, *)
(* and what is left is checked on further calls.                           *)
(*                                                                         *)
(* A name is <<base, key>>: base numbers the variables in the order of     *)
(* their names; key is 0, an address for the entry of a mapping, or -r     *)
(* where inference has put the name of variable r for the address.         *)
(* Arrays, byte strings and the arithmetic models are left out.            *)
(***************************************************************************)
EXTENDS Integers, Sequences, FiniteSets

CONSTANTS
    Comparability,    \* base -> "user", "status" or "token"
    Changes,          \* bases of the form change.point(variable)
    Dtraces,          \* the traceDicts that calls may have
    NumCalls,         \* calls to mine: methodAllCountDict[methodString]["num"]
    NumChecks,        \* calls to check
    Thresholds        \* values of the threshold argument, pairs <<n, d>> for n/d

Bases == DOMAIN Comparability
Value == [type : {"int", "str"}, val : Int]

ASSUME MinerAssumption ==
    /\ Bases \subseteq Nat \ {0}
    /\ Changes \subseteq Bases
    /\ \A t \in Dtraces :
          /\ DOMAIN t \subseteq Bases \X Nat
          /\ \A x \in DOMAIN t : t[x] \in Value /\ (t[x].type = "str" => t[x].val \in Nat)
    /\ NumCalls \in Nat \ {0} /\ NumChecks \in Nat
    /\ \A q \in Thresholds : q[1] \in Nat /\ q[2] \in Nat \ {0} /\ q[1] <= q[2]

VARIABLES
    threshold,        \* the argument of incrementalAlg
    seen,             \* history: the calls mined so far
    invs,             \* relationDict[methodString]["invs"]: relation -> [num, model]
    keyInvs,          \* keyInvDict[methodString]
    checked,          \* history: the calls checked
    violations        \* for each of them, the violated relations

vars == <<threshold, seen, invs, keyInvs, checked, violations>>

\* relationDict[methodString]["count"]
Count == Len(seen)

\* A relation is known by its text: the operator and two names.
Relation == [op : {"==", "== -"}, x : Bases \X Int, y : Bases \X Int]

\* What it is checked with: the names of the innermost InferenceRelation, its
\* replacement (0 for a normal relation), and the replacements around it.
Model == [x : Bases \X Int, y : Bases \X Int, replacement : Bases \cup {0},
          outer : SUBSET Bases]

TypeOK ==
    /\ threshold \in Thresholds
    /\ seen \in Seq(Dtraces) /\ Count <= NumCalls
    /\ \A r \in DOMAIN invs :
            /\ r \in Relation
            /\ invs[r] \in [num : 1..Count, model : Model]
            /\ r.x # r.y
    /\ DOMAIN keyInvs \subseteq DOMAIN invs
    /\ checked \in Seq(Dtraces) /\ Len(violations) = Len(checked)

-----------------------------------------------------------------------------
(* Relations and when they hold.                                           *)

Zero(v) == v.type = "int" /\ v.val = 0

checkRelation(op, v, w) ==
    CASE op = "==" -> v.type = w.type /\ v.val = w.val
      [] op = "== -" -> v.type = "int" /\ w.type = "int" /\ v.val = -w.val

constructRelation(op, v, w) == ~Zero(v) /\ ~Zero(w) /\ checkRelation(op, v, w)

\* Balances of one token and user are compared between points, everything else
\* with the status of the contract.
isComparable(x, y) ==
    LET cx == Comparability[x[1]]
        cy == Comparability[y[1]]
    IN  IF "token" \in {cx, cy}
        THEN cx = cy /\ x[1] # y[1] /\ x[2] = y[2]
        ELSE "status" \in {cx, cy}

\* str() of a relation puts the smaller name first.
Smaller(x, y) == x[1] < y[1] \/ (x[1] = y[1] /\ x[2] < y[2])

\* The normal relations of one traceDict, each with its model.
mineVars(t) ==
    {[rel |-> [op |-> op, x |-> p[1], y |-> p[2]],
      model |-> [x |-> p[1], y |-> p[2], replacement |-> 0, outer |-> {}]] :
        op \in {"==", "== -"},
        p \in {q \in (DOMAIN t) \X (DOMAIN t) : Smaller(q[1], q[2]) /\ isComparable(q[1], q[2])}}

Normal(t) == {f \in mineVars(t) : constructRelation(f.rel.op, t[f.rel.x], t[f.rel.y])}

-----------------------------------------------------------------------------
(* Inference: an address in a name is replaced by a variable that holds it. *)

Roles(t) == {x \in DOMAIN t : x[2] = 0 /\ t[x].type = "str"}

Replace(x, old, new) == IF x[2] = old THEN <<x[1], new>> ELSE x

Infer(f, r, t) ==
    LET New(x) == Replace(x, t[r].val, -r[1])
        rel == [op |-> f.rel.op, x |-> New(f.rel.x), y |-> New(f.rel.y)]
    IN  [rel |-> rel,
         model |-> IF f.model.replacement = 0
                   THEN [x |-> rel.x, y |-> rel.y, replacement |-> r[1], outer |-> {}]
                   ELSE [f.model EXCEPT !.outer = @ \cup {r[1]}]]

\* One round of the loop of inferInvs.
Lift(found, t) ==
    {Infer(q[1], q[2], t) : q \in
        {p \in found \X Roles(t) : t[p[2]].val \in {p[1].rel.x[2], p[1].rel.y[2]}}}

\* A relation has at most two addresses to replace.
inferInvs(t) ==
    LET normal == Normal(t)
        once   == Lift(normal, t)
    IN  normal \cup once \cup Lift(once, t)

Found(t) == {f.rel : f \in inferInvs(t)}

\* A relation inferred along two ways keeps the one that the iteration over a
\* Python set meets first.
Models(t) ==
    LET found == inferInvs(t)
        ways(r) == {f.model : f \in {g \in found : g.rel = r}}
        two == {r \in Found(t) : Cardinality(ways(r)) > 1}
    IN  {[r \in Found(t) |-> IF r \in two THEN w[r] ELSE CHOOSE m \in ways(r) : TRUE] :
            w \in {v \in [two -> UNION {ways(r) : r \in two}] : \A r \in two : v[r] \in ways(r)}}

-----------------------------------------------------------------------------
(* Checking one relation.                                                  *)

Nonsensical == [type |-> "nonsensical", val |-> 0]

getTraceDictVar(x, t) ==
    IF x \in DOMAIN t THEN t[x]
    ELSE IF x[1] \in Changes THEN [type |-> "int", val |-> 0]
    ELSE Nonsensical

\* getOrinialInv: the replacements around the innermost one need a value but
\* the names they were made for are not used.
OriginalVar(x, m, t) ==
    IF m.replacement = 0 THEN getTraceDictVar(x, t)
    ELSE IF \E r \in m.outer \cup {m.replacement} : <<r, 0>> \notin DOMAIN t
    THEN Nonsensical
    ELSE getTraceDictVar(Replace(x, -m.replacement, t[<<m.replacement, 0>>].val), t)

checkInv(op, m, t) ==
    LET v == OriginalVar(m.x, m, t)
        w == OriginalVar(m.y, m, t)
    IN  IF Nonsensical \in {v, w} THEN "exist_nonsensical"
        ELSE IF checkRelation(op, v, w) THEN "satisfy" ELSE "violate"

-----------------------------------------------------------------------------
(* The incremental algorithm.                                              *)

\* n <= threshold_bar, where threshold_bar is num * (1 - threshold), here without the rounding
\* of floating point (1 - 0.9 is less than 1/10, so that one failure in ten is one too many).
WithinBar(n) == n * threshold[2] <= NumCalls * (threshold[2] - threshold[1])

Init ==
    /\ threshold \in Thresholds
    /\ seen = <<>> /\ checked = <<>> /\ violations = <<>>
    /\ invs = [r \in {} |-> {}] /\ keyInvs = [r \in {} |-> {}]

\* Mutant: a search in a later call starts to count anew.
searchInvsAnew(t, models) ==
    [r \in DOMAIN invs \cup Found(t) |->
        IF r \in Found(t) THEN [num |-> 1, model |-> models[r]] ELSE invs[r]]

\* Mutant: normal relations are counted before and after inference.
searchInvsTwice(t, models) ==
    [r \in DOMAIN invs \cup Found(t) |->
        LET n == IF r \notin Found(t) THEN 0 ELSE IF models[r].replacement = 0 THEN 2 ELSE 1
        IN  IF r \notin DOMAIN invs THEN [num |-> n, model |-> models[r]]
            ELSE [invs[r] EXCEPT !.num = @ + n]]

searchInvs(t, models) ==
    [r \in DOMAIN invs \cup Found(t) |->
        IF r \notin DOMAIN invs THEN [num |-> 1, model |-> models[r]]
        ELSE IF r \in Found(t) THEN [invs[r] EXCEPT !.num = @ + 1]
        ELSE invs[r]]

\* Mutant: one failure too many is tolerated.
incrementOneMore(t) ==
    LET num(r) == invs[r].num + (IF checkInv(r.op, invs[r].model, t) = "satisfy" THEN 1 ELSE 0)
    IN  [r \in {s \in DOMAIN invs : WithinBar(Count - num(s))} |-> [invs[r] EXCEPT !.num = num(r)]]

increment(t) ==
    LET num(r) == invs[r].num + (IF checkInv(r.op, invs[r].model, t) = "satisfy" THEN 1 ELSE 0)
    IN  [r \in {s \in DOMAIN invs : WithinBar(Count + 1 - num(s))} |->
            [invs[r] EXCEPT !.num = num(r)]]

\* lowBar is 0, and no variable is ever found to be zero in all calls: the keys
\* "count" and "vars" of intDict[methodString] are compared with the value 0.
selectKeyInvs(relations) ==
    [r \in {s \in DOMAIN relations : relations[s].num >= 0} |-> relations[r]]

Mine(t) ==
    /\ Count < NumCalls
    /\ seen' = Append(seen, t)
    /\ IF Count = 0 \/ WithinBar(Count + 1)
         THEN \E models \in Models(t) : invs' = searchInvs(t, models)
         ELSE invs' = increment(t)
    /\ keyInvs' = IF Count + 1 = NumCalls THEN selectKeyInvs(invs') ELSE keyInvs
    /\ UNCHANGED <<threshold, checked, violations>>

checkInvs(t) ==
    /\ Count = NumCalls /\ Len(checked) < NumChecks
    /\ checked' = Append(checked, t)
    /\ violations' = Append(violations,
            {r \in DOMAIN keyInvs : checkInv(r.op, keyInvs[r].model, t) = "violate"})
    /\ UNCHANGED <<threshold, seen, invs, keyInvs>>

Next == \E t \in Dtraces : Mine(t) \/ checkInvs(t)

Spec == Init /\ [][Next]_vars
-----------------------------------------------------------------------------
(* Properties.                                                             *)

\* The calls that were searched: the first one, and those up to threshold_bar.
Searched == {i \in DOMAIN seen : i = 1 \/ WithinBar(i)}

\* What the text of a relation says of a call.
Resolved(x, t) == IF x[2] < 0 THEN <<x[1], t[<<-x[2], 0>>].val>> ELSE x
TextValue(x, t) ==
    IF x[2] < 0 /\ <<-x[2], 0>> \notin DOMAIN t THEN Nonsensical
    ELSE getTraceDictVar(Resolved(x, t), t)
TextHolds(r, t) ==
    LET v == TextValue(r.x, t)
        w == TextValue(r.y, t)
    IN  Nonsensical \notin {v, w} /\ checkRelation(r.op, v, w)

Shallow(r) == ~(r.x[2] < 0 /\ r.y[2] < 0 /\ r.x[2] # r.y[2])

Misses(r) ==
    Cardinality({i \in DOMAIN seen : IF i \in Searched THEN r \notin Found(seen[i])
                                     ELSE ~TextHolds(r, seen[i])})

(***************************************************************************)
(* Mining call by call, with early removal, keeps exactly what a look at   *)
(* all calls together would: the relations that some searched call shows   *)
(* and that no more calls than the threshold allows fail to show.  It is   *)
(* stated of relations with at most one replaced address.                  *)
(***************************************************************************)
KeptExactly ==
    Count = NumCalls /\ checked = <<>> =>
        {r \in DOMAIN keyInvs : Shallow(r)} =
        {r \in UNION {Found(seen[i]) : i \in Searched} :
            Shallow(r) /\ (NumCalls \in Searched \/ WithinBar(Misses(r)))}

(***************************************************************************)
(* With threshold 1 a call like one that was mined is never reported.      *)
(***************************************************************************)
NoFalseAlarm ==
    threshold[1] = threshold[2] =>
        \A i \in DOMAIN checked :
            (\E j \in DOMAIN seen : seen[j] = checked[i]) => violations[i] = {}

(***************************************************************************)
(* "collect the invs that satisfy threshold": a relation that every call   *)
(* shows is a key invariant.                                               *)
(***************************************************************************)
Collected ==
    Count = NumCalls =>
        {r \in Found(seen[1]) : \A i \in DOMAIN seen : r \in Found(seen[i])} \subseteq DOMAIN keyInvs
=============================================================================
