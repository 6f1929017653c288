------------------------- MODULE SubstateDB_proofs -------------------------
(***************************************************************************)
(* Proofs about SubstateDB, for all sets of keys, codes, substates, records *)
(* of old formats, writers and readers, and any number of unflushed writes. *)
(***************************************************************************)
EXTENDS SubstateDB, WellFoundedInduction, TLAPS

USE DEF Formats

\* Every set of numbers that is not empty has a least element.
LEMMA NatMinimum ==
  ASSUME NEW T \in SUBSET Nat, T # {}
  PROVE  \E x \in T : \A y \in T : x <= y
  <1>1. IsWellFoundedOn({p \in Nat \X Nat : p[1] < p[2]}, Nat)
    BY NatLessThanWellFounded, Zenon DEF OpToRel
  <1>2. PICK x \in T : \A y \in T : ~ (<<y, x>> \in {p \in Nat \X Nat : p[1] < p[2]})
    BY <1>1, WFMin, Zenon
  <1>3. ASSUME NEW y \in T PROVE x <= y
    <2>1. x \in Nat /\ y \in Nat /\ <<y, x>> \in Nat \X Nat
      OBVIOUS
    <2>2. ~ (<<y, x>>[1] < <<y, x>>[2])
      BY <1>2, <2>1, Zenon
    <2> QED BY <2>1, <2>2
  <1> QED BY <1>3

(***************************************************************************)
(* Encoding: a record, once its codes are there, reads back as recorded.    *)
(***************************************************************************)
LEMMA RecordForm ==
  ASSUME NEW v \in Records
  PROVE  \E f \in Formats, s \in Substate : Recordable(f, s) /\ v = Encode(f, s)
  BY Zenon DEF Records

LEMMA Shapes ==
  /\ Shape("legacy") = [env |-> 6, message |-> 9]
  /\ Shape("berlin") = [env |-> 6, message |-> 10]
  /\ Shape("latest") = [env |-> 7, message |-> 12]
  /\ Shape("legacy") # Shape("berlin")
  /\ Shape("legacy") # Shape("latest")
  /\ Shape("berlin") # Shape("latest")
  BY DEF Shape

\* Nothing is missing of the codes that record v refers to.
Complete(codes, v) == HashesOf(v) \subseteq codes \cup {EmptyCode}

\* The codes that a substate needs.
CodesNeeded(s) == CodesOf(s.inputAlloc) \cup CodesOf(s.outputAlloc)
                    \cup (IF s.create THEN {s.data} ELSE {})

LEMMA SubstateFields ==
  ASSUME NEW s \in Substate
  PROVE  /\ s.inputAlloc \in Alloc /\ s.outputAlloc \in Alloc /\ s.data \in Codes
         /\ s.create \in BOOLEAN /\ s.access \in BOOLEAN
         /\ s.feeCap \in BOOLEAN /\ s.baseFee \in BOOLEAN
         /\ s = [inputAlloc |-> s.inputAlloc, outputAlloc |-> s.outputAlloc,
                 create |-> s.create, data |-> s.data, access |-> s.access,
                 feeCap |-> s.feeCap, baseFee |-> s.baseFee]
  BY DEF Substate

LEMMA EncodeFields ==
  ASSUME NEW f \in Formats, NEW s \in Substate
  PROVE  /\ Encode(f, s).shape = Shape(f)
         /\ Encode(f, s).inputHash = s.inputAlloc
         /\ Encode(f, s).outputHash = s.outputAlloc
         /\ Encode(f, s).message = EncodeMessage(s)
         /\ Encode(f, s).access = s.access
         /\ Encode(f, s).feeCap = s.feeCap
         /\ Encode(f, s).baseFee = s.baseFee
         /\ Encode(f, s).of = s
  BY Zenon DEF Encode

LEMMA MessageFields ==
  ASSUME NEW s \in Substate
  PROVE  /\ s.create => EncodeMessage(s).to = FALSE /\ EncodeMessage(s).initCodeHash = s.data
         /\ ~s.create => EncodeMessage(s).to = TRUE /\ EncodeMessage(s).data = s.data
  BY Zenon DEF EncodeMessage

LEMMA EncodeHashes ==
  ASSUME NEW f \in Formats, NEW s \in Substate
  PROVE  HashesOf(Encode(f, s)) = CodesNeeded(s)
  <1> DEFINE v == Encode(f, s)
  <1>1. /\ v.inputHash = s.inputAlloc /\ v.outputHash = s.outputAlloc
        /\ v.message = EncodeMessage(s)
    BY EncodeFields
  <1>2. (IF v.message.to THEN {} ELSE {v.message.initCodeHash}) = (IF s.create THEN {s.data} ELSE {})
    <2>1. CASE s.create
      <3>1. v.message.to = FALSE /\ v.message.initCodeHash = s.data
        BY <1>1, <2>1, MessageFields, Zenon
      <3> QED BY <2>1, <3>1, Zenon
    <2>2. CASE ~s.create
      <3>1. v.message.to = TRUE
        BY <1>1, <2>2, MessageFields, Zenon
      <3> QED BY <2>2, <3>1, Zenon
    <2> QED BY <2>1, <2>2
  <1> HIDE DEF v
  <1>3. HashesOf(v) = CodesNeeded(s)
    BY <1>1, <1>2, Zenon DEF HashesOf, CodesNeeded
  <1> QED BY <1>3 DEF v

\* Decode keeps what a record refers to, and drops the fields that its format lacks.
LEMMA DecodeFields ==
  ASSUME NEW f \in Formats, NEW s \in Substate, Recordable(f, s)
  PROVE  LET v == Encode(f, s)
             d == Decode(v)
         IN  /\ d.inputHash = v.inputHash /\ d.outputHash = v.outputHash
             /\ d.message = v.message
             /\ d.access = (IF f = "berlin" THEN FALSE ELSE s.access)
             /\ d.feeCap = s.feeCap /\ d.baseFee = s.baseFee
  <1> DEFINE v == Encode(f, s)
  <1>1. v.shape = Shape(f) /\ v.access = s.access /\ v.feeCap = s.feeCap /\ v.baseFee = s.baseFee
    BY EncodeFields
  <1>2. /\ SetOldRLP(v).inputHash = v.inputHash /\ SetOldRLP(v).outputHash = v.outputHash
        /\ SetOldRLP(v).message = v.message
        /\ SetOldRLP(v).access = FALSE /\ SetOldRLP(v).feeCap = FALSE
        /\ SetOldRLP(v).baseFee = FALSE
    BY Zenon DEF SetOldRLP, Encode
  <1>3. s.access \in BOOLEAN /\ s.feeCap \in BOOLEAN /\ s.baseFee \in BOOLEAN
    BY SubstateFields
  <1> HIDE DEF v
  <1>4. CASE f = "latest"
    <2>1. Decode(v) = v
      BY <1>1, <1>4, Shapes, Zenon DEF Decode, Decodes
    <2> QED BY <2>1, <1>1, <1>4, Zenon DEF v
  <1>5. CASE f = "berlin"
    <2>1. Decode(v) = SetOldRLP(v)
      BY <1>1, <1>5, Shapes, Zenon DEF Decode, Decodes
    <2>2. s.feeCap = FALSE /\ s.baseFee = FALSE
      BY <1>3, <1>5, Zenon DEF Recordable
    <2> QED BY <2>1, <2>2, <1>2, <1>5, Zenon DEF v
  <1>6. CASE f = "legacy"
    <2>1. Decode(v) = SetOldRLP(v)
      BY <1>1, <1>6, Shapes, Zenon DEF Decode, Decodes
    <2>2. s.feeCap = FALSE /\ s.baseFee = FALSE /\ s.access = FALSE
      BY <1>3, <1>6, Zenon DEF Recordable
    <2>3. f # "berlin"
      BY <1>6
    <2> QED BY <2>1, <2>2, <2>3, <1>2, <1>6, Zenon DEF v
  <1> QED BY <1>4, <1>5, <1>6

LEMMA ReadAsFields ==
  ASSUME NEW f \in Formats, NEW s \in Substate
  PROVE  /\ ReadAs(Encode(f, s)) \in Substate
         /\ ReadAs(Encode(f, s)) =
              [inputAlloc |-> s.inputAlloc, outputAlloc |-> s.outputAlloc,
               create |-> s.create, data |-> s.data,
               access |-> IF f = "berlin" THEN FALSE ELSE s.access,
               feeCap |-> s.feeCap, baseFee |-> s.baseFee]
  <1>1. Encode(f, s).shape = Shape(f) /\ Encode(f, s).of = s
    BY EncodeFields
  <1>2. CASE f = "berlin" /\ s.access
    <2>1. ReadAs(Encode(f, s)) = [s EXCEPT !.access = FALSE]
      BY <1>1, <1>2, Zenon DEF ReadAs, AccessListDropped, Decodes
    <2> QED BY <2>1, <1>2 DEF Substate
  <1>3. CASE ~(f = "berlin" /\ s.access)
    <2>1. ~AccessListDropped(Encode(f, s))
      <3>1. CASE f = "berlin"
        BY <1>1, <1>3, <3>1, Zenon DEF AccessListDropped
      <3>2. CASE f # "berlin"
        <4>1. Shape(f) # Shape("berlin")
          BY <3>2, Shapes
        <4> QED BY <1>1, <4>1, Zenon DEF AccessListDropped, Decodes
      <3> QED BY <3>1, <3>2
    <2>2. ReadAs(Encode(f, s)) = s
      BY <1>1, <2>1, Zenon DEF ReadAs
    <2>3. (IF f = "berlin" THEN FALSE ELSE s.access) = s.access
      <3>1. s.access \in BOOLEAN
        BY SubstateFields
      <3>2. CASE s.access = TRUE
        BY <1>3, <3>2, Zenon
      <3>3. CASE s.access = FALSE
        BY <3>3, Zenon
      <3> QED BY <3>1, <3>2, <3>3, Zenon
    <2> QED BY <2>2, <2>3, SubstateFields, Zenon
  <1> QED BY <1>2, <1>3

\* The record of a substate reads back as the substate when its codes are there
\* (Substate.SetRLP after the formats that DecodeRLP tries).
LEMMA ReadsBack ==
  ASSUME NEW v \in Records, NEW codes, Complete(codes, v)
  PROVE  /\ Resolve(codes, v) = ReadAs(v)
         /\ ReadAs(v) \in Substate
         /\ ReadAs(v) # Absent
  <1>1. PICK f \in Formats, s \in Substate : Recordable(f, s) /\ v = Encode(f, s)
    BY RecordForm
  <1> DEFINE d == Decode(v)
  <1>2. /\ d.inputHash = s.inputAlloc /\ d.outputHash = s.outputAlloc
        /\ d.message = EncodeMessage(s)
        /\ d.access = (IF f = "berlin" THEN FALSE ELSE s.access)
        /\ d.feeCap = s.feeCap /\ d.baseFee = s.baseFee
        /\ v.inputHash = s.inputAlloc /\ v.outputHash = s.outputAlloc
        /\ v.message = EncodeMessage(s)
    <2>1. /\ d.inputHash = v.inputHash /\ d.outputHash = v.outputHash
          /\ d.message = v.message
          /\ d.access = (IF f = "berlin" THEN FALSE ELSE s.access)
          /\ d.feeCap = s.feeCap /\ d.baseFee = s.baseFee
      BY <1>1, DecodeFields, ZenonT(60)
    <2>2. /\ v.inputHash = s.inputAlloc /\ v.outputHash = s.outputAlloc
          /\ v.message = EncodeMessage(s)
      BY <1>1, EncodeFields, ZenonT(60)
    <2> QED BY <2>1, <2>2, Zenon
  <1>3. HashesOf(d) = HashesOf(v)
    BY <1>2, Zenon DEF HashesOf
  <1>4. \A h \in HashesOf(d) : Found(codes, h)
    BY <1>3 DEF Complete, Found
  <1>5. /\ (~d.message.to) = s.create
        /\ (IF d.message.to THEN d.message.data ELSE d.message.initCodeHash) = s.data
    <2>1. s.create \in BOOLEAN
      BY SubstateFields
    <2>2. CASE s.create = TRUE
      BY <1>2, <2>2, MessageFields, Zenon
    <2>3. CASE s.create = FALSE
      BY <1>2, <2>3, MessageFields, Zenon
    <2> QED BY <2>1, <2>2, <2>3, Zenon
  <1> HIDE DEF d
  <1>6. SetRLP(codes, d) =
          [inputAlloc |-> s.inputAlloc, outputAlloc |-> s.outputAlloc,
           create |-> s.create, data |-> s.data,
           access |-> IF f = "berlin" THEN FALSE ELSE s.access,
           feeCap |-> s.feeCap, baseFee |-> s.baseFee]
    BY <1>2, <1>4, <1>5, Zenon DEF SetRLP
  <1>7. Resolve(codes, v) = ReadAs(v) /\ ReadAs(v) \in Substate
    BY <1>1, <1>6, ReadAsFields, Zenon DEF Resolve, d
  <1> QED BY <1>7, SubstateAssumption, Zenon

(***************************************************************************)
(* The work of a PutSubstate, and the order in which records are read.      *)
(***************************************************************************)
Work == (SUBSET Codes) \ {{}}

\* The codes that are still to be put.
TodoCodes(t) == UNION {t[i] : i \in 1..Len(t)}

LEMMA ConcatTodo ==
  ASSUME NEW t \in Seq(Work), NEW u \in Seq(Work)
  PROVE  t \o u \in Seq(Work) /\ TodoCodes(t \o u) = TodoCodes(t) \cup TodoCodes(u)
  <1>1. /\ t \o u \in Seq(Work)
        /\ Len(t \o u) = Len(t) + Len(u) /\ Len(t) \in Nat /\ Len(u) \in Nat
        /\ \A i \in 1..Len(t) : (t \o u)[i] = t[i]
        /\ \A i \in 1..Len(u) : (t \o u)[Len(t) + i] = u[i]
    BY SMT
  <1>2. ASSUME NEW c \in TodoCodes(t \o u) PROVE c \in TodoCodes(t) \cup TodoCodes(u)
    <2>1. PICK i \in 1..Len(t \o u) : c \in (t \o u)[i]
      BY Zenon DEF TodoCodes
    <2>2. CASE i <= Len(t)
      <3>1. i \in 1..Len(t) /\ c \in t[i]
        BY <1>1, <2>1, <2>2
      <3> QED BY <3>1, Zenon DEF TodoCodes
    <2>3. CASE i > Len(t)
      <3>1. i - Len(t) \in 1..Len(u) /\ c \in u[i - Len(t)]
        BY <1>1, <2>1, <2>3
      <3> QED BY <3>1, Zenon DEF TodoCodes
    <2> QED BY <1>1, <2>2, <2>3
  <1>3. ASSUME NEW c \in TodoCodes(t) PROVE c \in TodoCodes(t \o u)
    <2>1. PICK i \in 1..Len(t) : c \in t[i]
      BY Zenon DEF TodoCodes
    <2>2. i \in 1..Len(t \o u) /\ c \in (t \o u)[i]
      BY <1>1, <2>1
    <2> QED BY <2>2, Zenon DEF TodoCodes
  <1>4. ASSUME NEW c \in TodoCodes(u) PROVE c \in TodoCodes(t \o u)
    <2>1. PICK i \in 1..Len(u) : c \in u[i]
      BY Zenon DEF TodoCodes
    <2>2. Len(t) + i \in 1..Len(t \o u) /\ c \in (t \o u)[Len(t) + i]
      BY <1>1, <2>1
    <2> QED BY <2>2, Zenon DEF TodoCodes
  <1> QED BY <1>1, <1>2, <1>3, <1>4

LEMMA OneTodo ==
  ASSUME NEW c \in Work
  PROVE  <<c>> \in Seq(Work) /\ TodoCodes(<<c>>) = c
  <1>1. <<c>> \in Seq(Work) /\ Len(<<c>>) = 1 /\ <<c>>[1] = c
    OBVIOUS
  <1>2. 1..1 = {1}
    OBVIOUS
  <1>3. {<<c>>[i] : i \in 1..Len(<<c>>)} = {c}
    BY <1>1, <1>2
  <1> QED BY <1>1, <1>3 DEF TodoCodes

LEMMA NoTodo == <<>> \in Seq(Work) /\ TodoCodes(<<>>) = {}
  <1>1. <<>> \in Seq(Work) /\ Len(<<>>) = 0 /\ 1..0 = {}
    OBVIOUS
  <1> QED BY <1>1 DEF TodoCodes

LEMMA NonEmptyTodo ==
  ASSUME NEW cs \in SUBSET Codes
  PROVE  NonEmpty(cs) \in Seq(Work) /\ TodoCodes(NonEmpty(cs)) = cs \ {EmptyCode}
  <1>1. CASE cs \subseteq {EmptyCode}
    BY <1>1, NoTodo DEF NonEmpty
  <1>2. CASE ~(cs \subseteq {EmptyCode})
    <2>1. cs \ {EmptyCode} # {} /\ cs \ {EmptyCode} \in SUBSET Codes
      BY <1>2, Zenon
    <2>2. cs \ {EmptyCode} \in Work
      BY <2>1, Zenon DEF Work
    <2> QED BY <1>2, <2>2, OneTodo, Zenon DEF NonEmpty
  <1> QED BY <1>1, <1>2

LEMMA AllocCodes ==
  ASSUME NEW alloc \in Alloc
  PROVE  CodesOf(alloc) \in SUBSET Codes
  BY DEF Alloc, CodesOf

\* PutSubstate sets out to put every code that the substate needs.
LEMMA CodesToPutAll ==
  ASSUME NEW s \in Substate
  PROVE  /\ CodesToPut(s) \in Seq(Work)
         /\ CodesNeeded(s) \subseteq TodoCodes(CodesToPut(s)) \cup {EmptyCode}
         /\ CodesNeeded(s) \subseteq Codes
  <1> DEFINE a == CodesOf(s.inputAlloc)
             b == CodesOf(s.outputAlloc)
             c == IF s.create THEN {s.data} ELSE {}
  <1>1. a \in SUBSET Codes /\ b \in SUBSET Codes /\ c \in SUBSET Codes
    BY SubstateFields, AllocCodes, Zenon
  <1>2. CodesNeeded(s) = a \cup b \cup c
    BY Zenon DEF CodesNeeded
  <1>3. CodesToPut(s) = NonEmpty(a) \o NonEmpty(b) \o NonEmpty(c)
    BY Zenon DEF CodesToPut
  <1> HIDE DEF a, b, c
  <1>4. /\ NonEmpty(a) \in Seq(Work) /\ TodoCodes(NonEmpty(a)) = a \ {EmptyCode}
        /\ NonEmpty(b) \in Seq(Work) /\ TodoCodes(NonEmpty(b)) = b \ {EmptyCode}
        /\ NonEmpty(c) \in Seq(Work) /\ TodoCodes(NonEmpty(c)) = c \ {EmptyCode}
    BY <1>1, NonEmptyTodo
  <1>5. /\ NonEmpty(a) \o NonEmpty(b) \in Seq(Work)
        /\ TodoCodes(NonEmpty(a) \o NonEmpty(b)) = (a \ {EmptyCode}) \cup (b \ {EmptyCode})
    BY <1>4, ConcatTodo, ZenonT(60)
  <1>6. /\ NonEmpty(a) \o NonEmpty(b) \o NonEmpty(c) \in Seq(Work)
        /\ TodoCodes(NonEmpty(a) \o NonEmpty(b) \o NonEmpty(c)) =
              ((a \ {EmptyCode}) \cup (b \ {EmptyCode})) \cup (c \ {EmptyCode})
    BY <1>4, <1>5, ConcatTodo, Zenon
  <1> QED BY <1>1, <1>2, <1>3, <1>6

\* Putting code e leaves the other codes of the work.
LEMMA TodoAfterPut ==
  ASSUME NEW t \in Seq(Work), t # <<>>, NEW e \in Head(t)
  PROVE  LET left == Head(t) \ {e}
             new == IF left = {} THEN Tail(t) ELSE <<left>> \o Tail(t)
         IN  /\ e \in Codes
             /\ new \in Seq(Work)
             /\ TodoCodes(t) \subseteq TodoCodes(new) \cup {e}
  <1>1. /\ Head(t) \in Work /\ Tail(t) \in Seq(Work) /\ Len(t) \in Nat \ {0}
        /\ Head(t) = t[1]
        /\ Len(Tail(t)) = Len(t) - 1
        /\ \A i \in 1..Len(Tail(t)) : Tail(t)[i] = t[i + 1]
    BY SMT
  <1>2. TodoCodes(t) \subseteq Head(t) \cup TodoCodes(Tail(t))
    <2> SUFFICES ASSUME NEW c \in TodoCodes(t), c \notin Head(t) PROVE c \in TodoCodes(Tail(t))
      OBVIOUS
    <2>1. PICK i \in 1..Len(t) : c \in t[i]
      BY Zenon DEF TodoCodes
    <2>2. i - 1 \in 1..Len(Tail(t)) /\ c \in Tail(t)[i - 1]
      BY <1>1, <2>1
    <2> QED BY <2>2, Zenon DEF TodoCodes
  <1> DEFINE left == Head(t) \ {e}
  <1>3. e \in Codes
    BY <1>1 DEF Work
  <1>4. CASE left = {}
    BY <1>1, <1>2, <1>3, <1>4
  <1>5. CASE left # {}
    <2>1. left \in Work
      BY <1>1, <1>5 DEF Work
    <2>2. TodoCodes(t) \subseteq (left \cup TodoCodes(Tail(t))) \cup {e}
      BY <1>2
    <2> HIDE DEF left
    <2>3. <<left>> \o Tail(t) \in Seq(Work) /\ TodoCodes(<<left>> \o Tail(t)) = left \cup TodoCodes(Tail(t))
      <3>1. <<left>> \in Seq(Work) /\ TodoCodes(<<left>>) = left
        BY <2>1, OneTodo
      <3>2. Tail(t) \in Seq(Work)
        BY <1>1
      <3> QED BY <3>1, <3>2, ConcatTodo
    <2>4. (IF left = {} THEN Tail(t) ELSE <<left>> \o Tail(t)) = <<left>> \o Tail(t)
      BY <1>5
    <2>5. /\ <<left>> \o Tail(t) \in Seq(Work)
          /\ TodoCodes(t) \subseteq TodoCodes(<<left>> \o Tail(t)) \cup {e}
      BY <2>2, <2>3
    <2> QED BY <1>3, <2>4, <2>5, Zenon DEF left
  <1> QED BY <1>4, <1>5

\* The iterator's order of keys has a first among any keys.
LEMMA FirstIsOne ==
  ASSUME NEW ks \in SUBSET Keys, ks # {}
  PROVE  First(ks) \in ks
  <1>1. \A k \in ks : k[1] \in Nat /\ k[2] \in Nat
    BY SubstateAssumption DEF Keys
  <1>2. PICK b \in {k[1] : k \in ks} : \A c \in {k[1] : k \in ks} : b <= c
    <2>1. {k[1] : k \in ks} \in SUBSET Nat /\ {k[1] : k \in ks} # {}
      BY <1>1
    <2> QED BY <2>1, NatMinimum
  <1> DEFINE here == {k \in ks : k[1] = b}
  <1>3. PICK t \in {k[2] : k \in here} : \A u \in {k[2] : k \in here} : t <= u
    <2>1. {k[2] : k \in here} \in SUBSET Nat /\ {k[2] : k \in here} # {}
      BY <1>1, <1>2
    <2> QED BY <2>1, NatMinimum
  <1>4. PICK k \in here : k[2] = t
    BY <1>3
  <1>5. \A j \in ks : k[1] < j[1] \/ (k[1] = j[1] /\ k[2] <= j[2])
    BY <1>1, <1>2, <1>3, <1>4
  <1>6. k \in ks
    BY <1>4
  <1> QED BY <1>5, <1>6, Zenon DEF First

(***************************************************************************)
(* Contents of LevelDB.                                                     *)
(***************************************************************************)
LEMMA VersionFields ==
  ASSUME NEW v \in Version
  PROVE  v.code \in SUBSET Codes /\ v.record \in [Keys -> Records \cup {Absent}]
  BY DEF Version

LEMMA DbFacts ==
  ASSUME TypeOK
  PROVE  /\ Len(versions) \in Nat
         /\ DOMAIN versions = 1..Len(versions)
         /\ Len(versions) \in DOMAIN versions
         /\ \A i \in DOMAIN versions : versions[i] \in Version
         /\ db \in Version
  BY DEF TypeOK, db

LEMMA WriteFacts ==
  ASSUME TypeOK, NEW content \in Version, Write(content)
  PROVE  /\ versions' \in Seq(Version) /\ Len(versions') \in 1..(MaxUnflushed + 1)
         /\ db' = content
         /\ \A i \in DOMAIN versions : i \in DOMAIN versions' /\ versions'[i] = versions[i]
         /\ \A i \in DOMAIN versions' :
               versions'[i] = content \/ (i \in DOMAIN versions /\ versions'[i] = versions[i])
         /\ \E i \in DOMAIN versions' : versions'[i] = content
  <1>1. /\ Append(versions, content) \in Seq(Version)
        /\ Len(Append(versions, content)) = Len(versions) + 1
        /\ Append(versions, content)[Len(versions) + 1] = content
        /\ \A i \in 1..Len(versions) : Append(versions, content)[i] = versions[i]
        /\ DOMAIN Append(versions, content) = 1..(Len(versions) + 1)
    BY DEF TypeOK
  <1>2. versions' = Append(versions, content) /\ Len(versions) <= MaxUnflushed
    BY DEF Write
  <1>3. Len(versions) \in Nat /\ DOMAIN versions = 1..Len(versions) /\ MaxUnflushed \in Nat
    BY DbFacts, SubstateAssumption
  <1>4. Len(versions') \in 1..(MaxUnflushed + 1)
    BY <1>1, <1>2, <1>3
  <1>5. db' = content
    BY <1>1, <1>2 DEF db
  <1>6. \A i \in DOMAIN versions : i \in DOMAIN versions' /\ versions'[i] = versions[i]
    BY <1>1, <1>2, <1>3
  <1>7. \A i \in DOMAIN versions' :
          versions'[i] = content \/ (i \in DOMAIN versions /\ versions'[i] = versions[i])
    BY <1>1, <1>2, <1>3
  <1>8. \E i \in DOMAIN versions' : versions'[i] = content
    BY <1>1, <1>2, <1>3
  <1> QED BY <1>1, <1>2, <1>4, <1>5, <1>6, <1>7, <1>8

LEMMA PutKeyContent ==
  ASSUME NEW c \in Version, NEW k \in Keys, NEW v \in Records \cup {Absent}
  PROVE  /\ [c EXCEPT !.record[k] = v] \in Version
         /\ [c EXCEPT !.record[k] = v].code = c.code
         /\ \A j \in Keys : [c EXCEPT !.record[k] = v].record[j] = IF j = k THEN v ELSE c.record[j]
  BY DEF Version

LEMMA PutCodeContent ==
  ASSUME NEW c \in Version, NEW e \in Codes
  PROVE  /\ [c EXCEPT !.code = @ \cup {e}] \in Version
         /\ [c EXCEPT !.code = @ \cup {e}].code = c.code \cup {e}
         /\ [c EXCEPT !.code = @ \cup {e}].record = c.record
  BY DEF Version

(***************************************************************************)
(* The inductive invariant.  RecordsReadBack is about the present content;  *)
(* a crash makes an older one present, readers hold records that may have   *)
(* been deleted, and a writer relies on the codes that it put before: each  *)
(* of these needs a part of its own.                                        *)
(***************************************************************************)
\* In every content that a crash may leave, the codes of a record are there.
RecordsComplete ==
    \A i \in DOMAIN versions : \A k \in Keys :
        versions[i].record[k] # Absent => Complete(versions[i].code, versions[i].record[k])

\* What a writer needs is there already or still to be put.
WritersReady ==
    \A w \in Writers : writer[w] # Absent =>
        CodesNeeded(writer[w].sub)
            \subseteq (db.code \cup {EmptyCode}) \cup TodoCodes(writer[w].todo)

\* The codes of the records that an iterator holds are there.
ReadersReady ==
    \A r \in Readers : reader[r] # Absent =>
        \A k \in DOMAIN reader[r].left : Complete(db.code, reader[r].left[k])

Inv == TypeOK /\ RecordsComplete /\ WritersReady /\ ReadersReady /\ ReadersNeverPanic

LEMMA RecordHashes ==
  ASSUME NEW v \in Records
  PROVE  HashesOf(v) \in SUBSET Codes
  <1>1. PICK f \in Formats, s \in Substate : v = Encode(f, s)
    BY RecordForm
  <1> QED BY <1>1, EncodeHashes, CodesToPutAll

LEMMA CompleteGrows ==
  ASSUME NEW v, NEW c, NEW d, c \subseteq d, Complete(c, v)
  PROVE  Complete(d, v)
  BY DEF Complete

LEMMA InitInv == Init => Inv
  <1> SUFFICES ASSUME Init PROVE Inv
    OBVIOUS
  <1>1. PICK record \in [Keys -> OldRecords \cup {Absent}] :
          versions = <<[code |-> (UNION {HashesOf(record[k]) : k \in {j \in Keys : record[j] # Absent}})
                                   \ {EmptyCode},
                        record |-> record]>>
    BY Zenon DEF Init
  <1> DEFINE present == {j \in Keys : record[j] # Absent}
             code == (UNION {HashesOf(record[k]) : k \in present}) \ {EmptyCode}
             content == [code |-> code, record |-> record]
  <1>2. \A k \in Keys : record[k] \in Records \cup {Absent}
    BY SubstateAssumption
  <1>3. code \in SUBSET Codes
    BY <1>2, RecordHashes
  <1>4. record \in [Keys -> Records \cup {Absent}]
    BY <1>2
  <1>5. \A k \in present : HashesOf(record[k]) \subseteq code \cup {EmptyCode}
    <2> SUFFICES ASSUME NEW k \in present, NEW h \in HashesOf(record[k]), h # EmptyCode
                 PROVE  h \in code
      OBVIOUS
    <2>1. HashesOf(record[k]) \in {HashesOf(record[j]) : j \in present}
      OBVIOUS
    <2> QED BY <2>1, Zenon
  <1> HIDE DEF code
  <1>6. content \in Version /\ content.code = code /\ content.record = record
    BY <1>3, <1>4 DEF Version
  <1> HIDE DEF content
  <1>7. versions = <<content>>
    BY <1>1, Zenon DEF content, code
  <1>8. /\ versions \in Seq(Version) /\ Len(versions) = 1 /\ DOMAIN versions = {1}
        /\ versions[1] = content
    BY <1>6, <1>7
  <1>9. /\ writer \in [Writers -> Call \cup {Absent}] /\ reader \in [Readers -> Iteration \cup {Absent}]
        /\ \A w \in Writers : writer[w] = Absent
        /\ \A r \in Readers : reader[r] = Absent
    BY DEF Init
  <1>10. TypeOK
    BY <1>8, <1>9, SubstateAssumption DEF TypeOK
  <1>11. RecordsComplete
    BY <1>5, <1>6, <1>8 DEF RecordsComplete, Complete
  <1>12. WritersReady /\ ReadersReady /\ ReadersNeverPanic
    BY <1>9 DEF WritersReady, ReadersReady, ReadersNeverPanic
  <1> QED BY <1>10, <1>11, <1>12 DEF Inv

\* A step that takes no code away leaves to a writer or a reader what it had.
LEMMA WritersKept ==
  ASSUME Inv, db.code \subseteq db'.code, NEW w \in Writers, writer'[w] = writer[w], writer[w] # Absent
  PROVE  CodesNeeded(writer'[w].sub)
            \subseteq (db'.code \cup {EmptyCode}) \cup TodoCodes(writer'[w].todo)
  <1>1. CodesNeeded(writer[w].sub)
            \subseteq (db.code \cup {EmptyCode}) \cup TodoCodes(writer[w].todo)
    BY DEF Inv, WritersReady
  <1> QED BY <1>1

LEMMA ReadersKept ==
  ASSUME Inv, db.code \subseteq db'.code, reader' = reader
  PROVE  ReadersReady' /\ ReadersNeverPanic'
  <1>1. ReadersNeverPanic'
    BY Zenon DEF Inv, ReadersNeverPanic
  <1>2. ReadersReady'
    BY CompleteGrows, Zenon DEF Inv, ReadersReady
  <1> QED BY <1>1, <1>2

LEMMA CallFields ==
  ASSUME TypeOK, NEW w \in Writers, writer[w] # Absent
  PROVE  /\ writer[w] \in Call
         /\ writer[w].key \in Keys
         /\ writer[w].sub \in Substates /\ writer[w].sub \in Substate
         /\ writer[w].todo \in Seq(Work)
  <1>1. writer[w] \in Call
    BY DEF TypeOK
  <1> QED BY <1>1, SubstateAssumption DEF Call, Work

LEMMA IterationFields ==
  ASSUME TypeOK, NEW r \in Readers, reader[r] # Absent
  PROVE  /\ reader[r] \in Iteration
         /\ reader[r].left \in Maps(Records)
         /\ reader[r].txSubstate \in Maps(Substate \cup {Absent})
  <1>1. reader[r] \in Iteration
    BY DEF TypeOK
  <1> QED BY <1>1 DEF Iteration

LEMMA MapForm ==
  ASSUME NEW S, NEW m \in Maps(S)
  PROVE  DOMAIN m \in SUBSET Keys /\ m \in [DOMAIN m -> S]
  <1>1. PICK ks \in SUBSET Keys : m \in [ks -> S]
    BY Zenon DEF Maps
  <1> QED BY <1>1

LEMMA FormMap ==
  ASSUME NEW S, NEW ks \in SUBSET Keys, NEW m \in [ks -> S]
  PROVE  m \in Maps(S)
  BY Zenon DEF Maps

LEMMA PutSubstateInv ==
  ASSUME Inv, NEW w \in Writers, NEW k \in Keys, NEW s \in Substates, PutSubstate(w, k, s)
  PROVE  Inv'
  <1>1. s \in Substate
    BY SubstateAssumption
  <1> DEFINE c == [key |-> k, sub |-> s, todo |-> CodesToPut(s)]
  <1>2. c \in Call /\ c.sub = s /\ c.todo = CodesToPut(s)
    BY <1>1, CodesToPutAll DEF Call, Work
  <1>3. /\ writer' = [writer EXCEPT ![w] = c] /\ versions' = versions /\ reader' = reader
        /\ db' = db /\ db.code \subseteq db'.code
    BY DEF PutSubstate, db
  <1> HIDE DEF c
  <1>4. TypeOK'
    BY <1>2, <1>3 DEF Inv, TypeOK
  <1>5. RecordsComplete'
    BY <1>3, Zenon DEF Inv, RecordsComplete
  <1>6. WritersReady'
    <2> SUFFICES ASSUME NEW v \in Writers, writer'[v] # Absent
                 PROVE  CodesNeeded(writer'[v].sub)
                          \subseteq (db'.code \cup {EmptyCode}) \cup TodoCodes(writer'[v].todo)
      BY DEF WritersReady
    <2>1. CASE v = w
      <3>1. writer'[v] = c
        BY <1>3, <2>1 DEF Inv, TypeOK
      <3>2. CodesNeeded(s) \subseteq TodoCodes(CodesToPut(s)) \cup {EmptyCode}
        BY <1>1, CodesToPutAll
      <3> QED BY <1>2, <3>1, <3>2
    <2>2. CASE v # w
      <3>1. writer'[v] = writer[v]
        BY <1>3, <2>2 DEF Inv, TypeOK
      <3> QED BY <1>3, <3>1, WritersKept
    <2> QED BY <2>1, <2>2
  <1> QED BY <1>3, <1>4, <1>5, <1>6, ReadersKept DEF Inv

LEMMA PutCodeInv ==
  ASSUME Inv, NEW w \in Writers, PutCode(w)
  PROVE  Inv'
  <1>1. /\ writer[w] # Absent /\ writer[w].todo # <<>> /\ reader' = reader
        /\ TypeOK /\ db \in Version
    BY DbFacts DEF PutCode, Inv
  <1>2. PICK e \in Head(writer[w].todo) :
          /\ Write([db EXCEPT !.code = @ \cup {e}])
          /\ writer' = [writer EXCEPT ![w].todo =
                           IF Head(writer[w].todo) \ {e} = {} THEN Tail(writer[w].todo)
                           ELSE <<Head(writer[w].todo) \ {e}>> \o Tail(writer[w].todo)]
    BY Zenon DEF PutCode
  <1> DEFINE t == writer[w].todo
             new == IF Head(t) \ {e} = {} THEN Tail(t) ELSE <<Head(t) \ {e}>> \o Tail(t)
             content == [db EXCEPT !.code = @ \cup {e}]
  <1>3. /\ writer[w] \in Call /\ writer[w].sub \in Substates /\ writer[w].key \in Keys
        /\ t \in Seq(Work)
    BY <1>1, CallFields
  <1>4. e \in Codes /\ new \in Seq(Work) /\ TodoCodes(t) \subseteq TodoCodes(new) \cup {e}
    BY <1>1, <1>3, TodoAfterPut, Zenon
  <1>5. content \in Version /\ content.code = db.code \cup {e} /\ content.record = db.record
    BY <1>1, <1>4, PutCodeContent
  <1>6. Write(content)
    BY <1>2
  <1> HIDE DEF content
  <1>7. /\ versions' \in Seq(Version) /\ Len(versions') \in 1..(MaxUnflushed + 1)
        /\ db' = content
        /\ \A i \in DOMAIN versions' :
               versions'[i] = content \/ (i \in DOMAIN versions /\ versions'[i] = versions[i])
    BY <1>1, <1>5, <1>6, WriteFacts, Zenon
  <1>8. db.code \subseteq db'.code
    BY <1>5, <1>7
  <1>9. writer' = [writer EXCEPT ![w].todo = new]
    BY <1>2
  <1> HIDE DEF new
  <1>10. /\ writer' \in [Writers -> Call \cup {Absent}]
         /\ writer'[w] \in Call /\ writer'[w].sub = writer[w].sub /\ writer'[w].todo = new
         /\ \A v \in Writers \ {w} : writer'[v] = writer[v]
    BY <1>1, <1>3, <1>4, <1>9 DEF TypeOK, Call, Work
  <1>11. TypeOK'
    BY <1>1, <1>7, <1>10 DEF TypeOK
  <1>12. RecordsComplete'
    <2> SUFFICES ASSUME NEW i \in DOMAIN versions', NEW k \in Keys, versions'[i].record[k] # Absent
                 PROVE  Complete(versions'[i].code, versions'[i].record[k])
      BY DEF RecordsComplete
    <2>1. CASE versions'[i] = content
      <3>1. Complete(db.code, db.record[k])
        BY <1>1, <1>5, <2>1, DbFacts, Zenon DEF Inv, RecordsComplete, db
      <3> QED BY <1>5, <2>1, <3>1, CompleteGrows
    <2>2. CASE i \in DOMAIN versions /\ versions'[i] = versions[i]
      BY <2>2 DEF Inv, RecordsComplete
    <2> QED BY <1>7, <2>1, <2>2
  <1>13. WritersReady'
    <2> SUFFICES ASSUME NEW v \in Writers, writer'[v] # Absent
                 PROVE  CodesNeeded(writer'[v].sub)
                          \subseteq (db'.code \cup {EmptyCode}) \cup TodoCodes(writer'[v].todo)
      BY DEF WritersReady
    <2>1. CASE v = w
      <3>1. CodesNeeded(writer[w].sub) \subseteq (db.code \cup {EmptyCode}) \cup TodoCodes(t)
        BY <1>1 DEF Inv, WritersReady
      <3>2. db'.code = db.code \cup {e}
        BY <1>5, <1>7
      <3>3. TodoCodes(t) \subseteq TodoCodes(new) \cup {e}
        BY <1>4
      <3>4. CodesNeeded(writer[w].sub) \subseteq (db'.code \cup {EmptyCode}) \cup TodoCodes(new)
        BY <3>1, <3>2, <3>3
      <3> QED BY <1>10, <2>1, <3>4
    <2>2. CASE v # w
      BY <1>8, <1>10, <2>2, WritersKept
    <2> QED BY <2>1, <2>2
  <1> QED BY <1>1, <1>8, <1>11, <1>12, <1>13, ReadersKept DEF Inv

\* A put of a record or a delete, by whichever writer.
LEMMA PutKeyKeeps ==
  ASSUME Inv, NEW k \in Keys, NEW v \in Records \cup {Absent}, PutKey(k, v),
         v # Absent => Complete(db.code, v)
  PROVE  /\ versions' \in Seq(Version) /\ Len(versions') \in 1..(MaxUnflushed + 1)
         /\ db'.code = db.code
         /\ \A j \in Keys : db'.record[j] = IF j = k THEN v ELSE db.record[j]
         /\ RecordsComplete'
  <1>1. TypeOK /\ db \in Version
    BY DbFacts DEF Inv
  <1> DEFINE content == [db EXCEPT !.record[k] = v]
  <1>2. /\ content \in Version /\ content.code = db.code
        /\ \A j \in Keys : content.record[j] = IF j = k THEN v ELSE db.record[j]
    BY <1>1, PutKeyContent
  <1>3. Write(content)
    BY DEF PutKey
  <1> HIDE DEF content
  <1>4. /\ versions' \in Seq(Version) /\ Len(versions') \in 1..(MaxUnflushed + 1)
        /\ db' = content
        /\ \A i \in DOMAIN versions' :
               versions'[i] = content \/ (i \in DOMAIN versions /\ versions'[i] = versions[i])
    BY <1>1, <1>2, <1>3, WriteFacts, Zenon
  <1>5. RecordsComplete'
    <2> SUFFICES ASSUME NEW i \in DOMAIN versions', NEW j \in Keys, versions'[i].record[j] # Absent
                 PROVE  Complete(versions'[i].code, versions'[i].record[j])
      BY DEF RecordsComplete
    <2>1. CASE versions'[i] = content
      <3>1. CASE j = k
        BY <1>2, <2>1, <3>1, Zenon
      <3>2. CASE j # k
        <4>1. versions'[i].code = db.code /\ versions'[i].record[j] = db.record[j]
          BY <1>2, <2>1, <3>2
        <4>2. Complete(db.code, db.record[j])
          BY <1>1, <4>1, DbFacts, Zenon DEF Inv, RecordsComplete, db
        <4> QED BY <4>1, <4>2, Zenon
      <3> QED BY <3>1, <3>2
    <2>2. CASE i \in DOMAIN versions /\ versions'[i] = versions[i]
      BY <2>2 DEF Inv, RecordsComplete
    <2> QED BY <1>4, <2>1, <2>2
  <1> QED BY <1>2, <1>4, <1>5

LEMMA LatestRecord ==
  ASSUME NEW s \in Substate
  PROVE  /\ Encode("latest", s) \in Records
         /\ Encode("latest", s) # Absent
         /\ HashesOf(Encode("latest", s)) = CodesNeeded(s)
         /\ ReadAs(Encode("latest", s)) = s
  <1>1. Recordable("latest", s)
    BY DEF Recordable
  <1>2. Encode("latest", s) \in Records
    BY <1>1, Zenon DEF Records
  <1>3. ReadAs(Encode("latest", s)) = s
    BY ReadAsFields, SubstateFields
  <1> QED BY <1>2, <1>3, EncodeHashes, SubstateAssumption

LEMMA PutRecordInv ==
  ASSUME Inv, NEW w \in Writers, PutRecord(w)
  PROVE  Inv'
  <1>1. /\ writer[w] # Absent /\ writer[w].todo = <<>> /\ reader' = reader /\ TypeOK
        /\ PutKey(writer[w].key, Encode("latest", writer[w].sub))
        /\ writer' = [writer EXCEPT ![w] = Absent]
    BY DEF PutRecord, Inv
  <1> DEFINE v == Encode("latest", writer[w].sub)
  <1>2. writer[w].key \in Keys /\ writer[w].sub \in Substate
    BY <1>1, CallFields
  <1>3. v \in Records /\ HashesOf(v) = CodesNeeded(writer[w].sub)
    BY <1>2, LatestRecord
  <1> HIDE DEF v
  <1>4. Complete(db.code, v)
    <2>1. CodesNeeded(writer[w].sub) \subseteq (db.code \cup {EmptyCode}) \cup TodoCodes(<<>>)
      BY <1>1, Zenon DEF Inv, WritersReady
    <2> QED BY <1>3, <2>1, NoTodo DEF Complete
  <1>5. PutKey(writer[w].key, v)
    BY <1>1 DEF v
  <1>6. /\ versions' \in Seq(Version) /\ Len(versions') \in 1..(MaxUnflushed + 1)
        /\ db'.code = db.code /\ RecordsComplete'
    BY <1>2, <1>3, <1>4, <1>5, PutKeyKeeps
  <1>7. /\ writer' \in [Writers -> Call \cup {Absent}]
        /\ \A u \in Writers : writer'[u] # Absent => writer'[u] = writer[u]
    BY <1>1 DEF TypeOK
  <1>8. TypeOK'
    BY <1>1, <1>6, <1>7 DEF TypeOK
  <1>9. WritersReady'
    BY <1>6, <1>7, WritersKept DEF WritersReady
  <1> QED BY <1>1, <1>6, <1>8, <1>9, ReadersKept DEF Inv

LEMMA DeleteInv ==
  ASSUME Inv, NEW k \in Keys, DeleteSubstate(k)
  PROVE  Inv'
  <1>1. PutKey(k, Absent) /\ writer' = writer /\ reader' = reader /\ TypeOK
    BY DEF DeleteSubstate, Inv
  <1>2. /\ versions' \in Seq(Version) /\ Len(versions') \in 1..(MaxUnflushed + 1)
        /\ db'.code = db.code /\ RecordsComplete'
    BY <1>1, PutKeyKeeps
  <1>3. TypeOK'
    BY <1>1, <1>2 DEF TypeOK
  <1>4. WritersReady'
    BY <1>1, <1>2, WritersKept DEF WritersReady
  <1> QED BY <1>1, <1>2, <1>3, <1>4, ReadersKept DEF Inv

\* What a step that changes one reader must show.
LEMMA OneReader ==
  ASSUME Inv, NEW r \in Readers, NEW p \in Iteration \cup {Absent},
         reader' = [reader EXCEPT ![r] = p], versions' = versions, writer' = writer,
         p # Absent => /\ \A k \in DOMAIN p.left : Complete(db.code, p.left[k])
                       /\ \A k \in DOMAIN p.txSubstate : p.txSubstate[k] # Absent
  PROVE  Inv'
  <1>1. TypeOK' /\ db' = db
    BY DEF Inv, TypeOK, db
  <1>2. \A q \in Readers : reader'[q] = IF q = r THEN p ELSE reader[q]
    BY DEF Inv, TypeOK
  <1>3. RecordsComplete'
    BY Zenon DEF Inv, RecordsComplete
  <1>4. WritersReady'
    BY <1>1, WritersKept DEF WritersReady
  <1>5. ReadersReady'
    <2> SUFFICES ASSUME NEW q \in Readers, reader'[q] # Absent, NEW k \in DOMAIN reader'[q].left
                 PROVE  Complete(db'.code, reader'[q].left[k])
      BY DEF ReadersReady
    <2>1. CASE q = r
      <3>1. reader'[q] = p
        BY <1>2, <2>1
      <3> QED BY <1>1, <3>1, Zenon
    <2>2. CASE q # r
      <3>1. reader'[q] = reader[q]
        BY <1>2, <2>2
      <3> QED BY <1>1, <3>1, Zenon DEF Inv, ReadersReady
    <2> QED BY <2>1, <2>2
  <1>6. ReadersNeverPanic'
    <2> SUFFICES ASSUME NEW q \in Readers, reader'[q] # Absent, NEW k \in DOMAIN reader'[q].txSubstate
                 PROVE  reader'[q].txSubstate[k] # Absent
      BY DEF ReadersNeverPanic
    <2>1. CASE q = r
      <3>1. reader'[q] = p
        BY <1>2, <2>1
      <3> QED BY <3>1, Zenon
    <2>2. CASE q # r
      <3>1. reader'[q] = reader[q]
        BY <1>2, <2>2
      <3> QED BY <3>1, Zenon DEF Inv, ReadersNeverPanic
    <2> QED BY <2>1, <2>2
  <1> QED BY <1>1, <1>3, <1>4, <1>5, <1>6 DEF Inv

LEMMA StartReadingForm ==
  ASSUME Inv, NEW r \in Readers, NEW ks \in SUBSET Keys, StartReading(r, ks)
  PROVE  \E p \in Iteration :
            /\ reader' = [reader EXCEPT ![r] = p]
            /\ DOMAIN p.left = {j \in ks : db.record[j] # Absent}
            /\ \A k \in DOMAIN p.left : p.left[k] = db.record[k] /\ p.left[k] \in Records
            /\ DOMAIN p.txSubstate = {}
  <1> DEFINE here == {j \in ks : db.record[j] # Absent}
             left == [k \in here |-> db.record[k]]
             none == [k \in {} |-> Absent]
             p == [left |-> left, txSubstate |-> none]
  <1>1. db.record \in [Keys -> Records \cup {Absent}]
    BY DbFacts, VersionFields DEF Inv
  <1>2. here \in SUBSET Keys /\ left \in [here -> Records]
    BY <1>1
  <1>3. left \in Maps(Records)
    BY <1>2, FormMap
  <1>4. none \in [{} -> Substate \cup {Absent}] /\ DOMAIN none = {}
    OBVIOUS
  <1>5. none \in Maps(Substate \cup {Absent})
    BY <1>4, FormMap
  <1>6. DOMAIN left = here /\ \A k \in here : left[k] = db.record[k] /\ left[k] \in Records
    BY <1>2
  <1>7. reader' = [reader EXCEPT ![r] = p]
    BY Zenon DEF StartReading
  <1> HIDE DEF left, none, here
  <1>8. p \in Iteration /\ p.left = left /\ p.txSubstate = none
    BY <1>3, <1>5 DEF Iteration
  <1> HIDE DEF p
  <1> QED BY <1>4, <1>6, <1>7, <1>8 DEF here

LEMMA StartReadingInv ==
  ASSUME Inv, NEW r \in Readers, NEW ks \in SUBSET Keys, StartReading(r, ks)
  PROVE  Inv'
  <1>1. PICK p \in Iteration :
            /\ reader' = [reader EXCEPT ![r] = p]
            /\ DOMAIN p.left = {j \in ks : db.record[j] # Absent}
            /\ \A k \in DOMAIN p.left : p.left[k] = db.record[k] /\ p.left[k] \in Records
            /\ DOMAIN p.txSubstate = {}
    BY StartReadingForm
  <1>2. versions' = versions /\ writer' = writer
    BY DEF StartReading
  <1>3. \A k \in DOMAIN p.left : Complete(db.code, p.left[k])
    BY <1>1, DbFacts DEF Inv, RecordsComplete, db
  <1> QED BY <1>1, <1>2, <1>3, OneReader

LEMMA ReadRecordForm ==
  ASSUME Inv, NEW r \in Readers, ReadRecord(r)
  PROVE  LET k == First(DOMAIN reader[r].left)
             p == [left |-> Without(reader[r].left, k),
                   txSubstate |-> Extended(reader[r].txSubstate, k, ReadAs(reader[r].left[k]))]
         IN  /\ reader[r] # Absent
             /\ k \in DOMAIN reader[r].left
             /\ reader[r].left[k] \in Records
             /\ Resolve(db.code, reader[r].left[k]) = ReadAs(reader[r].left[k])
             /\ ReadAs(reader[r].left[k]) \in Substate
             /\ ReadAs(reader[r].left[k]) # Absent
             /\ p \in Iteration
             /\ reader' = [reader EXCEPT ![r] = p]
  <1> DEFINE left == reader[r].left
             tx == reader[r].txSubstate
             k == First(DOMAIN left)
             sub == ReadAs(left[k])
             p == [left |-> Without(left, k), txSubstate |-> Extended(tx, k, sub)]
  <1>1. reader[r] # Absent /\ DOMAIN left # {} /\ TypeOK
    BY DEF ReadRecord, Inv
  <1>2. left \in Maps(Records) /\ tx \in Maps(Substate \cup {Absent})
    BY <1>1, IterationFields
  <1>3. /\ DOMAIN left \in SUBSET Keys /\ left \in [DOMAIN left -> Records]
        /\ DOMAIN tx \in SUBSET Keys /\ tx \in [DOMAIN tx -> Substate \cup {Absent}]
    BY <1>2, MapForm
  <1>4. k \in DOMAIN left
    BY <1>1, <1>3, FirstIsOne
  <1>5. left[k] \in Records
    BY <1>3, <1>4
  <1>6. Complete(db.code, left[k])
    BY <1>1, <1>4 DEF Inv, ReadersReady
  <1>7. Resolve(db.code, left[k]) = sub /\ sub \in Substate /\ sub # Absent
    BY <1>5, <1>6, ReadsBack
  <1>8. reader' = [reader EXCEPT ![r] =
            [left |-> Without(left, k), txSubstate |-> Extended(tx, k, Resolve(db.code, left[k]))]]
    <2> HIDE DEF k
    <2> QED BY <1>1 DEF ReadRecord, k
  <1>9. reader' = [reader EXCEPT ![r] = p]
    BY <1>7, <1>8
  <1> HIDE DEF left, tx, sub, k
  <1>10. Without(left, k) \in [DOMAIN left \ {k} -> Records] /\ DOMAIN left \ {k} \in SUBSET Keys
    BY <1>3 DEF Without
  <1>11. /\ Extended(tx, k, sub) \in [DOMAIN tx \cup {k} -> Substate \cup {Absent}]
         /\ DOMAIN tx \cup {k} \in SUBSET Keys
    BY <1>3, <1>4, <1>7 DEF Extended
  <1>12. Without(left, k) \in Maps(Records) /\ Extended(tx, k, sub) \in Maps(Substate \cup {Absent})
    BY <1>10, <1>11, FormMap
  <1>13. p \in Iteration
    BY <1>12 DEF Iteration
  <1> QED BY <1>1, <1>4, <1>5, <1>7, <1>9, <1>13 DEF left, tx, sub, k

LEMMA ReadRecordInv ==
  ASSUME Inv, NEW r \in Readers, ReadRecord(r)
  PROVE  Inv'
  <1> DEFINE left == reader[r].left
             tx == reader[r].txSubstate
             k == First(DOMAIN left)
             sub == ReadAs(left[k])
             p == [left |-> Without(left, k), txSubstate |-> Extended(tx, k, sub)]
  <1>1. /\ reader[r] # Absent /\ k \in DOMAIN left /\ sub # Absent
        /\ p \in Iteration /\ reader' = [reader EXCEPT ![r] = p]
    BY ReadRecordForm
  <1>2. versions' = versions /\ writer' = writer
    BY DEF ReadRecord
  <1>3. \A j \in DOMAIN left : Complete(db.code, left[j])
    BY <1>1 DEF Inv, ReadersReady
  <1>4. \A j \in DOMAIN tx : tx[j] # Absent
    BY <1>1 DEF Inv, ReadersNeverPanic
  <1> HIDE DEF left, tx, sub, k
  <1>5. \A j \in DOMAIN Without(left, k) : Complete(db.code, Without(left, k)[j])
    BY <1>3 DEF Without
  <1>6. \A j \in DOMAIN Extended(tx, k, sub) : Extended(tx, k, sub)[j] # Absent
    BY <1>1, <1>4 DEF Extended
  <1>7. p.left = Without(left, k) /\ p.txSubstate = Extended(tx, k, sub)
    OBVIOUS
  <1> HIDE DEF p
  <1> QED BY <1>1, <1>2, <1>5, <1>6, <1>7, OneReader

LEMMA NextInv == Inv /\ [Next]_vars => Inv'
  <1> SUFFICES ASSUME Inv, [Next]_vars PROVE Inv'
    OBVIOUS
  <1>1. ASSUME NEW w \in Writers, NEW k \in Keys, NEW s \in Substates, PutSubstate(w, k, s)
        PROVE  Inv'
    BY <1>1, PutSubstateInv
  <1>2. ASSUME NEW w \in Writers, PutCode(w) PROVE Inv'
    BY <1>2, PutCodeInv
  <1>3. ASSUME NEW w \in Writers, PutRecord(w) PROVE Inv'
    BY <1>3, PutRecordInv
  <1>4. ASSUME NEW k \in Keys, DeleteSubstate(k) PROVE Inv'
    BY <1>4, DeleteInv
  <1>5. ASSUME NEW r \in Readers, NEW k \in Keys, GetSubstate(r, k) PROVE Inv'
    BY <1>5, StartReadingInv DEF GetSubstate
  <1>6. ASSUME NEW r \in Readers, NEW b \in Blocks, GetBlockSubstates(r, b) PROVE Inv'
    <2>1. {b} \X Txs \in SUBSET Keys
      BY DEF Keys
    <2> QED BY <1>6, <2>1, StartReadingInv DEF GetBlockSubstates
  <1>7. ASSUME NEW r \in Readers, ReadRecord(r) PROVE Inv'
    BY <1>7, ReadRecordInv
  <1>8. ASSUME NEW r \in Readers, Release(r) PROVE Inv'
    BY <1>8, OneReader DEF Release
  <1>9. CASE CompactSubstateDB
    <2>1. db \in Version /\ Len(versions) \in DOMAIN versions /\ TypeOK
      BY DbFacts DEF Inv
    <2>2. versions' = <<db>> /\ writer' = writer /\ reader' = reader
      BY <1>9 DEF CompactSubstateDB
    <2>3. /\ versions' \in Seq(Version) /\ Len(versions') = 1 /\ DOMAIN versions' = {1}
          /\ versions'[1] = db /\ db' = db
      BY <2>1, <2>2 DEF db
    <2>4. TypeOK'
      BY <2>1, <2>2, <2>3, SubstateAssumption DEF TypeOK
    <2>5. RecordsComplete'
      BY <2>1, <2>3, Zenon DEF Inv, RecordsComplete, db
    <2>6. WritersReady'
      BY <2>2, <2>3, WritersKept DEF WritersReady
    <2> QED BY <2>2, <2>3, <2>4, <2>5, <2>6, ReadersKept DEF Inv
  <1>10. CASE Crash
    <2>1. PICK i \in DOMAIN versions : versions' = <<versions[i]>>
      BY <1>10 DEF Crash
    <2>2. /\ writer' = [w \in Writers |-> Absent] /\ reader' = [r \in Readers |-> Absent]
          /\ versions[i] \in Version
      BY <1>10, DbFacts DEF Crash, Inv
    <2>3. /\ versions' \in Seq(Version) /\ Len(versions') = 1 /\ DOMAIN versions' = {1}
          /\ versions'[1] = versions[i]
      BY <2>1, <2>2
    <2>4. /\ writer' \in [Writers -> Call \cup {Absent}]
          /\ reader' \in [Readers -> Iteration \cup {Absent}]
          /\ \A w \in Writers : writer'[w] = Absent
          /\ \A r \in Readers : reader'[r] = Absent
      BY <2>2
    <2>5. TypeOK'
      BY <2>3, <2>4, SubstateAssumption DEF TypeOK
    <2>6. RecordsComplete'
      BY <2>3, Zenon DEF Inv, RecordsComplete
    <2>7. WritersReady' /\ ReadersReady' /\ ReadersNeverPanic'
      BY <2>4 DEF WritersReady, ReadersReady, ReadersNeverPanic
    <2> QED BY <2>5, <2>6, <2>7 DEF Inv
  <1>11. CASE UNCHANGED vars
    <2>1. versions' = versions /\ writer' = writer /\ reader' = reader
      BY <1>11 DEF vars
    <2> QED BY <2>1 DEF Inv, TypeOK, RecordsComplete, WritersReady, ReadersReady,
                        ReadersNeverPanic, db
  <1> QED BY <1>1, <1>2, <1>3, <1>4, <1>5, <1>6, <1>7, <1>8, <1>9, <1>10, <1>11 DEF Next

\* The invariant is inductive: it holds at first and every write, read, flush and crash keeps it.
THEOREM InductiveInvariant == Spec => []Inv
  BY InitInv, NextInv, PTL DEF Spec

\* Type correctness: the contents, calls and iterations keep their form, and no more than
\* MaxUnflushed writes are kept beside the flushed content.
THEOREM TypeCorrect == Spec => []TypeOK
  BY InductiveInvariant, PTL DEF Inv

\* At every moment, whatever was put, deleted, compacted or lost by a crash, each record
\* that is in the database reads back (PutSubstate puts the codes before the record, and no
\* code is ever deleted) as the substate that was recorded, except that a Berlin record with
\* an access list, and no other, loses the list (setBerlinRLP).
THEOREM RecordsAlwaysReadBack == Spec => []RecordsReadBack
  <1>1. Inv => RecordsReadBack
    <2> SUFFICES ASSUME Inv, NEW k \in Keys, db.record[k] # Absent
                 PROVE  LET v == db.record[k]
                            s == Resolve(db.code, v)
                        IN  /\ ~AccessListDropped(v) => s = v.of
                            /\ AccessListDropped(v) => s = [v.of EXCEPT !.access = FALSE]
      BY DEF RecordsReadBack
    <2>1. db.record[k] \in Records
      BY DbFacts, VersionFields DEF Inv
    <2>2. Complete(db.code, db.record[k])
      BY DbFacts, Zenon DEF Inv, RecordsComplete, db
    <2>3. Resolve(db.code, db.record[k]) = ReadAs(db.record[k])
      BY <2>1, <2>2, ReadsBack
    <2> QED BY <2>3, Zenon DEF ReadAs
  <1> QED BY <1>1, InductiveInvariant, PTL

\* GetSubstate and GetBlockSubstates never meet a missing code (GetCode panics then),
\* whatever is put or deleted between two records of the iteration.
THEOREM NoReaderPanics == Spec => []ReadersNeverPanic
  BY InductiveInvariant, PTL DEF Inv

(***************************************************************************)
(* Refinement.  By the invariant a record counts as what it reads as,       *)
(* whichever codes are there, so that a step which only puts codes or moves *)
(* a record from left to txSubstate leaves the abstract state as it is.     *)
(***************************************************************************)
RecordedStore(c) == [k \in Keys |-> IF c.record[k] = Absent THEN Absent ELSE ReadAs(c.record[k])]

RecordedReading(p) ==
    [k \in DOMAIN p.left \cup DOMAIN p.txSubstate |->
        IF k \in DOMAIN p.left THEN ReadAs(p.left[k]) ELSE p.txSubstate[k]]

storeBar == StoreOf(db)
survivorsBar == {StoreOf(versions[i]) : i \in DOMAIN versions}
pendingBar == [w \in Writers |-> IF writer[w] = Absent THEN Absent
                                 ELSE [key |-> writer[w].key, sub |-> writer[w].sub]]
readingBar == [r \in Readers |-> IF reader[r] = Absent THEN Absent ELSE ReadingOf(reader[r])]

AsRecorded ==
    /\ storeBar = RecordedStore(db)
    /\ survivorsBar = {RecordedStore(versions[i]) : i \in DOMAIN versions}
    /\ readingBar = [r \in Readers |-> IF reader[r] = Absent THEN Absent
                                       ELSE RecordedReading(reader[r])]

LEMMA BarsAreRecorded == Inv => AsRecorded
  <1> SUFFICES ASSUME Inv PROVE AsRecorded
    OBVIOUS
  <1>1. TypeOK /\ Len(versions) \in DOMAIN versions /\ db = versions[Len(versions)]
    BY DbFacts DEF Inv, db
  <1>2. ASSUME NEW i \in DOMAIN versions PROVE StoreOf(versions[i]) = RecordedStore(versions[i])
    <2>1. ASSUME NEW k \in Keys, versions[i].record[k] # Absent
          PROVE  Resolve(versions[i].code, versions[i].record[k]) = ReadAs(versions[i].record[k])
      <3>1. versions[i].record[k] \in Records
        BY <1>1, <2>1, DbFacts, VersionFields
      <3>2. Complete(versions[i].code, versions[i].record[k])
        BY <2>1 DEF Inv, RecordsComplete
      <3> QED BY <3>1, <3>2, ReadsBack
    <2> QED BY <2>1, Zenon DEF StoreOf, RecordedStore
  <1>3. ASSUME NEW r \in Readers, reader[r] # Absent
        PROVE  ReadingOf(reader[r]) = RecordedReading(reader[r])
    <2>1. ASSUME NEW k \in DOMAIN reader[r].left
          PROVE  Resolve(db.code, reader[r].left[k]) = ReadAs(reader[r].left[k])
      <3>1. reader[r].left[k] \in Records
        BY <1>1, <1>3, <2>1, IterationFields, MapForm
      <3>2. Complete(db.code, reader[r].left[k])
        BY <1>3, <2>1 DEF Inv, ReadersReady
      <3> QED BY <3>1, <3>2, ReadsBack
    <2> QED BY <2>1, Zenon DEF ReadingOf, RecordedReading
  <1>4. storeBar = RecordedStore(db)
    BY <1>1, <1>2, Zenon DEF storeBar
  <1>5. survivorsBar = {RecordedStore(versions[i]) : i \in DOMAIN versions}
    BY <1>2, Zenon DEF survivorsBar
  <1>6. readingBar = [r \in Readers |-> IF reader[r] = Absent THEN Absent
                                       ELSE RecordedReading(reader[r])]
    BY <1>3, Zenon DEF readingBar
  <1> QED BY <1>4, <1>5, <1>6 DEF AsRecorded

LEMMA BarsAreRecordedNext == Inv' => AsRecorded'
  BY BarsAreRecorded, PTL

\* A write adds one map to the ones that a crash may leave.
LEMMA WriteBars ==
  ASSUME Inv, Inv', NEW content \in Version, Write(content)
  PROVE  /\ storeBar' = RecordedStore(content)
         /\ survivorsBar' = survivorsBar \cup {RecordedStore(content)}
  <1>1. AsRecorded /\ AsRecorded'
    BY BarsAreRecorded, BarsAreRecordedNext
  <1>2. /\ db' = content
        /\ \A i \in DOMAIN versions : i \in DOMAIN versions' /\ versions'[i] = versions[i]
        /\ \A i \in DOMAIN versions' :
               versions'[i] = content \/ (i \in DOMAIN versions /\ versions'[i] = versions[i])
        /\ \E i \in DOMAIN versions' : versions'[i] = content
    BY WriteFacts DEF Inv
  <1>3. {RecordedStore(versions'[i]) : i \in DOMAIN versions'}
          = {RecordedStore(versions[i]) : i \in DOMAIN versions} \cup {RecordedStore(content)}
    BY <1>2, Zenon
  <1> QED BY <1>1, <1>2, <1>3, Zenon DEF AsRecorded

\* The abstract state depends on readers and on nothing else that a write changes.
LEMMA ReadingKept ==
  ASSUME Inv, Inv', reader' = reader
  PROVE  readingBar' = readingBar
  <1>1. AsRecorded /\ AsRecorded'
    BY BarsAreRecorded, BarsAreRecordedNext
  <1> QED BY <1>1, Zenon DEF AsRecorded

LEMMA VersionsKept ==
  ASSUME versions' = versions
  PROVE  storeBar' = storeBar /\ survivorsBar' = survivorsBar
  <1>1. db' = db
    BY DEF db
  <1>2. storeBar' = storeBar
    BY <1>1 DEF storeBar
  <1>3. survivorsBar' = survivorsBar
    BY DEF survivorsBar
  <1> QED BY <1>2, <1>3

StoreSubstates == Substates \cup {ReadAs(v) : v \in OldRecords}

LEMMA PendingForm ==
  ASSUME TypeOK, NEW w \in Writers
  PROVE  /\ writer[w] = Absent => pendingBar[w] = Absent
         /\ writer[w] # Absent => /\ pendingBar[w] = [key |-> writer[w].key, sub |-> writer[w].sub]
                                  /\ pendingBar[w] # Absent
                                  /\ pendingBar[w].key = writer[w].key
                                  /\ pendingBar[w].sub = writer[w].sub
  <1>1. CASE writer[w] = Absent
    BY <1>1 DEF pendingBar
  <1>2. CASE writer[w] # Absent
    <2>1. writer[w].key \in Keys /\ writer[w].sub \in Substate
      BY <1>2, CallFields
    <2>2. [key |-> writer[w].key, sub |-> writer[w].sub] \in [key : Keys, sub : Substate]
      BY <2>1
    <2>3. pendingBar[w] = [key |-> writer[w].key, sub |-> writer[w].sub]
      BY <1>2 DEF pendingBar
    <2>4. [key |-> writer[w].key, sub |-> writer[w].sub] # Absent
      BY <2>2, SubstateAssumption, Zenon
    <2> QED BY <1>2, <2>3, <2>4
  <1> QED BY <1>1, <1>2

LEMMA ReadingForm ==
  ASSUME Inv, NEW r \in Readers
  PROVE  /\ reader[r] = Absent => readingBar[r] = Absent
         /\ reader[r] # Absent => /\ readingBar[r] = RecordedReading(reader[r])
                                  /\ readingBar[r] # Absent
  <1>1. AsRecorded
    BY BarsAreRecorded
  <1>2. CASE reader[r] = Absent
    BY <1>1, <1>2 DEF AsRecorded
  <1>3. CASE reader[r] # Absent
    <2> DEFINE left == reader[r].left
               tx == reader[r].txSubstate
               ks == DOMAIN left \cup DOMAIN tx
    <2>1. readingBar[r] = RecordedReading(reader[r])
      BY <1>1, <1>3 DEF AsRecorded
    <2>2. left \in Maps(Records) /\ tx \in Maps(Substate \cup {Absent})
      BY <1>3, IterationFields DEF Inv
    <2>3. /\ DOMAIN left \in SUBSET Keys /\ left \in [DOMAIN left -> Records]
          /\ DOMAIN tx \in SUBSET Keys /\ tx \in [DOMAIN tx -> Substate \cup {Absent}]
      BY <2>2, MapForm
    <2>4. ASSUME NEW k \in DOMAIN left PROVE ReadAs(left[k]) \in Substate
      <3>1. left[k] \in Records
        BY <2>3
      <3>2. Complete(db.code, left[k])
        BY <1>3 DEF Inv, ReadersReady
      <3> QED BY <3>1, <3>2, ReadsBack
    <2>5. ASSUME NEW k \in DOMAIN tx PROVE tx[k] \in Substate
      <3>1. tx[k] # Absent
        BY <1>3 DEF Inv, ReadersNeverPanic
      <3> QED BY <2>3, <3>1
    <2> HIDE DEF left, tx
    <2>6. [k \in ks |-> IF k \in DOMAIN left THEN ReadAs(left[k]) ELSE tx[k]] \in [ks -> Substate]
      BY <2>4, <2>5
    <2>7. ks \in SUBSET Keys
      BY <2>3
    <2> HIDE DEF ks
    <2>8. [k \in ks |-> IF k \in DOMAIN left THEN ReadAs(left[k]) ELSE tx[k]] \in Maps(Substate)
      BY <2>6, <2>7, FormMap
    <2>9. RecordedReading(reader[r]) \in Maps(Substate)
      BY <2>8 DEF RecordedReading, ks, left, tx
    <2>10. RecordedReading(reader[r]) # Absent
      BY <2>9, SubstateAssumption, Zenon
    <2> QED BY <1>3, <2>1, <2>10
  <1> QED BY <1>2, <1>3

LEMMA InitRefines == Init => Store!Init
  <1> SUFFICES ASSUME Init PROVE Store!Init
    OBVIOUS
  <1>1. Inv
    BY InitInv
  <1>2. AsRecorded
    BY <1>1, BarsAreRecorded
  <1>3. DOMAIN versions = {1} /\ db = versions[1] /\ db.record \in [Keys -> OldRecords \cup {Absent}]
    <2>1. PICK record \in [Keys -> OldRecords \cup {Absent}] : \E c :
            versions = <<[code |-> c, record |-> record]>>
      BY Zenon DEF Init
    <2>2. PICK c : versions = <<[code |-> c, record |-> record]>>
      BY <2>1
    <2>3. Len(versions) = 1 /\ DOMAIN versions = {1} /\ versions[1] = [code |-> c, record |-> record]
      BY <2>2
    <2> QED BY <2>3 DEF db
  <1>4. RecordedStore(db) \in [Keys -> StoreSubstates \cup {Absent}]
    BY <1>3 DEF RecordedStore, StoreSubstates
  <1>5. storeBar \in [Keys -> StoreSubstates \cup {Absent}] /\ survivorsBar = {storeBar}
    BY <1>2, <1>3, <1>4 DEF AsRecorded
  <1>6. pendingBar = [w \in Writers |-> Absent]
    BY DEF Init, pendingBar
  <1>7. readingBar = [r \in Readers |-> Absent]
    BY DEF Init, readingBar
  <1> QED BY <1>5, <1>6, <1>7 DEF Store!Init, storeBar, survivorsBar, pendingBar, readingBar,
                                   StoreSubstates, Store!Keys, Keys

Stutter == storeBar' = storeBar /\ survivorsBar' = survivorsBar /\ pendingBar' = pendingBar
             /\ readingBar' = readingBar

\* The call of PutSubstate is the abstract call.
LEMMA PutSubstateRefines ==
  ASSUME Inv, Inv', NEW w \in Writers, NEW k \in Keys, NEW s \in Substates, PutSubstate(w, k, s)
  PROVE  Store!Call(w)
  <1>1. /\ writer[w] = Absent /\ versions' = versions /\ reader' = reader
        /\ writer' = [writer EXCEPT ![w] = [key |-> k, sub |-> s, todo |-> CodesToPut(s)]]
    BY DEF PutSubstate
  <1>2. storeBar' = storeBar /\ survivorsBar' = survivorsBar /\ readingBar' = readingBar
    BY <1>1, VersionsKept, ReadingKept
  <1> DEFINE c == [key |-> k, sub |-> s]
             full == [key |-> k, sub |-> s, todo |-> CodesToPut(s)]
  <1>3. full \in Call /\ full.key = k /\ full.sub = s
    BY CodesToPutAll, SubstateAssumption DEF Call, Work
  <1>4. full # Absent
    BY <1>3, SubstateAssumption, Zenon
  <1> HIDE DEF full
  <1>5. \A v \in Writers : writer'[v] = IF v = w THEN full ELSE writer[v]
    BY <1>1 DEF Inv, TypeOK, full
  <1>6. pendingBar' = [v \in Writers |-> IF v = w THEN c ELSE pendingBar[v]]
    <2>1. ASSUME NEW v \in Writers
          PROVE  (IF writer'[v] = Absent THEN Absent ELSE [key |-> writer'[v].key, sub |-> writer'[v].sub])
                   = IF v = w THEN c ELSE pendingBar[v]
      BY <1>3, <1>4, <1>5 DEF pendingBar
    <2> QED BY <2>1, Zenon DEF pendingBar
  <1>7. pendingBar' = [pendingBar EXCEPT ![w] = c]
    BY <1>6 DEF pendingBar
  <1>8. c \in [key : Keys, sub : StoreSubstates]
    BY DEF StoreSubstates
  <1>9. pendingBar[w] = Absent
    BY <1>1, PendingForm DEF Inv
  <1> HIDE DEF c
  <1>10. pendingBar' \in {[pendingBar EXCEPT ![w] = d] : d \in [key : Keys, sub : StoreSubstates]}
    BY <1>7, <1>8, Zenon
  <1> QED BY <1>2, <1>9, <1>10, Zenon DEF Store!Call, storeBar, survivorsBar, pendingBar, readingBar,
                                         StoreSubstates, Store!Keys, Keys

\* Putting a code is invisible.
LEMMA PutCodeRefines ==
  ASSUME Inv, Inv', NEW w \in Writers, PutCode(w)
  PROVE  Stutter
  <1>1. /\ writer[w] # Absent /\ writer[w].todo # <<>> /\ reader' = reader
        /\ TypeOK /\ db \in Version
    BY DbFacts DEF PutCode, Inv
  <1>2. PICK e \in Head(writer[w].todo) :
          /\ Write([db EXCEPT !.code = @ \cup {e}])
          /\ writer' = [writer EXCEPT ![w].todo =
                           IF Head(writer[w].todo) \ {e} = {} THEN Tail(writer[w].todo)
                           ELSE <<Head(writer[w].todo) \ {e}>> \o Tail(writer[w].todo)]
    BY Zenon DEF PutCode
  <1> DEFINE content == [db EXCEPT !.code = @ \cup {e}]
             new == IF Head(writer[w].todo) \ {e} = {} THEN Tail(writer[w].todo)
                    ELSE <<Head(writer[w].todo) \ {e}>> \o Tail(writer[w].todo)
  <1>3. e \in Codes
    BY <1>1, CallFields, TodoAfterPut, Zenon
  <1>4. content \in Version /\ content.record = db.record
    BY <1>1, <1>3, PutCodeContent
  <1>5. Write(content)
    BY <1>2
  <1> HIDE DEF content
  <1>6. RecordedStore(content) = RecordedStore(db)
    BY <1>4 DEF RecordedStore
  <1>7. /\ storeBar' = RecordedStore(content)
        /\ survivorsBar' = survivorsBar \cup {RecordedStore(content)}
    BY <1>4, <1>5, WriteBars
  <1>8. storeBar = RecordedStore(db) /\ RecordedStore(db) \in survivorsBar
    BY <1>1, BarsAreRecorded, DbFacts DEF AsRecorded, db
  <1>9. writer' = [writer EXCEPT ![w].todo = new]
    BY <1>2
  <1> HIDE DEF new
  <1>10. /\ writer[w] \in Call
         /\ \A v \in Writers \ {w} : writer'[v] = writer[v]
         /\ writer'[w] = [writer[w] EXCEPT !.todo = new]
    BY <1>1, <1>9, CallFields DEF TypeOK
  <1>11. writer'[w].key = writer[w].key /\ writer'[w].sub = writer[w].sub
    BY <1>10 DEF Call
  <1>12. writer'[w] # Absent
    <2>1. writer'[w] \in Call \cup {Absent}
      BY DEF Inv, TypeOK
    <2>2. writer[w].todo \in Seq(Work)
      BY <1>1, CallFields
    <2>3. new \in Seq(Work)
      BY <1>1, <2>2, TodoAfterPut, Zenon DEF new
    <2>4. writer'[w] \in Call
      BY <1>10, <2>3 DEF Call, Work
    <2> QED BY <2>4, SubstateAssumption, Zenon
  <1>13. pendingBar' = pendingBar
    <2>1. ASSUME NEW v \in Writers
          PROVE  (IF writer'[v] = Absent THEN Absent ELSE [key |-> writer'[v].key, sub |-> writer'[v].sub])
                   = (IF writer[v] = Absent THEN Absent ELSE [key |-> writer[v].key, sub |-> writer[v].sub])
      <3>1. CASE v = w
        BY <1>1, <1>11, <1>12, <3>1, Zenon
      <3>2. CASE v # w
        BY <1>10, <3>2, Zenon
      <3> QED BY <3>1, <3>2
    <2> QED BY <2>1, Zenon DEF pendingBar
  <1>14. readingBar' = readingBar
    BY <1>1, ReadingKept
  <1> QED BY <1>6, <1>7, <1>8, <1>13, <1>14 DEF Stutter

\* A record is put under a key, or removed: the store changes at this key alone.
LEMMA PutKeyBars ==
  ASSUME Inv, Inv', NEW k \in Keys, NEW v \in Records \cup {Absent}, PutKey(k, v)
  PROVE  /\ storeBar' = [storeBar EXCEPT ![k] = IF v = Absent THEN Absent ELSE ReadAs(v)]
         /\ survivorsBar' = survivorsBar \cup {storeBar'}
  <1>1. TypeOK /\ db \in Version
    BY DbFacts DEF Inv
  <1> DEFINE content == [db EXCEPT !.record[k] = v]
             x == IF v = Absent THEN Absent ELSE ReadAs(v)
  <1>2. /\ content \in Version
        /\ \A j \in Keys : content.record[j] = IF j = k THEN v ELSE db.record[j]
    BY <1>1, PutKeyContent
  <1>3. Write(content)
    BY DEF PutKey
  <1> HIDE DEF content, x
  <1>4. /\ storeBar' = RecordedStore(content)
        /\ survivorsBar' = survivorsBar \cup {RecordedStore(content)}
    BY <1>2, <1>3, WriteBars
  <1>5. storeBar = RecordedStore(db)
    BY BarsAreRecorded DEF AsRecorded
  <1>6. ASSUME NEW j \in Keys
        PROVE  (IF content.record[j] = Absent THEN Absent ELSE ReadAs(content.record[j]))
                 = IF j = k THEN x ELSE IF db.record[j] = Absent THEN Absent ELSE ReadAs(db.record[j])
    <2>1. CASE j = k
      BY <1>2, <2>1, Zenon DEF x
    <2>2. CASE j # k
      BY <1>2, <2>2, Zenon
    <2> QED BY <2>1, <2>2
  <1>7. RecordedStore(content) = [j \in Keys |-> IF j = k THEN x ELSE
                                   IF db.record[j] = Absent THEN Absent ELSE ReadAs(db.record[j])]
    BY <1>6, Zenon DEF RecordedStore
  <1>8. [RecordedStore(db) EXCEPT ![k] = x] = [j \in Keys |-> IF j = k THEN x ELSE
                                   IF db.record[j] = Absent THEN Absent ELSE ReadAs(db.record[j])]
    BY DEF RecordedStore
  <1>9. storeBar' = [storeBar EXCEPT ![k] = x]
    BY <1>4, <1>5, <1>7, <1>8
  <1>10. survivorsBar' = survivorsBar \cup {storeBar'}
    BY <1>4
  <1> QED BY <1>9, <1>10 DEF x

\* The put takes effect when the record is written.
LEMMA PutRecordRefines ==
  ASSUME Inv, Inv', NEW w \in Writers, PutRecord(w)
  PROVE  Store!Put(w)
  <1>1. /\ writer[w] # Absent /\ reader' = reader /\ TypeOK
        /\ PutKey(writer[w].key, Encode("latest", writer[w].sub))
        /\ writer' = [writer EXCEPT ![w] = Absent]
    BY DEF PutRecord, Inv
  <1>2. writer[w].key \in Keys /\ writer[w].sub \in Substate
    BY <1>1, CallFields
  <1> DEFINE v == Encode("latest", writer[w].sub)
  <1>3. v \in Records /\ v # Absent /\ ReadAs(v) = writer[w].sub
    BY <1>2, LatestRecord
  <1>4. PutKey(writer[w].key, v)
    BY <1>1
  <1> HIDE DEF v
  <1>5. /\ storeBar' = [storeBar EXCEPT ![writer[w].key] = IF v = Absent THEN Absent ELSE ReadAs(v)]
        /\ survivorsBar' = survivorsBar \cup {storeBar'}
    BY <1>2, <1>3, <1>4, PutKeyBars
  <1>6. /\ pendingBar[w] # Absent /\ pendingBar[w].key = writer[w].key
        /\ pendingBar[w].sub = writer[w].sub
    BY <1>1, PendingForm
  <1>7. storeBar' = [storeBar EXCEPT ![pendingBar[w].key] = pendingBar[w].sub]
    BY <1>3, <1>5, <1>6, Zenon
  <1>8. pendingBar' = [pendingBar EXCEPT ![w] = Absent]
    BY <1>1 DEF pendingBar, TypeOK
  <1>9. readingBar' = readingBar
    BY <1>1, ReadingKept
  <1>10. storeBar' \in {[storeBar EXCEPT ![pendingBar[w].key] = pendingBar[w].sub]}
    BY <1>7
  <1> QED BY <1>5, <1>6, <1>8, <1>9, <1>10, Zenon DEF Store!Put, Store!Becomes, storeBar, survivorsBar,
                                             pendingBar, readingBar

LEMMA DeleteRefines ==
  ASSUME Inv, Inv', NEW k \in Keys, DeleteSubstate(k)
  PROVE  Store!Delete
  <1>1. PutKey(k, Absent) /\ writer' = writer /\ reader' = reader
    BY DEF DeleteSubstate
  <1>2. /\ storeBar' = [storeBar EXCEPT ![k] = IF Absent = Absent THEN Absent ELSE ReadAs(Absent)]
        /\ survivorsBar' = survivorsBar \cup {storeBar'}
    BY <1>1, PutKeyBars
  <1>3. storeBar' \in {[storeBar EXCEPT ![j] = Absent] : j \in Keys}
    BY <1>2, Zenon
  <1>4. pendingBar' = pendingBar /\ readingBar' = readingBar
    BY <1>1, ReadingKept DEF pendingBar
  <1> QED BY <1>2, <1>3, <1>4, Zenon DEF Store!Delete, Store!Becomes, storeBar, survivorsBar,
                                         pendingBar, readingBar, Store!Keys, Keys

LEMMA StorePresent ==
  ASSUME Inv, NEW k \in Keys
  PROVE  /\ db.record[k] # Absent => storeBar[k] = ReadAs(db.record[k]) /\ storeBar[k] # Absent
         /\ db.record[k] = Absent => storeBar[k] = Absent
  <1>1. storeBar = RecordedStore(db)
    BY BarsAreRecorded DEF AsRecorded
  <1>2. CASE db.record[k] # Absent
    <2>1. db.record[k] \in Records
      BY <1>2, DbFacts, VersionFields DEF Inv
    <2>2. Complete(db.code, db.record[k])
      BY <1>2, DbFacts, Zenon DEF Inv, RecordsComplete, db
    <2>3. ReadAs(db.record[k]) # Absent
      BY <2>1, <2>2, ReadsBack
    <2> QED BY <1>1, <1>2, <2>3 DEF RecordedStore
  <1>3. CASE db.record[k] = Absent
    BY <1>1, <1>3 DEF RecordedStore
  <1> QED BY <1>2, <1>3

\* Making the iterator is the moment of the read.
LEMMA StartReadingRefines ==
  ASSUME Inv, Inv', NEW r \in Readers, NEW ks \in SUBSET Keys, StartReading(r, ks),
         ks \in {{k} : k \in Keys} \cup {{b} \X Txs : b \in Blocks}
  PROVE  Store!Read(r)
  <1>1. PICK p \in Iteration :
            /\ reader' = [reader EXCEPT ![r] = p]
            /\ DOMAIN p.left = {j \in ks : db.record[j] # Absent}
            /\ \A k \in DOMAIN p.left : p.left[k] = db.record[k] /\ p.left[k] \in Records
            /\ DOMAIN p.txSubstate = {}
    BY StartReadingForm
  <1>2. versions' = versions /\ writer' = writer /\ reader[r] = Absent
    BY DEF StartReading
  <1>3. storeBar' = storeBar /\ survivorsBar' = survivorsBar /\ pendingBar' = pendingBar
    BY <1>2, VersionsKept DEF pendingBar
  <1> DEFINE here == {k \in ks : storeBar[k] # Absent}
             now == [k \in here |-> storeBar[k]]
  <1>4. here = DOMAIN p.left /\ \A k \in here : storeBar[k] = ReadAs(p.left[k])
    BY <1>1, StorePresent
  <1>5. RecordedReading(p) = now
    <2>1. DOMAIN p.left \cup DOMAIN p.txSubstate = here
      BY <1>1, <1>4
    <2>2. \A k \in here : (IF k \in DOMAIN p.left THEN ReadAs(p.left[k]) ELSE p.txSubstate[k]) = storeBar[k]
      BY <1>4
    <2> HIDE DEF here
    <2> QED BY <2>1, <2>2, Zenon DEF RecordedReading
  <1>6. p # Absent
    BY SubstateAssumption, Zenon
  <1>7. \A q \in Readers : reader'[q] = IF q = r THEN p ELSE reader[q]
    BY <1>1 DEF Inv, TypeOK
  <1>8. AsRecorded /\ AsRecorded'
    BY BarsAreRecorded, BarsAreRecordedNext
  <1> HIDE DEF here, now
  <1>9. readingBar' = [q \in Readers |-> IF q = r THEN now ELSE readingBar[q]]
    <2>1. ASSUME NEW q \in Readers
          PROVE  (IF reader'[q] = Absent THEN Absent ELSE RecordedReading(reader'[q]))
                   = IF q = r THEN now ELSE readingBar[q]
      <3>1. CASE q = r
        BY <1>5, <1>6, <1>7, <3>1, Zenon
      <3>2. CASE q # r
        BY <1>7, <1>8, <3>2 DEF AsRecorded
      <3> QED BY <3>1, <3>2
    <2>2. readingBar' = [q \in Readers |-> IF reader'[q] = Absent THEN Absent ELSE RecordedReading(reader'[q])]
      BY <1>8 DEF AsRecorded
    <2> QED BY <2>1, <2>2, Zenon
  <1>10. readingBar' = [readingBar EXCEPT ![r] = now]
    BY <1>9 DEF readingBar
  <1>11. readingBar[r] = Absent
    BY <1>2, ReadingForm
  <1>12. readingBar' \in {[readingBar EXCEPT ![r] = [k \in {j \in js : storeBar[j] # Absent} |-> storeBar[k]]] :
                             js \in {{k} : k \in Keys} \cup {{b} \X Txs : b \in Blocks}}
    BY <1>10, Zenon DEF now, here
  <1> QED BY <1>3, <1>11, <1>12, Zenon DEF Store!Read, Store!Present, storeBar, survivorsBar,
                                          pendingBar, readingBar, Store!Keys, Keys

\* Reading the next record is invisible: the iteration holds the records of its moment.
LEMMA ReadRecordRefines ==
  ASSUME Inv, Inv', NEW r \in Readers, ReadRecord(r)
  PROVE  Stutter
  <1> DEFINE left == reader[r].left
             tx == reader[r].txSubstate
             k == First(DOMAIN left)
             sub == ReadAs(left[k])
             p == [left |-> Without(left, k), txSubstate |-> Extended(tx, k, sub)]
  <1>1. /\ reader[r] # Absent /\ k \in DOMAIN left
        /\ p \in Iteration /\ reader' = [reader EXCEPT ![r] = p]
    BY ReadRecordForm
  <1>2. versions' = versions /\ writer' = writer
    BY DEF ReadRecord
  <1>3. storeBar' = storeBar /\ survivorsBar' = survivorsBar /\ pendingBar' = pendingBar
    BY <1>2, VersionsKept DEF pendingBar
  <1>4. p.left = Without(left, k) /\ p.txSubstate = Extended(tx, k, sub) /\ p # Absent
    BY <1>1, SubstateAssumption, Zenon
  <1>5. RecordedReading(p) = RecordedReading(reader[r])
    <2> HIDE DEF p, k
    <2>1. /\ DOMAIN p.left = DOMAIN left \ {k} /\ DOMAIN p.txSubstate = DOMAIN tx \cup {k}
          /\ \A j \in DOMAIN left \ {k} : p.left[j] = left[j]
          /\ \A j \in DOMAIN tx \ {k} : p.txSubstate[j] = tx[j]
          /\ p.txSubstate[k] = sub
      BY <1>4 DEF Without, Extended
    <2> DEFINE ks == DOMAIN left \cup DOMAIN tx
    <2>2. DOMAIN p.left \cup DOMAIN p.txSubstate = ks
      BY <1>1, <2>1
    <2>3. \A j \in ks : (IF j \in DOMAIN p.left THEN ReadAs(p.left[j]) ELSE p.txSubstate[j])
                          = (IF j \in DOMAIN left THEN ReadAs(left[j]) ELSE tx[j])
      BY <1>1, <2>1
    <2>4. RecordedReading(p) = [j \in ks |-> IF j \in DOMAIN left THEN ReadAs(left[j]) ELSE tx[j]]
      BY <2>2, <2>3, Zenon DEF RecordedReading
    <2> QED BY <2>4, Zenon DEF RecordedReading
  <1>6. \A q \in Readers : reader'[q] = IF q = r THEN p ELSE reader[q]
    BY <1>1 DEF Inv, TypeOK
  <1> HIDE DEF p, k
  <1>7. \A q \in Readers :
          (IF reader'[q] = Absent THEN Absent ELSE RecordedReading(reader'[q]))
            = (IF reader[q] = Absent THEN Absent ELSE RecordedReading(reader[q]))
    <2> TAKE q \in Readers
    <2>1. CASE q = r
      <3>1. reader'[q] = p
        BY <1>6, <2>1, Zenon
      <3> QED BY <1>1, <1>4, <1>5, <2>1, <3>1, Zenon
    <2>2. CASE q # r
      BY <1>6, <2>2, Zenon
    <2> QED BY <2>1, <2>2
  <1>8. AsRecorded /\ AsRecorded'
    BY BarsAreRecorded, BarsAreRecordedNext
  <1>9. readingBar' = readingBar
    BY <1>7, <1>8, Zenon DEF AsRecorded
  <1> QED BY <1>3, <1>9 DEF Stutter

LEMMA ReleaseRefines ==
  ASSUME Inv, Inv', NEW r \in Readers, Release(r)
  PROVE  Store!Return(r)
  <1>1. /\ reader[r] # Absent /\ reader' = [reader EXCEPT ![r] = Absent]
        /\ versions' = versions /\ writer' = writer
    BY DEF Release
  <1>2. storeBar' = storeBar /\ survivorsBar' = survivorsBar /\ pendingBar' = pendingBar
    BY <1>1, VersionsKept DEF pendingBar
  <1>3. readingBar[r] # Absent
    BY <1>1, ReadingForm
  <1>4. AsRecorded /\ AsRecorded'
    BY BarsAreRecorded, BarsAreRecordedNext
  <1>5. \A q \in Readers : reader'[q] = IF q = r THEN Absent ELSE reader[q]
    BY <1>1 DEF Inv, TypeOK
  <1>6. readingBar' = [q \in Readers |-> IF q = r THEN Absent ELSE readingBar[q]]
    BY <1>4, <1>5 DEF AsRecorded
  <1>7. readingBar' = [readingBar EXCEPT ![r] = Absent]
    BY <1>6 DEF readingBar
  <1> QED BY <1>2, <1>3, <1>7, Zenon DEF Store!Return, storeBar, survivorsBar, pendingBar, readingBar

LEMMA CompactRefines ==
  ASSUME Inv, Inv', CompactSubstateDB
  PROVE  Store!Flush
  <1>1. versions' = <<db>> /\ writer' = writer /\ reader' = reader
    BY DEF CompactSubstateDB
  <1>2. DOMAIN versions' = {1} /\ versions'[1] = db /\ db' = db
    BY <1>1 DEF db
  <1>3. storeBar' = storeBar /\ survivorsBar' = {storeBar}
    BY <1>2 DEF storeBar, survivorsBar
  <1>4. pendingBar' = pendingBar /\ readingBar' = readingBar
    BY <1>1, ReadingKept DEF pendingBar
  <1> QED BY <1>3, <1>4, Zenon DEF Store!Flush, storeBar, survivorsBar, pendingBar, readingBar

LEMMA CrashRefines ==
  ASSUME Inv, Inv', Crash
  PROVE  Store!Crash
  <1>1. PICK i \in DOMAIN versions : versions' = <<versions[i]>>
    BY DEF Crash
  <1>2. DOMAIN versions' = {1} /\ versions'[1] = versions[i] /\ db' = versions[i]
    BY <1>1 DEF db
  <1>3. storeBar' = StoreOf(versions[i]) /\ survivorsBar' = {StoreOf(versions[i])}
    BY <1>2 DEF storeBar, survivorsBar
  <1>4. storeBar' \in survivorsBar /\ survivorsBar' = {storeBar'}
    BY <1>3, Zenon DEF survivorsBar
  <1>5. pendingBar' = [w \in Writers |-> Absent] /\ readingBar' = [r \in Readers |-> Absent]
    BY DEF Crash, pendingBar, readingBar
  <1> QED BY <1>4, <1>5, Zenon DEF Store!Crash, storeBar, survivorsBar, pendingBar, readingBar

LEMMA StutterRefines ==
  ASSUME Stutter
  PROVE  UNCHANGED Store!svars
  BY Zenon DEF Stutter, Store!svars, storeBar, survivorsBar, pendingBar, readingBar

LEMMA NextRefines == Inv /\ Inv' /\ [Next]_vars => [Store!Next]_(Store!svars)
  <1> SUFFICES ASSUME Inv, Inv', [Next]_vars PROVE Store!Next \/ UNCHANGED Store!svars
    OBVIOUS
  <1>1. ASSUME NEW w \in Writers, NEW k \in Keys, NEW s \in Substates, PutSubstate(w, k, s)
        PROVE  Store!Next
    BY <1>1, PutSubstateRefines, Zenon DEF Store!Next
  <1>2. ASSUME NEW w \in Writers, PutCode(w) PROVE UNCHANGED Store!svars
    BY <1>2, PutCodeRefines, StutterRefines
  <1>3. ASSUME NEW w \in Writers, PutRecord(w) PROVE Store!Next
    BY <1>3, PutRecordRefines, Zenon DEF Store!Next
  <1>4. ASSUME NEW k \in Keys, DeleteSubstate(k) PROVE Store!Next
    BY <1>4, DeleteRefines, Zenon DEF Store!Next
  <1>5. ASSUME NEW r \in Readers, NEW k \in Keys, GetSubstate(r, k) PROVE Store!Next
    <2>1. {k} \in SUBSET Keys /\ {k} \in {{j} : j \in Keys} \cup {{b} \X Txs : b \in Blocks}
      OBVIOUS
    <2>2. StartReading(r, {k})
      BY <1>5 DEF GetSubstate
    <2>3. Store!Read(r)
      BY <2>1, <2>2, StartReadingRefines
    <2> QED BY <2>3, Zenon DEF Store!Next
  <1>6. ASSUME NEW r \in Readers, NEW b \in Blocks, GetBlockSubstates(r, b) PROVE Store!Next
    <2>1. {b} \X Txs \in SUBSET Keys
      BY DEF Keys
    <2>2. {b} \X Txs \in {{j} : j \in Keys} \cup {{c} \X Txs : c \in Blocks}
      BY Zenon
    <2>3. StartReading(r, {b} \X Txs)
      BY <1>6 DEF GetBlockSubstates
    <2>4. Store!Read(r)
      BY <2>1, <2>2, <2>3, StartReadingRefines
    <2> QED BY <2>4, Zenon DEF Store!Next
  <1>7. ASSUME NEW r \in Readers, ReadRecord(r) PROVE UNCHANGED Store!svars
    BY <1>7, ReadRecordRefines, StutterRefines
  <1>8. ASSUME NEW r \in Readers, Release(r) PROVE Store!Next
    BY <1>8, ReleaseRefines, Zenon DEF Store!Next
  <1>9. CASE CompactSubstateDB
    BY <1>9, CompactRefines, Zenon DEF Store!Next
  <1>10. CASE Crash
    BY <1>10, CrashRefines, Zenon DEF Store!Next
  <1>11. CASE UNCHANGED vars
    <2>1. versions' = versions /\ writer' = writer /\ reader' = reader
      BY <1>11 DEF vars
    <2>2. Stutter
      BY <2>1, VersionsKept, ReadingKept DEF Stutter, pendingBar
    <2> QED BY <2>2, StutterRefines
  <1> QED BY <1>1, <1>2, <1>3, <1>4, <1>5, <1>6, <1>7, <1>8, <1>9, <1>10, <1>11, Zenon DEF Next

\* The database implements the store: a put or a delete takes effect at one moment, a reader
\* of a block returns the substates of one moment, and a crash between the writes of a put
\* leaves an earlier state of the store, never half a substate.
THEOREM ImplementsTheStore == Spec => ImplementsStore
  BY InitRefines, NextRefines, InductiveInvariant, PTL DEF Spec, ImplementsStore, Store!Spec
=============================================================================
