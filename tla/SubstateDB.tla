----------------------------- MODULE SubstateDB -----------------------------
(***************************************************************************)
(* The substate database of backend/research: records of transactions and  *)
(* the codes they refer to, kept under separate keys of one LevelDB.        *)
(* PutSubstate writes the codes one by one and the record last; readers     *)
(* decode a record, trying three formats, and look up its codes; codes are  *)
(* never deleted.  LevelDB writes without a sync, so that a crash leaves    *)
(* what some prefix of the writes since the last flush had produced.        *)
(*                                                                         *)
(* A hash is the code that it stands for, and EmptyCode the code of length 0.*)
(* An alloc is a function from addresses to codes; the data of an account   *)
(* other than its code is copied and left out, as is the result.            *)
(***************************************************************************)
EXTENDS Naturals, Sequences, FiniteSets

CONSTANTS Blocks, Txs,    \* a key is a block and the position of a transaction
          Addrs,          \* addresses of an alloc
          Codes,          \* codes and input data
          EmptyCode,      \* the code of length 0
          Substates,      \* the substates that are put
          OldRecords,     \* records of earlier versions that may be there at first
          Absent,
          Writers, Readers,
          MaxUnflushed    \* bound: writes between two flushes

VARIABLES versions,  \* contents of LevelDB since the last flush, the last is the present
          writer,    \* per writer: the PutSubstate in progress, or Absent
          reader     \* per reader: the iteration in progress, or Absent

vars == <<versions, writer, reader>>

Keys == Blocks \X Txs

Alloc == [Addrs -> Codes]

\* access: there is an access list; feeCap: GasFeeCap and GasTipCap differ from
\* GasPrice; baseFee: BaseFee is not nil.
Substate == [inputAlloc : Alloc, outputAlloc : Alloc, create : BOOLEAN, data : Codes,
             access : BOOLEAN, feeCap : BOOLEAN, baseFee : BOOLEAN]

(***************************************************************************)
(* Encoding.  The three formats differ in the fields of Env and Message,    *)
(* and a list with another number of fields does not decode.  Field of is a *)
(* history: the substate that was recorded, which no operation reads.       *)
(***************************************************************************)
Formats == {"legacy", "berlin", "latest"}

Shape(f) == [legacy |-> [env |-> 6, message |-> 9],
             berlin |-> [env |-> 6, message |-> 10],
             latest |-> [env |-> 7, message |-> 12]][f]

\* A creation keeps the hash of its init code in place of its data.
EncodeMessage(s) ==
    [to   |-> ~s.create,
     data |-> IF s.create THEN EmptyCode ELSE s.data,
     initCodeHash |-> IF s.create THEN s.data ELSE Absent]

Encode(f, s) ==
    [shape |-> Shape(f), inputHash |-> s.inputAlloc, outputHash |-> s.outputAlloc,
     message |-> EncodeMessage(s), access |-> s.access, feeCap |-> s.feeCap,
     baseFee |-> s.baseFee, of |-> s]

\* What a recorder of the time could put: no access lists before Berlin, no fee
\* market before London.
Recordable(f, s) ==
    /\ f \in {"legacy", "berlin"} => ~s.feeCap /\ ~s.baseFee
    /\ f = "legacy" => ~s.access

Records == UNION {{Encode(f, s) : s \in {t \in Substate : Recordable(f, t)}} : f \in Formats}

\* A PutSubstate in progress: the sets of codes that are left, none of them empty.
Call == [key : Keys, sub : Substates, todo : Seq((SUBSET Codes) \ {{}})]

Maps(S) == UNION {[ks -> S] : ks \in SUBSET Keys}

\* An iteration in progress: the records that are left and the substates that were read.
Iteration == [left : Maps(Records), txSubstate : Maps(Substate \cup {Absent})]

\* Keys are numbers, the records that are there at first were put by some version of the
\* recorder, and Absent is a mark of its own: no substate, record, call or iteration.
ASSUME SubstateAssumption ==
    /\ EmptyCode \in Codes
    /\ MaxUnflushed \in Nat \ {0}
    /\ Blocks \subseteq Nat
    /\ Txs \subseteq Nat
    /\ Substates \subseteq Substate
    /\ OldRecords \subseteq Records
    /\ Absent \notin Codes \cup Substate \cup Records \cup Call \cup Iteration
    /\ Absent \notin [key : Keys, sub : Substate] \cup Maps(Substate)

Decodes(v, f) == v.shape = Shape(f)

\* setBerlinRLP and setLegacyRLP: no access list, not even that of a Berlin record, no base
\* fee, and the caps are the price.
SetOldRLP(v) == [v EXCEPT !.access = FALSE, !.feeCap = FALSE, !.baseFee = FALSE]

\* The formats are tried in this order.
Decode(v) == CASE Decodes(v, "latest") -> v
               [] Decodes(v, "berlin") -> SetOldRLP(v)
               [] Decodes(v, "legacy") -> SetOldRLP(v)

(***************************************************************************)
(* Codes.  GetCode panics when the key is missing.                          *)
(***************************************************************************)
Found(codes, h) == h = EmptyCode \/ h \in codes

CodesOf(alloc) == {alloc[a] : a \in DOMAIN alloc}

HashesOf(v) == CodesOf(v.inputHash) \cup CodesOf(v.outputHash)
                 \cup (IF v.message.to THEN {} ELSE {v.message.initCodeHash})

\* Substate.SetRLP: the substate that a record stands for, or Absent for a panic.
SetRLP(codes, v) ==
    IF \A h \in HashesOf(v) : Found(codes, h)
    THEN [inputAlloc |-> v.inputHash, outputAlloc |-> v.outputHash,
          create |-> ~v.message.to,
          data |-> IF v.message.to THEN v.message.data ELSE v.message.initCodeHash,
          access |-> v.access, feeCap |-> v.feeCap, baseFee |-> v.baseFee]
    ELSE Absent

Resolve(codes, v) == SetRLP(codes, Decode(v))

(***************************************************************************)
(* LevelDB.                                                                 *)
(***************************************************************************)
db == versions[Len(versions)]

Write(content) ==
    /\ Len(versions) <= MaxUnflushed
    /\ versions' = Append(versions, content)

PutKey(k, v) == Write([db EXCEPT !.record[k] = v])

Init ==
    /\ \E record \in [Keys -> OldRecords \cup {Absent}] :
          versions = <<[code |-> (UNION {HashesOf(record[k]) : k \in {j \in Keys : record[j] # Absent}})
                                   \ {EmptyCode},
                        record |-> record]>>
    /\ writer = [w \in Writers |-> Absent]
    /\ reader = [r \in Readers |-> Absent]

(***************************************************************************)
(* PutSubstate.                                                             *)
(***************************************************************************)
\* The work for one alloc or init code: PutCode skips the empty code.
NonEmpty(cs) == IF cs \subseteq {EmptyCode} THEN <<>> ELSE <<cs \ {EmptyCode}>>

\* Mutant: the init code is not put.
CodesToPutNoInit(s) == NonEmpty(CodesOf(s.inputAlloc)) \o NonEmpty(CodesOf(s.outputAlloc))

\* The codes to put: of the input, of the output, and the init code, in this order,
\* those of an alloc in any order (it is a Go map).
CodesToPut(s) ==
    NonEmpty(CodesOf(s.inputAlloc)) \o NonEmpty(CodesOf(s.outputAlloc))
        \o NonEmpty(IF s.create THEN {s.data} ELSE {})

PutSubstate(w, k, s) ==
    /\ writer[w] = Absent
    /\ writer' = [writer EXCEPT ![w] = [key |-> k, sub |-> s, todo |-> CodesToPut(s)]]
    /\ UNCHANGED <<versions, reader>>

\* Mutant: the next alloc is begun with an empty rest of the last one.
PutCodeKeepRest(w) ==
    /\ writer[w] # Absent
    /\ writer[w].todo # <<>>
    /\ \E c \in Head(writer[w].todo) :
          /\ Write([db EXCEPT !.code = @ \cup {c}])
          /\ writer' = [writer EXCEPT ![w].todo[1] = @ \ {c}]
    /\ UNCHANGED reader

PutCode(w) ==
    /\ writer[w] # Absent
    /\ writer[w].todo # <<>>
    /\ \E c \in Head(writer[w].todo) :
          LET left == Head(writer[w].todo) \ {c}
              rest == Tail(writer[w].todo)
          IN  /\ Write([db EXCEPT !.code = @ \cup {c}])
              /\ writer' = [writer EXCEPT ![w].todo =
                               IF left = {} THEN rest ELSE <<left>> \o rest]
    /\ UNCHANGED reader

PutRecord(w) ==
    /\ writer[w] # Absent
    /\ writer[w].todo = <<>>
    /\ PutKey(writer[w].key, Encode("latest", writer[w].sub))
    /\ writer' = [writer EXCEPT ![w] = Absent]
    /\ UNCHANGED reader

\* Mutant: the codes of a deleted record go with it.
DeleteSubstateAndCode(k) ==
    /\ Write([db EXCEPT !.record[k] = Absent,
                        !.code = IF db.record[k] = Absent THEN @ ELSE @ \ HashesOf(db.record[k])])
    /\ UNCHANGED <<writer, reader>>

DeleteSubstate(k) ==
    /\ PutKey(k, Absent)
    /\ UNCHANGED <<writer, reader>>

(***************************************************************************)
(* GetSubstate and GetBlockSubstates.  An iterator sees the records of the  *)
(* moment it was made; codes are read from the database as it is by then.   *)
(***************************************************************************)
StartReading(r, ks) ==
    /\ reader[r] = Absent
    /\ reader' = [reader EXCEPT ![r] =
          [left |-> [k \in {j \in ks : db.record[j] # Absent} |-> db.record[k]],
           txSubstate |-> [k \in {} |-> Absent]]]
    /\ UNCHANGED <<versions, writer>>

GetSubstate(r, k) ==
    /\ db.record[k] # Absent
    /\ StartReading(r, {k})

GetBlockSubstates(r, b) == StartReading(r, {b} \X Txs)

Without(f, k) == [j \in DOMAIN f \ {k} |-> f[j]]

Extended(f, k, v) == [j \in DOMAIN f \cup {k} |-> IF j = k THEN v ELSE f[j]]

\* The next record in the order of the keys, which are compared as numbers.
First(ks) == CHOOSE k \in ks : \A j \in ks :
                 k[1] < j[1] \/ (k[1] = j[1] /\ k[2] <= j[2])

\* Mutant: the keys are iterated over, and each record is read when its turn comes.
ReadRecordLive(r) ==
    /\ reader[r] # Absent
    /\ DOMAIN reader[r].left # {}
    /\ LET k == First(DOMAIN reader[r].left)
           v == IF db.record[k] = Absent THEN reader[r].left[k] ELSE db.record[k]
       IN  reader' = [reader EXCEPT ![r] =
              [left |-> Without(@.left, k),
               txSubstate |-> Extended(@.txSubstate, k, Resolve(db.code, v))]]
    /\ UNCHANGED <<versions, writer>>

ReadRecord(r) ==
    /\ reader[r] # Absent
    /\ DOMAIN reader[r].left # {}
    /\ LET k == First(DOMAIN reader[r].left)
           s == Resolve(db.code, reader[r].left[k])
       IN  reader' = [reader EXCEPT ![r] =
              [left |-> Without(@.left, k), txSubstate |-> Extended(@.txSubstate, k, s)]]
    /\ UNCHANGED <<versions, writer>>

Release(r) ==
    /\ reader[r] # Absent
    /\ DOMAIN reader[r].left = {}
    /\ reader' = [reader EXCEPT ![r] = Absent]
    /\ UNCHANGED <<versions, writer>>

(***************************************************************************)
(* Compaction, closing, and the memory table of LevelDB when it is full,    *)
(* bring all writes to disk; a crash loses a suffix of the others.          *)
(***************************************************************************)
CompactSubstateDB ==
    /\ Len(versions) > 1
    /\ versions' = <<db>>
    /\ UNCHANGED <<writer, reader>>

Crash ==
    /\ \E i \in DOMAIN versions : versions' = <<versions[i]>>
    /\ writer' = [w \in Writers |-> Absent]
    /\ reader' = [r \in Readers |-> Absent]

Next ==
    \/ \E w \in Writers :
          \/ \E k \in Keys, s \in Substates : PutSubstate(w, k, s)
          \/ PutCode(w)
          \/ PutRecord(w)
    \/ \E k \in Keys : DeleteSubstate(k)
    \/ \E r \in Readers :
          \/ \E k \in Keys : GetSubstate(r, k)
          \/ \E b \in Blocks : GetBlockSubstates(r, b)
          \/ ReadRecord(r)
          \/ Release(r)
    \/ CompactSubstateDB
    \/ Crash

Spec == Init /\ [][Next]_vars

(***************************************************************************)
(* Properties.                                                              *)
(***************************************************************************)
Version == [code : SUBSET Codes, record : [Keys -> Records \cup {Absent}]]

\* Every version is a set of codes and a map of records in one of the formats; writers and
\* readers are idle or in the middle of a call.
TypeOK ==
    /\ versions \in Seq(Version)
    /\ Len(versions) \in 1..(MaxUnflushed + 1)
    /\ writer \in [Writers -> Call \cup {Absent}]
    /\ reader \in [Readers -> Iteration \cup {Absent}]

\* The named exception: a record of the Berlin format holds the access list of its
\* transaction (substate_rlp.go:217), and setBerlinRLP drops it (:233).
AccessListDropped(v) == Decodes(v, "berlin") /\ v.of.access

ReadAs(v) == IF AccessListDropped(v) THEN [v.of EXCEPT !.access = FALSE] ELSE v.of

\* At every moment and after every crash a record that is present can be read, since all its
\* codes are found, and gives the substate that was recorded; a Berlin record with an access
\* list, and no other, gives it without that list.
RecordsReadBack ==
    \A k \in Keys : db.record[k] # Absent =>
        LET v == db.record[k]
            s == Resolve(db.code, v)
        IN  /\ ~AccessListDropped(v) => s = v.of
            /\ AccessListDropped(v) => s = [v.of EXCEPT !.access = FALSE]

\* No reader meets a missing code, whatever is deleted or put during its iteration.
ReadersNeverPanic ==
    \A r \in Readers : reader[r] # Absent =>
        \A k \in DOMAIN reader[r].txSubstate : reader[r].txSubstate[k] # Absent

(***************************************************************************)
(* Refinement: each record counts as the substate it resolves to.           *)
(***************************************************************************)
StoreOf(content) ==
    [k \in Keys |-> IF content.record[k] = Absent THEN Absent
                    ELSE Resolve(content.code, content.record[k])]

ReadingOf(p) ==
    [k \in DOMAIN p.left \cup DOMAIN p.txSubstate |->
        IF k \in DOMAIN p.left THEN Resolve(db.code, p.left[k]) ELSE p.txSubstate[k]]

Store == INSTANCE SubstateStore WITH
    Substates <- Substates \cup {ReadAs(v) : v \in OldRecords},
    store     <- StoreOf(db),
    survivors <- {StoreOf(versions[i]) : i \in DOMAIN versions},
    pending   <- [w \in Writers |-> IF writer[w] = Absent THEN Absent
                                    ELSE [key |-> writer[w].key, sub |-> writer[w].sub]],
    reading   <- [r \in Readers |-> IF reader[r] = Absent THEN Absent ELSE ReadingOf(reader[r])]

\* A put or a delete takes effect at one moment, a reader of a block returns the substates
\* of one moment, and a crash between the writes of a put leaves an earlier state of the
\* store, never half a substate.
ImplementsStore == Store!Spec
=============================================================================
