------------------------------- MODULE DappRun -------------------------------
(***************************************************************************)
(* One process of run_RQ1.py for one contract: Dapp.run for each number of   *)
(* transactions in turn, over the files that replay-inv wrote.  A run reads  *)
(* the calls to mine through a cache file (readVarDict), mines, dumps what   *)
(* it mined, reads the calls to check through a second cache, checks, and    *)
(* writes violatedTxs.json, whose presence makes later runs skip the number  *)
(* (ignore_exist).  The process may be killed at any point and started anew. *)
(* A file is opened for writing, which empties it, and then written.         *)
(*                                                                         *)
(* Mining and checking are functions of the calls they are given (InvMiner); *)
(* the files dumped in between, which no run reads, are one each.            *)
(***************************************************************************)
EXTENDS TxExtractor, FiniteSets

CONSTANTS
    TxFiles,      \* names of the files, pairs <<block, position>>
    Contents,     \* what the files may hold: functions from TxFiles to transactions
    LastMined,    \* dapp_dict[dapp][1]: blocks up to here are mined, later ones checked
    TrainNums,    \* todo_list
    CheckNum,     \* the txNum of checkInvs (1000)
    Width,        \* the digits to which getTxKey fills up a block number (8)
    Missing, Torn,  \* a file that is not there, one that was emptied and not written
    MaxCrashes    \* bound: times the process is killed

ASSUME DappAssumption ==
    /\ TxFiles \subseteq Nat \X Nat /\ IsFiniteSet(TxFiles)
    /\ LastMined \in Nat /\ CheckNum \in Nat /\ Width \in Nat /\ MaxCrashes \in Nat
    /\ TrainNums \in Seq(Nat)
    /\ \A f \in Contents : \A tx \in TxFiles : IsTree(f[tx])

\* What readTxToVarDict makes of a call.
VarDict == [tx : TxFiles, index : Nat, call : Nat, logs : Seq(Nat)]

ASSUME FileAssumption ==
    /\ Missing # Torn
    /\ {Missing, Torn} \cap Seq(VarDict) = {}
    /\ {Missing, Torn} \cap [mined : Seq(VarDict), checked : Seq(VarDict)] = {}

VARIABLES
    files,    \* the transaction in each file
    cache,    \* {mode}_var_dict.json: calls, Missing or Torn
    result,   \* per number: what mine_*.json, checked_dtraces.json and violatedTxs.json hold
    pc,
    todo,     \* position in TrainNums
    loaded,   \* return_var_dict_list of each mode
    crashes

vars == <<files, cache, result, pc, todo, loaded, crashes>>

Modes == {"mine", "check"}

NoResult == [mined |-> Missing, checked |-> Missing, violatedTxs |-> Missing]

(***************************************************************************)
(* Names are compared as strings.  A digit is itself; "_" comes after them. *)
(***************************************************************************)
Digits(n) ==
    LET d[m \in 0..n] == IF m < 10 THEN <<m>> ELSE Append(d[m \div 10], m % 10) IN d[n]

\* Block numbers have no more digits than getTxKey fills up to.
ASSUME WidthAssumption == \A tx \in TxFiles : Len(Digits(tx[1])) <= Width

Underscore == <<10>>

Before(s, t) ==
    \/ \E i \in DOMAIN s \cap DOMAIN t : /\ s[i] < t[i]
                                         /\ \A j \in 1..(i - 1) : s[j] = t[j]
    \/ IsStrictPrefix(s, t)

\* Mutant: the number of the block is not filled up.
getTxKeyUnfilled(tx) == Digits(tx[1]) \o Underscore \o Digits(tx[2])

getTxKey(tx) ==
    [i \in 1..(Width - Len(Digits(tx[1]))) |-> 0]
        \o Digits(tx[1]) \o Underscore \o Digits(tx[2])

getVarDictBlockTx(c) ==
    Digits(c.tx[1]) \o Underscore \o Digits(c.tx[2]) \o Underscore \o Digits(c.index)

InRange(mode, tx) == IF mode = "mine" THEN tx[1] <= LastMined ELSE tx[1] > LastMined

(***************************************************************************)
(* readVarDict.                                                             *)
(***************************************************************************)
readTxToVarDict(tx) ==
    LET callList == extractcall(files[tx])
    IN  [i \in DOMAIN callList |->
            [tx |-> tx, index |-> i - 1, call |-> callList[i].call, logs |-> callList[i].logs]]

\* Calls in the cache of transactions that are wanted.
Cached(mode) ==
    LET wanted == {i \in DOMAIN cache[mode] : /\ cache[mode][i].tx \in TxFiles
                                              /\ InRange(mode, cache[mode][i].tx)}
        kept   == Upwards(wanted)
    IN  IF cache[mode] = Missing THEN <<>> ELSE [k \in DOMAIN kept |-> cache[mode][kept[k]]]

Ahead(mode, s, t) ==
    IF mode = "mine" THEN Before(getTxKey(t), getTxKey(s)) ELSE Before(getTxKey(s), getTxKey(t))

\* The other files: the last first for mining, the first first for checking.
toRoadTxs(mode) ==
    LET names == {tx \in TxFiles : InRange(mode, tx)} \ {c.tx : c \in ToSet(Cached(mode))}
    IN  InOrder(names, {p \in names \X names : Ahead(mode, p[1], p[2])})

\* How many files are read, given the calls of each: txCount begins with the number of cached
\* *calls* and grows with each file since the first that has a call, and a file is read before
\* the count is looked at.
numRead(mode, txNum, varDicts) ==
    LET n          == Len(varDicts)
        txCount(k) == Len(Cached(mode)) +
                      Cardinality({j \in 1..k : \E i \in 1..j : varDicts[i] # <<>>})
    IN  CHOOSE k \in 0..n :
            /\ n > 0 => k > 0
            /\ k < n => txCount(k) >= txNum
            /\ \A j \in 1..(k - 1) : txCount(j) < txNum

\* The sort of Python leaves calls with equal names in their order.
sortCalls(calls) ==
    LET Earlier(i, j) == Before(getVarDictBlockTx(calls[i]), getVarDictBlockTx(calls[j]))
        order == InOrder(DOMAIN calls, {p \in (DOMAIN calls) \X (DOMAIN calls) :
                                           \/ Earlier(p[1], p[2])
                                           \/ p[1] < p[2] /\ ~Earlier(p[2], p[1])})
    IN  [k \in DOMAIN order |-> calls[order[k]]]

(***************************************************************************)
(* Dapp.run.                                                                *)
(***************************************************************************)
Init ==
    /\ files \in Contents
    /\ cache = [m \in Modes |-> Missing]
    /\ result = [i \in DOMAIN TrainNums |-> NoResult]
    /\ pc = "start"
    /\ todo = 1
    /\ loaded = [m \in Modes |-> <<>>]
    /\ crashes = 0

Goto(from, to) == pc = from /\ pc' = to

\* Mutant: a result that is there is made anew.
BeginAlways ==
    /\ todo \in DOMAIN TrainNums
    /\ Goto("start", "mine")
    /\ UNCHANGED <<files, cache, result, todo, loaded, crashes>>

Begin ==
    /\ todo \in DOMAIN TrainNums
    /\ result[todo].violatedTxs = Missing
    /\ Goto("start", "mine")
    /\ UNCHANGED <<files, cache, result, todo, loaded, crashes>>

\* Mutant: a result that is there ends the process.
SkipRaises ==
    /\ todo \in DOMAIN TrainNums
    /\ result[todo].violatedTxs # Missing
    /\ Goto("start", "raised")
    /\ UNCHANGED <<files, cache, result, todo, loaded, crashes>>

\* violatedTxs.json is there: "continue".
Skip ==
    /\ todo \in DOMAIN TrainNums
    /\ result[todo].violatedTxs # Missing
    /\ Goto("start", "start")
    /\ todo' = todo + 1
    /\ UNCHANGED <<files, cache, result, loaded, crashes>>

txNumOf(mode) == IF mode = "mine" THEN TrainNums[todo] ELSE CheckNum

OpenCache(mode) == IF mode = "mine" THEN "openMineCache" ELSE "openCheckCache"
WriteCache(mode) == IF mode = "mine" THEN "writeMineCache" ELSE "writeCheckCache"
After(mode) == IF mode = "mine" THEN "dumpMined" ELSE "dumpChecked"

\* The calls that are returned; Torn stands for an exception: a cache that cannot be parsed
\* or a log without topics.
Selection(mode) ==
    LET road     == toRoadTxs(mode)
        varDicts == [i \in DOMAIN road |-> readTxToVarDict(road[i])]
        n        == numRead(mode, txNumOf(mode), varDicts)
    IN  IF cache[mode] = Torn \/ \E i \in 1..n : Unreadable(files[road[i]]) THEN Torn
        ELSE Cached(mode) \o FlattenSeq(SubSeq(varDicts, 1, n))

\* Mutant: the cached calls are left out of what is returned.
readVarDictNew(mode) ==
    \E selection \in {Selection(mode)} : LET cached == Cached(mode) IN
        /\ pc = mode /\ selection # Torn
        /\ loaded' = [loaded EXCEPT ![mode] =
                         SubSeq(selection, Len(cached) + 1, Len(selection))]
        /\ Goto(mode, IF Len(selection) = Len(cached) THEN After(mode) ELSE OpenCache(mode))
        /\ UNCHANGED <<files, cache, result, todo, crashes>>

\* The cache is written again only when a call was added.
readVarDict(mode) ==
    /\ pc = mode
    /\ \E selection \in {Selection(mode)} :
        /\ loaded' = IF selection = Torn THEN loaded ELSE [loaded EXCEPT ![mode] = selection]
        /\ pc' = CASE selection = Torn -> "raised"
                   [] selection # Torn /\ Len(selection) = Len(Cached(mode)) -> After(mode)
                   [] OTHER -> OpenCache(mode)
    /\ UNCHANGED <<files, cache, result, todo, crashes>>

\* Mutant: the file is opened without being emptied.
openCacheAppend(mode) ==
    /\ Goto(OpenCache(mode), WriteCache(mode))
    /\ UNCHANGED <<files, cache, result, todo, loaded, crashes>>

openCache(mode) ==
    /\ Goto(OpenCache(mode), WriteCache(mode))
    /\ cache' = [cache EXCEPT ![mode] = Torn]
    /\ UNCHANGED <<files, result, todo, loaded, crashes>>

\* return_var_dict_list, before it is sorted.
writeCache(mode) ==
    /\ Goto(WriteCache(mode), After(mode))
    /\ cache' = [cache EXCEPT ![mode] = loaded[mode]]
    /\ UNCHANGED <<files, result, todo, loaded, crashes>>

dumpMined ==
    /\ Goto("dumpMined", "check")
    /\ result' = [result EXCEPT ![todo].mined = sortCalls(loaded["mine"])]
    /\ UNCHANGED <<files, cache, todo, loaded, crashes>>

dumpChecked ==
    /\ Goto("dumpChecked", "openViolated")
    /\ result' = [result EXCEPT ![todo].checked = sortCalls(loaded["check"])]
    /\ UNCHANGED <<files, cache, todo, loaded, crashes>>

openViolated ==
    /\ Goto("openViolated", "writeViolated")
    /\ result' = [result EXCEPT ![todo].violatedTxs = Torn]
    /\ UNCHANGED <<files, cache, todo, loaded, crashes>>

\* The verdict is known by the calls it was reached from.
writeViolated ==
    /\ Goto("writeViolated", "start")
    /\ result' = [result EXCEPT ![todo].violatedTxs =
                     [mined |-> sortCalls(loaded["mine"]), checked |-> sortCalls(loaded["check"])]]
    /\ todo' = todo + 1
    /\ loaded' = [m \in Modes |-> <<>>]
    /\ UNCHANGED <<files, cache, crashes>>

Step ==
    \/ Begin \/ Skip
    \/ \E mode \in Modes : readVarDict(mode) \/ openCache(mode) \/ writeCache(mode)
    \/ dumpMined \/ dumpChecked \/ openViolated \/ writeViolated

Finished == pc = "start" /\ todo > Len(TrainNums)

Restart ==
    /\ pc' = "start"
    /\ todo' = 1
    /\ loaded' = [m \in Modes |-> <<>>]
    /\ UNCHANGED <<files, cache, result>>

Crash ==
    /\ crashes < MaxCrashes
    /\ ~Finished
    /\ Restart
    /\ crashes' = crashes + 1

\* The user starts a process again that an exception has ended.
Again ==
    /\ pc = "raised"
    /\ Restart
    /\ UNCHANGED crashes

Next == Step \/ Crash \/ Again

\* WF_vars(Step) with its ENABLED written out, which spares TLC to read the files once more.
StepsOn == []<>(pc = "raised" \/ Finished) \/ []<><<Step>>_vars

Spec == Init /\ [][Next]_vars /\ StepsOn /\ WF_vars(Again)

(***************************************************************************)
(* Properties.                                                              *)
(***************************************************************************)
IsCalls(x) == x \notin {Missing, Torn}

Whole(m) == IsCalls(cache[m])

\* Where the process is, what the files hold, and that a cache is emptied only on the way to
\* be written or by a crash.
TypeOK ==
    /\ files \in Contents
    /\ todo \in 1..(Len(TrainNums) + 1)
    /\ crashes \in 0..MaxCrashes
    /\ pc \in {"start", "mine", "check", "dumpMined", "dumpChecked", "openViolated",
              "writeViolated", "raised"} \cup {OpenCache(m) : m \in Modes}
                                        \cup {WriteCache(m) : m \in Modes}
    /\ \A m \in Modes :
          /\ cache[m] = Torn => pc = WriteCache(m) \/ crashes > 0
          /\ pc = WriteCache(m) => cache[m] = Torn
    /\ \A i \in DOMAIN TrainNums :
          result[i].violatedTxs = Torn => crashes > 0 \/ (pc = "writeViolated" /\ todo = i)

\* The lists of calls of one mode that exist at the moment, on disk and in memory.
Lists(m) ==
    {x \in {cache[m], loaded[m]} \cup
           {IF m = "mine" THEN result[i].mined ELSE result[i].checked : i \in DOMAIN TrainNums} :
        IsCalls(x)}

CallsOf(calls, tx) == {i \in DOMAIN calls : calls[i].tx = tx}

\* Through caches, crashes and repeated runs a list of calls is made of whole transactions of
\* its range: each recorded call once, with exactly the events that are its own.
CallsExact ==
    \A m \in Modes : \A calls \in Lists(m) :
        \A i \in DOMAIN calls :
            LET tx == calls[i].tx
                same == CallsOf(calls, tx)
            IN  /\ InRange(m, tx)
                /\ {calls[j].call : j \in same} = Recorded(files[tx])
                /\ Cardinality(same) = Cardinality(Recorded(files[tx]))
                /\ ToSet(calls[i].logs) = EventsOf(files[tx], calls[i].call)
                /\ Len(calls[i].logs) = Cardinality(ToSet(calls[i].logs))

\* A list to mine is made of the latest blocks with calls and one to check of the earliest: the
\* cache never leaves out a block (positions in a block are not compared), whatever numbers were run before and wherever they were killed.
NoGap ==
    \A m \in Modes : \A calls \in Lists(m) :
        \A i \in DOMAIN calls :
            \A tx \in TxFiles :
                InRange(m, tx) /\ CallsOf(calls, tx) = {} /\ Recorded(files[tx]) # {} =>
                    IF m = "mine" THEN tx[1] <= calls[i].tx[1] ELSE tx[1] >= calls[i].tx[1]

\* violatedTxs.json belongs to the dumps beside it: a run that was killed and run again leaves
\* no mixture of the two.
OneVerdict ==
    \A i \in DOMAIN TrainNums :
        LET r == result[i]
        IN  IsCalls(r.violatedTxs) =>
                r.violatedTxs.mined = r.mined /\ r.violatedTxs.checked = r.checked

\* A cache is emptied only by a process that has all of its calls in memory and, if it is not
\* killed, writes them back.
CacheKept ==
    [][\A m \in Modes :
            Whole(m) /\ cache'[m] # cache[m] => /\ cache'[m] = Torn
                                              /\ ToSet(cache[m]) \subseteq ToSet(loaded[m])]_vars

\* When every transaction that is read can be decoded, only a cache that a crash has torn, or a
\* log without topics, keeps the numbers from being run to the end.  (Decoding of arguments,
\* events and storage is data and left out; an exception in it ends the process in the same way.)
DoneOrStuck ==
    <>[](\/ Finished
         \/ \E m \in Modes : cache[m] = Torn
         \/ \E tx \in TxFiles : Unreadable(files[tx]))
=============================================================================
