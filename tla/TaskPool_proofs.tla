--------------------------- MODULE TaskPool_proofs ---------------------------
(***************************************************************************)
(* Proofs about TaskPool, for every number of workers, tasks and slots.    *)
(***************************************************************************)
EXTENDS BlockPool, FiniteSetTheorems, SequenceTheorems, TLAPS

USE DEF Workers, Tasks

LEMMA ChanCapPositive == ChanCap \in Nat \ {0}
  <1>1. \A a, b \in Nat \ {0} : a * b \in Nat \ {0}
    BY SMT
  <1> QED BY <1>1, PoolAssumption DEF ChanCap

LEMMA OutcomeType ==
  ASSUME NEW i \in Tasks, NEW o \in TaskOutcomes[i]
  PROVE  o.numTx \in Nat /\ o.ok \in BOOLEAN
  BY PoolAssumption DEF Outcome

\* A FIFO channel: what appending and taking do to length and elements.
LEMMA AppendFacts ==
  ASSUME NEW S, NEW s \in Seq(S), NEW e \in S
  PROVE  /\ Append(s, e) \in Seq(S)
         /\ Len(Append(s, e)) = Len(s) + 1
         /\ \A k \in 1..Len(s) : Append(s, e)[k] = s[k]
         /\ Append(s, e)[Len(s) + 1] = e
  BY SMT

LEMMA TailFacts ==
  ASSUME NEW S, NEW s \in Seq(S), s # <<>>
  PROVE  /\ Tail(s) \in Seq(S)
         /\ Len(s) \in Nat \ {0}
         /\ Len(Tail(s)) = Len(s) - 1
         /\ \A k \in 1..Len(Tail(s)) : Tail(s)[k] = s[k + 1]
         /\ Head(s) = s[1]
         /\ Head(s) \in S
  BY SMT

(* Type correctness: no channel exceeds its capacity, every index is one   *)
(* of the tasks, the caller never sends more than Workers + 1 tokens.      *)
SentBound == mState \in {"loop", "stop"} => sent <= NumWorkers
BusyHasTask == \A w \in Busy : wTask[w] \in Tasks

TypeInv == TypeOK /\ SentBound /\ BusyHasTask

LEMMA InitType == Init => TypeInv
  <1> SUFFICES ASSUME Init PROVE TypeInv
    OBVIOUS
  <1>1. Len(<<>>) = 0 /\ <<>> \in Seq(Tasks) /\ <<>> \in Seq(Report)
    OBVIOUS
  <1>2. /\ workChan \in Seq(Tasks) /\ Len(workChan) <= ChanCap
        /\ doneChan \in Seq(Report) /\ Len(doneChan) <= ChanCap
    BY <1>1, ChanCapPositive DEF Init
  <1>3. /\ wState \in [Workers -> {"select", "exec", "send", "done"}]
        /\ wTask \in [Workers -> 0..NumTasks]
        /\ wOk \in [Workers -> BOOLEAN]
        /\ verdict \in [Tasks -> {"none", "ok", "err"}]
    BY PoolAssumption DEF Init
  <1>4. TypeOK
    <2>1. /\ stopChan \in 0..NumWorkers /\ pNext \in 0..NumTasks
          /\ mIndex \in 0..NumTasks /\ sent \in 0..(NumWorkers + 1)
          /\ totalNumTx \in Nat /\ received \in Nat
      BY PoolAssumption DEF Init
    <2>2. pDone \in BOOLEAN /\ retErr \in BOOLEAN /\ waitMap \in SUBSET Tasks
      BY Zenon DEF Init
    <2>3. mState \in {"loop", "stop", "wait", "returned"}
      BY DEF Init
    <2> QED BY <1>2, <1>3, <2>1, <2>2, <2>3, Zenon DEF TypeOK
  <1>5. Busy = {}
    BY DEF Init, Busy
  <1>6. SentBound
    BY PoolAssumption DEF Init, SentBound
  <1> QED BY <1>4, <1>5, <1>6 DEF TypeInv, BusyHasTask

LEMMA NextType == TypeInv /\ [Next]_vars => TypeInv'
  <1> SUFFICES ASSUME TypeInv, [Next]_vars PROVE TypeInv'
    OBVIOUS
  <1> USE PoolAssumption, ChanCapPositive
  <1>1. CASE Produce
    <2>1. Len(workChan) \in Nat /\ pNext \in Tasks
      BY <1>1 DEF Produce, TypeInv, TypeOK
    <2>2. workChan' \in Seq(Tasks) /\ Len(workChan') = Len(workChan) + 1
      BY <1>1, <2>1, AppendFacts DEF Produce, TypeInv, TypeOK
    <2>3. Len(workChan') <= ChanCap
      BY <1>1, <2>1, <2>2 DEF Produce
    <2> QED BY <1>1, <2>1, <2>2, <2>3 DEF Produce, TypeInv, TypeOK, SentBound, BusyHasTask, Busy,
              workVars, mainVars, histVars
  <1>2. CASE ProducerStop
    BY <1>2 DEF ProducerStop, TypeInv, TypeOK, SentBound, BusyHasTask, Busy, workVars, mainVars, histVars
  <1>3. CASE ProducerFinish
    BY <1>3 DEF ProducerFinish, TypeInv, TypeOK, SentBound, BusyHasTask, Busy, chanVars, workVars, mainVars, histVars
  <1>4. ASSUME NEW w \in Workers, WorkerTake(w) PROVE TypeInv'
    <2>1. /\ workChan' \in Seq(Tasks) /\ Len(workChan') <= ChanCap
          /\ Head(workChan) \in Tasks
      BY <1>4, TailFacts DEF WorkerTake, TypeInv, TypeOK
    <2>2. wTask' \in [Workers -> 0..NumTasks] /\ wTask'[w] \in Tasks
      BY <1>4, <2>1, SMTT(30) DEF WorkerTake, TypeInv, TypeOK
    <2>3. \A v \in Workers \ {w} : wTask'[v] = wTask[v] /\ wState'[v] = wState[v]
      BY <1>4 DEF WorkerTake, TypeInv, TypeOK
    <2>4. BusyHasTask'
      BY <2>2, <2>3 DEF TypeInv, BusyHasTask, Busy
    <2>5. TypeOK' /\ SentBound'
      BY <1>4, <2>1, <2>2 DEF WorkerTake, TypeInv, TypeOK, SentBound, prodVars, mainVars, histVars
    <2> QED BY <2>4, <2>5 DEF TypeInv
  <1>5. ASSUME NEW w \in Workers, WorkerExecute(w) PROVE TypeInv'
    <2>1. wTask[w] \in Tasks
      BY <1>5 DEF WorkerExecute, TypeInv, BusyHasTask, Busy
    <2>2. PICK o \in TaskOutcomes[wTask[w]] :
             /\ totalNumTx' = totalNumTx + o.numTx
             /\ wOk' = [wOk EXCEPT ![w] = o.ok]
             /\ verdict' = [verdict EXCEPT ![wTask[w]] = IF o.ok THEN "ok" ELSE "err"]
      BY <1>5 DEF WorkerExecute
    <2>3. o.numTx \in Nat /\ o.ok \in BOOLEAN
      BY <2>1, OutcomeType
    <2>4. /\ totalNumTx' \in Nat
          /\ wOk' \in [Workers -> BOOLEAN]
          /\ verdict' \in [Tasks -> {"none", "ok", "err"}]
      BY <2>1, <2>2, <2>3, SMTT(30) DEF TypeInv, TypeOK
    <2> QED BY <1>5, <2>4 DEF WorkerExecute, TypeInv, TypeOK, SentBound, BusyHasTask, Busy,
              chanVars, prodVars, mainVars
  <1>6. ASSUME NEW w \in Workers, WorkerReport(w) PROVE TypeInv'
    <2>1. wTask[w] \in Tasks
      BY <1>6 DEF WorkerReport, TypeInv, BusyHasTask, Busy
    <2>2. [index |-> wTask[w], ok |-> wOk[w]] \in Report
      BY <2>1 DEF TypeInv, TypeOK, Report
    <2>3. doneChan' \in Seq(Report) /\ Len(doneChan') = Len(doneChan) + 1
      BY <1>6, <2>2, AppendFacts DEF WorkerReport, TypeInv, TypeOK
    <2>4. Len(doneChan') <= ChanCap
      BY <1>6, <2>3 DEF WorkerReport, TypeInv, TypeOK
    <2> QED BY <1>6, <2>3, <2>4 DEF WorkerReport, TypeInv, TypeOK, SentBound, BusyHasTask, Busy,
              prodVars, mainVars, histVars
  <1>7. ASSUME NEW w \in Workers, WorkerStop(w) PROVE TypeInv'
    BY <1>7 DEF WorkerStop, TypeInv, TypeOK, SentBound, BusyHasTask, Busy, prodVars, mainVars, histVars
  <1>8. CASE MainCount
    BY <1>8 DEF MainCount, TypeInv, TypeOK, SentBound, BusyHasTask, Busy, chanVars, prodVars, workVars, histVars
  <1>9. CASE MainReceive
    <2>1. /\ doneChan' \in Seq(Report) /\ Len(doneChan') <= ChanCap
          /\ Head(doneChan) \in Report
      BY <1>9, TailFacts DEF MainReceive, TypeInv, TypeOK
    <2>2. Head(doneChan).index \in Tasks
      BY <2>1 DEF Report
    <2>3. /\ waitMap' \in SUBSET Tasks
          /\ mState' \in {"loop", "stop", "wait", "returned"}
          /\ retErr' \in BOOLEAN
          /\ received' \in Nat
          /\ sent' <= NumWorkers
      <3>1. sent <= NumWorkers
        BY <1>9 DEF MainReceive, TypeInv, TypeOK, SentBound
      <3>2. waitMap' = waitMap \/ waitMap' = waitMap \cup {Head(doneChan).index}
        BY <1>9 DEF MainReceive
      <3>3. waitMap' \in SUBSET Tasks
        BY <2>2, <3>2 DEF TypeInv, TypeOK
      <3>4. mState' \in {"loop", "stop", "wait", "returned"}
        BY <1>9 DEF MainReceive, TypeInv, TypeOK
      <3>5. retErr' = TRUE \/ retErr' = retErr
        BY <1>9 DEF MainReceive
      <3>6. retErr' \in BOOLEAN
        BY <3>5, Zenon DEF TypeInv, TypeOK
      <3>7. received' \in Nat /\ sent' <= NumWorkers
        BY <1>9, <3>1 DEF MainReceive, TypeInv, TypeOK
      <3> QED BY <3>3, <3>4, <3>6, <3>7
    <2>4. BusyHasTask'
      BY <1>9 DEF MainReceive, TypeInv, BusyHasTask, Busy, workVars
    <2>5. TypeOK'
      BY <1>9, <2>1, <2>3 DEF MainReceive, TypeInv, TypeOK, prodVars, workVars
    <2> QED BY <2>3, <2>4, <2>5 DEF TypeInv, SentBound
  <1>10. CASE MainFinish
    BY <1>10 DEF MainFinish, TypeInv, TypeOK, SentBound, BusyHasTask, Busy, chanVars, prodVars, workVars, histVars
  <1>11. CASE MainSendStop
    BY <1>11 DEF MainSendStop, TypeInv, TypeOK, SentBound, BusyHasTask, Busy, prodVars, workVars, histVars
  <1>12. CASE MainReturn
    BY <1>12 DEF MainReturn, TypeInv, TypeOK, SentBound, BusyHasTask, Busy, chanVars, prodVars, workVars, histVars
  <1>13. CASE UNCHANGED vars
    BY <1>13 DEF TypeInv, TypeOK, SentBound, BusyHasTask, Busy, vars, chanVars, prodVars, workVars, mainVars, histVars
  <1> QED
    BY <1>1, <1>2, <1>3, <1>4, <1>5, <1>6, <1>7, <1>8, <1>9, <1>10, <1>11, <1>12, <1>13
    DEF Next, ProducerNext, WorkerNext, MainNext, Returned

(***************************************************************************)
(* Type correctness of the pool: every channel stays within its capacity   *)
(* and the caller sends at most Workers + 1 stop tokens.                   *)
(***************************************************************************)
THEOREM TypeCorrect == Spec => []TypeOK
  <1>1. TypeInv => TypeOK
    BY DEF TypeInv
  <1> QED BY InitType, NextType, <1>1, PTL DEF Spec

-----------------------------------------------------------------------------
(* The inductive invariant behind TasksConserved and CountedSucceeded.     *)

Holds(w) == wState[w] \in {"exec", "send"}

\* workChan holds the consecutive indexes Taken, Taken + 1, ..., pNext - 1.
WorkOrder ==
    /\ Taken >= 0
    /\ \A k \in 1..Len(workChan) : workChan[k] = Taken + k - 1

HandsApart ==
    \A w \in Workers : Holds(w) =>
        /\ wTask[w] < Taken
        /\ \A v \in Workers : Holds(v) /\ v # w => wTask[v] # wTask[w]
        /\ \A k \in 1..Len(doneChan) : doneChan[k].index # wTask[w]
        /\ wTask[w] \notin Acknowledged

ReportsApart ==
    \A k \in 1..Len(doneChan) :
        /\ doneChan[k].index < Taken
        /\ \A j \in 1..Len(doneChan) : j # k => doneChan[j].index # doneChan[k].index
        /\ doneChan[k].index \notin Acknowledged

AckTaken == \A i \in Acknowledged : i < Taken

NoneLost ==
    \A i \in 0..(Taken - 1) :
        \/ \E w \in Workers : Holds(w) /\ wTask[w] = i
        \/ \E k \in 1..Len(doneChan) : doneChan[k].index = i
        \/ i \in Acknowledged
        \/ retErr /\ verdict[i] = "err"

\* The verdict on a task agrees with what is reported about it.
VerdictOf(ok) == IF ok THEN "ok" ELSE "err"

VerdictsAgree ==
    /\ \A i \in Tasks : i >= Taken => verdict[i] = "none"
    /\ \A w \in Workers : wState[w] = "exec" => verdict[wTask[w]] = "none"
    /\ \A w \in Workers : wState[w] = "send" => verdict[wTask[w]] = VerdictOf(wOk[w])
    /\ \A k \in 1..Len(doneChan) : verdict[doneChan[k].index] = VerdictOf(doneChan[k].ok)
    /\ CountedSucceeded

\* What the caller knows when it leaves its loop.
ReturnMeaning ==
    /\ mState = "loop" => ~retErr
    /\ mState # "loop" /\ ~retErr => mIndex = NumTasks
    /\ retErr => \E i \in Tasks : verdict[i] = "err"

Homes == WorkOrder /\ HandsApart /\ ReportsApart /\ AckTaken /\ NoneLost

PoolInv == TypeInv /\ Homes /\ VerdictsAgree /\ ReturnMeaning

\* What TypeInv says of the channels, in the form the proofs below use.
LEMMA ChannelTypes ==
  ASSUME TypeInv
  PROVE  /\ Len(workChan) \in Nat /\ Len(doneChan) \in Nat
         /\ \A k \in 1..Len(workChan) : workChan[k] \in Tasks
         /\ \A k \in 1..Len(doneChan) : doneChan[k].index \in Tasks /\ doneChan[k].ok \in BOOLEAN
         /\ \A w \in Workers : Holds(w) => wTask[w] \in Tasks
         /\ Acknowledged \subseteq Tasks
         /\ pNext \in Nat /\ Taken \in Int
  <1>1. Len(workChan) \in Nat /\ Len(doneChan) \in Nat /\ pNext \in Nat
    BY DEF TypeInv, TypeOK
  <1>2. \A k \in 1..Len(workChan) : workChan[k] \in Tasks
    <2>1. workChan \in Seq(Tasks)
      BY DEF TypeInv, TypeOK
    <2> HIDE DEF Tasks
    <2> QED BY <2>1
  <1>3. \A k \in 1..Len(doneChan) : doneChan[k] \in Report
    BY DEF TypeInv, TypeOK
  <1>4. \A k \in 1..Len(doneChan) : doneChan[k].index \in Tasks /\ doneChan[k].ok \in BOOLEAN
    BY <1>3 DEF Report
  <1>5. \A w \in Workers : Holds(w) => wTask[w] \in Tasks
    BY DEF TypeInv, BusyHasTask, Busy, Holds
  <1>6. Acknowledged \subseteq Tasks
    BY PoolAssumption DEF TypeInv, TypeOK, Acknowledged
  <1> QED BY <1>1, <1>2, <1>4, <1>5, <1>6 DEF Taken

LEMMA InitPool == Init => PoolInv
  <1> SUFFICES ASSUME Init PROVE PoolInv
    OBVIOUS
  <1>1. TypeInv
    BY InitType
  <1>2. Len(workChan) = 0 /\ Len(doneChan) = 0 /\ Taken = 0
    <2>1. Len(<<>>) = 0
      OBVIOUS
    <2>2. workChan = <<>> /\ doneChan = <<>> /\ pNext = 0
      BY DEF Init
    <2>3. Len(workChan) = 0 /\ Len(doneChan) = 0
      BY <2>1, <2>2
    <2>4. pNext = 0
      BY DEF Init
    <2> HIDE DEF Init
    <2> QED BY <2>3, <2>4 DEF Taken
  <1>3. Acknowledged = {}
    BY DEF Init, Acknowledged
  <1>4. \A w \in Workers : wState[w] = "select" /\ ~Holds(w)
    BY DEF Init, Holds
  <1>5. Homes
    BY <1>2, <1>3, <1>4 DEF Homes, WorkOrder, HandsApart, ReportsApart, AckTaken, NoneLost
  <1>6. VerdictsAgree
    BY <1>2, <1>3, <1>4 DEF Init, VerdictsAgree, CountedSucceeded
  <1>7. ReturnMeaning
    BY DEF Init, ReturnMeaning
  <1> QED BY <1>1, <1>5, <1>6, <1>7 DEF PoolInv

\* A step that moves no task: it leaves the homes and the verdicts alone.
LEMMA FrameStep ==
  ASSUME PoolInv, TypeInv',
         UNCHANGED <<workChan, doneChan, pNext, wTask, wOk, verdict, retErr>>,
         Acknowledged' = Acknowledged,
         (waitMap \cap (0..(mIndex - 1)) = {})',
         \A w \in Workers : \/ wState'[w] = wState[w]
                            \/ wState[w] = "select" /\ wState'[w] = "done",
         ReturnMeaning'
  PROVE  PoolInv'
  <1>1. Taken' = Taken
    BY DEF Taken
  <1>2. \A w \in Workers : Holds(w)' <=> Holds(w)
    BY DEF Holds
  <1>3. Homes'
    <2>1. WorkOrder' /\ ReportsApart' /\ AckTaken'
      BY <1>1 DEF PoolInv, Homes, WorkOrder, ReportsApart, AckTaken
    <2>2. HandsApart'
      BY <1>1, <1>2 DEF PoolInv, Homes, HandsApart
    <2>3. NoneLost'
      BY <1>1, <1>2 DEF PoolInv, Homes, NoneLost
    <2> QED BY <2>1, <2>2, <2>3 DEF Homes
  <1>4. VerdictsAgree'
    <2>1. \A w \in Workers : /\ wState'[w] = "exec" => wState[w] = "exec"
                             /\ wState'[w] = "send" => wState[w] = "send"
      OBVIOUS
    <2>2. CountedSucceeded'
      BY DEF PoolInv, VerdictsAgree, CountedSucceeded
    <2> QED BY <1>1, <2>1, <2>2 DEF PoolInv, VerdictsAgree
  <1> QED BY <1>3, <1>4 DEF PoolInv

LEMMA ProduceStep == PoolInv /\ Produce => PoolInv'
  <1> SUFFICES ASSUME PoolInv, Produce PROVE PoolInv'
    OBVIOUS
  <1>1. TypeInv /\ TypeInv'
    BY NextType DEF PoolInv, Next, ProducerNext
  <1>2. Len(workChan) \in Nat /\ pNext \in Nat /\ Taken \in Int
    BY <1>1, ChannelTypes
  <1>3. /\ Len(workChan') = Len(workChan) + 1
        /\ \A k \in 1..Len(workChan) : workChan'[k] = workChan[k]
        /\ workChan'[Len(workChan) + 1] = pNext
    <2>1. workChan \in Seq(Tasks) /\ pNext \in Tasks
      BY <1>1 DEF TypeInv, TypeOK, Produce
    <2>2. workChan' = Append(workChan, pNext)
      BY DEF Produce
    <2> HIDE DEF Tasks
    <2> QED BY <2>1, <2>2, AppendFacts
  <1>4. Taken' = Taken
    BY <1>2, <1>3 DEF Produce, Taken
  <1>5. /\ UNCHANGED <<doneChan, wState, wTask, wOk, mState, mIndex, waitMap, retErr, verdict>>
        /\ Acknowledged' = Acknowledged
        /\ \A w \in Workers : Holds(w)' <=> Holds(w)
    BY DEF Produce, workVars, mainVars, histVars, Acknowledged, Holds
  <1>6. WorkOrder'
    <2> SUFFICES ASSUME NEW k \in 1..Len(workChan')
                 PROVE  workChan'[k] = Taken + k - 1
      BY <1>4 DEF WorkOrder, PoolInv, Homes
    <2>1. CASE k \in 1..Len(workChan)
      BY <1>3, <2>1 DEF PoolInv, Homes, WorkOrder
    <2>2. CASE k = Len(workChan) + 1
      BY <1>2, <1>3, <2>2 DEF Taken
    <2> QED BY <1>2, <1>3, <2>1, <2>2
  <1>7. HandsApart' /\ ReportsApart' /\ AckTaken' /\ NoneLost'
    BY <1>4, <1>5 DEF PoolInv, Homes, HandsApart, ReportsApart, AckTaken, NoneLost
  <1>8. VerdictsAgree'
    BY <1>4, <1>5 DEF PoolInv, VerdictsAgree, CountedSucceeded
  <1>9. ReturnMeaning'
    BY <1>5 DEF PoolInv, ReturnMeaning
  <1> QED BY <1>1, <1>6, <1>7, <1>8, <1>9 DEF PoolInv, Homes

\* The worker takes the index Taken, which nobody has held or reported.
LEMMA TakeStep ==
  ASSUME NEW w \in Workers, PoolInv, WorkerTake(w)
  PROVE  PoolInv'
  <1>1. TypeInv /\ TypeInv'
    BY NextType DEF PoolInv, Next, WorkerNext
  <1>2. /\ Len(workChan) \in Nat /\ Len(doneChan) \in Nat
        /\ pNext \in Nat /\ Taken \in Int
        /\ \A v \in Workers : Holds(v) => wTask[v] \in Tasks
        /\ \A k \in 1..Len(doneChan) : doneChan[k].index \in Tasks
        /\ Acknowledged \subseteq Tasks
    BY <1>1, ChannelTypes
  <1>3. /\ Len(workChan) > 0
        /\ Len(workChan') = Len(workChan) - 1
        /\ \A k \in 1..Len(workChan') : workChan'[k] = workChan[k + 1]
        /\ Head(workChan) = workChan[1]
    BY <1>1, TailFacts, SMTT(30) DEF WorkerTake, TypeInv, TypeOK
  <1>4. Head(workChan) = Taken /\ Taken \in Tasks
    <2>1. Head(workChan) = Taken
      BY <1>2, <1>3 DEF PoolInv, Homes, WorkOrder
    <2>2. Taken >= 0 /\ Taken < pNext /\ pNext <= NumTasks
      BY <1>1, <1>2, <1>3 DEF PoolInv, Homes, WorkOrder, Taken, TypeInv, TypeOK
    <2> QED BY <1>2, <2>1, <2>2, PoolAssumption
  <1>5. Taken' = Taken + 1
    BY <1>2, <1>3 DEF WorkerTake, Taken, prodVars
  <1>6. /\ wTask'[w] = Taken /\ Holds(w)' /\ ~Holds(w) /\ wState'[w] = "exec"
        /\ \A v \in Workers : v # w => wTask'[v] = wTask[v] /\ wState'[v] = wState[v]
    BY <1>1, <1>4 DEF WorkerTake, TypeInv, TypeOK, Holds
  <1>7. /\ UNCHANGED <<doneChan, wOk, mState, mIndex, waitMap, retErr, verdict>>
        /\ Acknowledged' = Acknowledged
        /\ \A v \in Workers : v # w => (Holds(v)' <=> Holds(v))
    BY <1>6 DEF WorkerTake, mainVars, histVars, Acknowledged, Holds
  <1>8. WorkOrder'
    <2>1. \A k \in 1..Len(workChan') : k + 1 \in 1..Len(workChan)
      BY <1>2, <1>3
    <2>2. ASSUME NEW k \in 1..Len(workChan')
          PROVE  workChan'[k] = Taken' + k - 1
      <3>1. workChan'[k] = workChan[k + 1] /\ k + 1 \in 1..Len(workChan) /\ k \in Int
        BY <1>3, <2>1
      <3>2. workChan[k + 1] = Taken + (k + 1) - 1
        BY <3>1 DEF PoolInv, Homes, WorkOrder
      <3> QED BY <1>2, <1>5, <3>1, <3>2
    <2> QED BY <1>4, <1>5, <2>2 DEF WorkOrder
  <1>9. HandsApart'
    <2>1. \A v \in Workers : Holds(v) => wTask[v] < Taken
      BY DEF PoolInv, Homes, HandsApart
    <2>2. /\ \A k \in 1..Len(doneChan) : doneChan[k].index # Taken
          /\ Taken \notin Acknowledged
      BY <1>2 DEF PoolInv, Homes, ReportsApart, AckTaken
    <2> SUFFICES ASSUME NEW u \in Workers, Holds(u)'
                 PROVE  /\ wTask'[u] < Taken'
                        /\ \A v \in Workers : Holds(v)' /\ v # u => wTask'[v] # wTask'[u]
                        /\ \A k \in 1..Len(doneChan) : doneChan[k].index # wTask'[u]
                        /\ wTask'[u] \notin Acknowledged
      BY <1>7 DEF HandsApart
    <2>3. CASE u = w
      BY <1>2, <1>5, <1>6, <1>7, <2>1, <2>2, <2>3
    <2>4. CASE u # w
      BY <1>2, <1>5, <1>6, <1>7, <2>1, <2>4 DEF PoolInv, Homes, HandsApart
    <2> QED BY <2>3, <2>4
  <1>10. ReportsApart' /\ AckTaken'
    BY <1>2, <1>5, <1>7 DEF PoolInv, Homes, ReportsApart, AckTaken
  <1>11. NoneLost'
    <2> SUFFICES ASSUME NEW i \in 0..(Taken' - 1)
                 PROVE  \/ \E v \in Workers : Holds(v)' /\ wTask'[v] = i
                        \/ \E k \in 1..Len(doneChan) : doneChan[k].index = i
                        \/ i \in Acknowledged
                        \/ retErr /\ verdict[i] = "err"
      BY <1>7 DEF NoneLost
    <2>1. CASE i = Taken
      BY <1>6, <2>1
    <2>2. CASE i # Taken
      <3>1. i \in 0..(Taken - 1)
        BY <1>2, <1>5, <2>2
      <3>2. ASSUME NEW v \in Workers, Holds(v), wTask[v] = i
            PROVE  Holds(v)' /\ wTask'[v] = i
        BY <1>6, <1>7, <3>2
      <3> QED BY <3>1, <3>2 DEF PoolInv, Homes, NoneLost
    <2> QED BY <2>1, <2>2
  <1>12. VerdictsAgree'
    <2>1. CountedSucceeded'
      BY <1>7 DEF PoolInv, VerdictsAgree, CountedSucceeded
    <2>2. verdict[Taken] = "none"
      BY <1>2, <1>4 DEF PoolInv, VerdictsAgree
    <2>3. \A i \in Tasks : i >= Taken' => verdict'[i] = "none"
      BY <1>2, <1>5, <1>7 DEF PoolInv, VerdictsAgree
    <2>4. \A v \in Workers : wState'[v] = "exec" => verdict'[wTask'[v]] = "none"
      BY <1>6, <1>7, <2>2 DEF PoolInv, VerdictsAgree
    <2>5. \A v \in Workers : wState'[v] = "send" => verdict'[wTask'[v]] = VerdictOf(wOk'[v])
      BY <1>6, <1>7 DEF PoolInv, VerdictsAgree
    <2> QED BY <1>7, <2>1, <2>3, <2>4, <2>5 DEF PoolInv, VerdictsAgree
  <1>13. ReturnMeaning'
    BY <1>7 DEF PoolInv, ReturnMeaning
  <1> QED BY <1>1, <1>8, <1>9, <1>10, <1>11, <1>12, <1>13 DEF PoolInv, Homes

\* Executing a task changes the verdict of that task only.
LEMMA ExecuteStep ==
  ASSUME NEW w \in Workers, PoolInv, WorkerExecute(w)
  PROVE  PoolInv'
  <1>1. TypeInv /\ TypeInv'
    BY NextType DEF PoolInv, Next, WorkerNext
  <1>2. /\ Taken \in Int
        /\ \A v \in Workers : Holds(v) => wTask[v] \in Tasks
        /\ \A k \in 1..Len(doneChan) : doneChan[k].index \in Tasks
        /\ Acknowledged \subseteq Tasks
    BY <1>1, ChannelTypes
  <1>3. Holds(w) /\ wTask[w] \in Tasks /\ wState[w] = "exec" /\ wState'[w] = "send"
    BY <1>1, <1>2 DEF WorkerExecute, Holds, TypeInv, TypeOK
  <1>4. PICK o \in TaskOutcomes[wTask[w]] :
           /\ wOk' = [wOk EXCEPT ![w] = o.ok]
           /\ verdict' = [verdict EXCEPT ![wTask[w]] = IF o.ok THEN "ok" ELSE "err"]
    BY DEF WorkerExecute
  <1>5. /\ verdict'[wTask[w]] = VerdictOf(wOk'[w])
        /\ \A i \in Tasks : i # wTask[w] => verdict'[i] = verdict[i]
        /\ \A v \in Workers : v # w => wOk'[v] = wOk[v] /\ wState'[v] = wState[v]
    <2>1. wOk'[w] = o.ok
      BY <1>1, <1>4, Zenon DEF TypeInv, TypeOK
    <2>2. verdict'[wTask[w]] = IF o.ok THEN "ok" ELSE "err"
      BY <1>1, <1>3, <1>4 DEF TypeInv, TypeOK
    <2>3. \A i \in Tasks : i # wTask[w] => verdict'[i] = verdict[i]
      BY <1>1, <1>3, <1>4 DEF TypeInv, TypeOK
    <2>4. \A v \in Workers : v # w => wOk'[v] = wOk[v]
      BY <1>1, <1>4, Zenon DEF TypeInv, TypeOK
    <2>5. \A v \in Workers : v # w => wState'[v] = wState[v]
      BY <1>1 DEF TypeInv, TypeOK, WorkerExecute
    <2> QED BY <2>1, <2>2, <2>3, <2>4, <2>5, Zenon DEF VerdictOf
  <1>6. UNCHANGED <<workChan, doneChan, pNext, wTask, mState, mIndex, waitMap, retErr>>
    BY DEF WorkerExecute, chanVars, prodVars, mainVars
  <1>7. /\ Taken' = Taken /\ Acknowledged' = Acknowledged
        /\ \A v \in Workers : Holds(v)' <=> Holds(v)
    BY <1>3, <1>5, <1>6 DEF Taken, Acknowledged, Holds
  <1>8. WorkOrder' /\ HandsApart' /\ ReportsApart' /\ AckTaken'
    BY <1>6, <1>7 DEF PoolInv, Homes, WorkOrder, HandsApart, ReportsApart, AckTaken
  \* The task in hand was neither reported nor acknowledged, so it is no error yet.
  <1>9. /\ wTask[w] < Taken /\ wTask[w] \notin Acknowledged
        /\ \A k \in 1..Len(doneChan) : doneChan[k].index # wTask[w]
        /\ \A v \in Workers : Holds(v) /\ v # w => wTask[v] # wTask[w]
        /\ verdict[wTask[w]] = "none"
    BY <1>3 DEF PoolInv, Homes, HandsApart, VerdictsAgree
  <1>10. NoneLost'
    <2> SUFFICES ASSUME NEW i \in 0..(Taken - 1)
                 PROVE  \/ \E v \in Workers : Holds(v)' /\ wTask[v] = i
                        \/ \E k \in 1..Len(doneChan) : doneChan[k].index = i
                        \/ i \in Acknowledged
                        \/ retErr /\ verdict'[i] = "err"
      BY <1>6, <1>7 DEF NoneLost
    <2>1. CASE i = wTask[w]
      BY <1>3, <1>7, <2>1
    <2>2. CASE i # wTask[w]
      <3>1. verdict[i] = "err" => verdict'[i] = "err"
        <4>1. NumTasks \in Nat /\ pNext \in 0..NumTasks /\ Len(workChan) \in Nat
          BY <1>1, ChannelTypes, PoolAssumption DEF TypeInv, TypeOK
        <4>2. i \in Tasks
          BY <4>1 DEF Taken
        <4> QED BY <1>5, <2>2, <4>2
      <3> QED BY <1>7, <3>1 DEF PoolInv, Homes, NoneLost
    <2> QED BY <2>1, <2>2
  <1>11. VerdictsAgree'
    <2>1. CountedSucceeded'
      BY <1>2, <1>5, <1>6, <1>7, <1>9 DEF PoolInv, VerdictsAgree, CountedSucceeded
    <2>2. \A i \in Tasks : i >= Taken' => verdict'[i] = "none"
      BY <1>2, <1>3, <1>5, <1>7, <1>9 DEF PoolInv, VerdictsAgree
    <2>3. \A v \in Workers : wState'[v] = "exec" => verdict'[wTask'[v]] = "none"
      BY <1>2, <1>3, <1>5, <1>6, <1>9 DEF PoolInv, VerdictsAgree, Holds
    <2>4. \A v \in Workers : wState'[v] = "send" => verdict'[wTask'[v]] = VerdictOf(wOk'[v])
      BY <1>2, <1>3, <1>5, <1>6, <1>9 DEF PoolInv, VerdictsAgree, Holds
    <2>5. \A k \in 1..Len(doneChan') :
             verdict'[doneChan'[k].index] = VerdictOf(doneChan'[k].ok)
      BY <1>2, <1>5, <1>6, <1>9 DEF PoolInv, VerdictsAgree
    <2> QED BY <2>1, <2>2, <2>3, <2>4, <2>5 DEF VerdictsAgree
  <1>12. ReturnMeaning'
    <2>1. ASSUME NEW i \in Tasks, verdict[i] = "err" PROVE verdict'[i] = "err"
      BY <1>5, <1>9, <2>1
    <2> QED BY <1>6, <2>1 DEF PoolInv, ReturnMeaning
  <1> QED BY <1>1, <1>8, <1>10, <1>11, <1>12 DEF PoolInv, Homes

\* Reporting moves the task in hand to the end of doneChan.
LEMMA ReportStep ==
  ASSUME NEW w \in Workers, PoolInv, WorkerReport(w)
  PROVE  PoolInv'
  <1>1. TypeInv /\ TypeInv'
    BY NextType DEF PoolInv, Next, WorkerNext
  <1> DEFINE n == Len(doneChan)
             e == [index |-> wTask[w], ok |-> wOk[w]]
  <1>2. /\ n \in Nat /\ Taken \in Int
        /\ \A v \in Workers : Holds(v) => wTask[v] \in Tasks
        /\ \A k \in 1..n : doneChan[k].index \in Tasks
        /\ Acknowledged \subseteq Tasks
    BY <1>1, ChannelTypes
  <1>3. /\ Holds(w) /\ wTask[w] \in Tasks /\ ~Holds(w)' /\ wState[w] = "send"
        /\ wState'[w] = "select"
        /\ \A v \in Workers : v # w => wState'[v] = wState[v]
    BY <1>1, <1>2 DEF WorkerReport, Holds, TypeInv, TypeOK
  <1>4. /\ Len(doneChan') = n + 1
        /\ \A k \in 1..n : doneChan'[k] = doneChan[k]
        /\ doneChan'[n + 1] = e
    <2>1. e \in Report /\ doneChan \in Seq(Report)
      BY <1>1, <1>3 DEF TypeInv, TypeOK, Report
    <2>2. doneChan' = Append(doneChan, e)
      BY DEF WorkerReport
    <2> HIDE DEF e
    <2> QED BY <2>1, <2>2, AppendFacts
  <1>5. e.index = wTask[w] /\ e.ok = wOk[w]
    OBVIOUS
  <1>6. UNCHANGED <<workChan, pNext, wTask, wOk, mState, mIndex, waitMap, retErr, verdict>>
    BY DEF WorkerReport, prodVars, mainVars, histVars
  <1>7. /\ Taken' = Taken /\ Acknowledged' = Acknowledged
        /\ \A v \in Workers : Holds(v)' <=> Holds(v) /\ v # w
    BY <1>3, <1>6 DEF Taken, Acknowledged, Holds
  <1>8. /\ wTask[w] < Taken /\ wTask[w] \notin Acknowledged
        /\ \A k \in 1..n : doneChan[k].index # wTask[w]
        /\ \A v \in Workers : Holds(v) /\ v # w => wTask[v] # wTask[w]
        /\ verdict[wTask[w]] = VerdictOf(wOk[w])
    BY <1>3 DEF PoolInv, Homes, HandsApart, VerdictsAgree
  <1> HIDE DEF n, e
  <1>9. \A k \in 1..Len(doneChan') : \/ k \in 1..n /\ doneChan'[k] = doneChan[k]
                                     \/ k = n + 1 /\ doneChan'[k] = e
    <2> SUFFICES ASSUME NEW k \in 1..Len(doneChan')
                 PROVE  \/ k \in 1..n /\ doneChan'[k] = doneChan[k]
                        \/ k = n + 1 /\ doneChan'[k] = e
      OBVIOUS
    <2>1. k \in 1..n \/ k = n + 1
      BY <1>2, <1>4
    <2>2. CASE k \in 1..n
      BY <1>4, <2>2
    <2>3. CASE k = n + 1
      BY <1>4, <2>3
    <2> QED BY <2>1, <2>2, <2>3
  <1>10. 1..n \subseteq 1..Len(doneChan') /\ n + 1 \in 1..Len(doneChan') /\ n + 1 \notin 1..n
    BY <1>2, <1>4
  <1>11. WorkOrder' /\ AckTaken'
    BY <1>6, <1>7 DEF PoolInv, Homes, WorkOrder, AckTaken
  <1>12. HandsApart'
    <2> SUFFICES ASSUME NEW u \in Workers, Holds(u)'
                 PROVE  /\ wTask[u] < Taken
                        /\ \A v \in Workers : Holds(v)' /\ v # u => wTask[v] # wTask[u]
                        /\ \A k \in 1..Len(doneChan') : doneChan'[k].index # wTask[u]
                        /\ wTask[u] \notin Acknowledged
      BY <1>6, <1>7 DEF HandsApart
    <2>1. Holds(u) /\ u # w
      BY <1>7
    <2>2. /\ wTask[u] < Taken /\ wTask[u] \notin Acknowledged
          /\ \A v \in Workers : Holds(v) /\ v # u => wTask[v] # wTask[u]
          /\ \A k \in 1..n : doneChan[k].index # wTask[u]
      BY <2>1 DEF PoolInv, Homes, HandsApart, n
    <2>3. \A k \in 1..Len(doneChan') : doneChan'[k].index # wTask[u]
      BY <1>5, <1>8, <1>9, <2>1, <2>2
    <2> QED BY <1>7, <2>2, <2>3
  <1>13. ReportsApart'
    <2>1. \A k \in 1..n : /\ doneChan[k].index < Taken
                          /\ doneChan[k].index \notin Acknowledged
                          /\ \A j \in 1..n : j # k => doneChan[j].index # doneChan[k].index
      BY DEF PoolInv, Homes, ReportsApart, n
    <2> SUFFICES ASSUME NEW k \in 1..Len(doneChan')
                 PROVE  /\ doneChan'[k].index < Taken
                        /\ \A j \in 1..Len(doneChan') : j # k => doneChan'[j].index # doneChan'[k].index
                        /\ doneChan'[k].index \notin Acknowledged
      BY <1>7 DEF ReportsApart
    <2>2. CASE k \in 1..n /\ doneChan'[k] = doneChan[k]
      BY <1>5, <1>8, <1>9, <2>1, <2>2
    <2>3. CASE k = n + 1 /\ doneChan'[k] = e
      BY <1>5, <1>8, <1>9, <2>3
    <2> QED BY <1>9, <2>2, <2>3
  <1>14. NoneLost'
    <2> SUFFICES ASSUME NEW i \in 0..(Taken - 1)
                 PROVE  \/ \E v \in Workers : Holds(v)' /\ wTask[v] = i
                        \/ \E k \in 1..Len(doneChan') : doneChan'[k].index = i
                        \/ i \in Acknowledged
                        \/ retErr /\ verdict[i] = "err"
      BY <1>6, <1>7 DEF NoneLost
    <2>1. CASE i = wTask[w]
      BY <1>4, <1>5, <1>10, <2>1
    <2>2. CASE \E v \in Workers : Holds(v) /\ wTask[v] = i /\ v # w
      BY <1>7, <2>2
    <2>3. CASE \E k \in 1..n : doneChan[k].index = i
      BY <1>4, <1>10, <2>3
    <2> QED BY <2>1, <2>2, <2>3 DEF PoolInv, Homes, NoneLost, n
  <1>15. VerdictsAgree'
    <2>1. CountedSucceeded'
      BY <1>6, <1>7 DEF PoolInv, VerdictsAgree, CountedSucceeded
    <2>2. \A k \in 1..Len(doneChan') :
             verdict[doneChan'[k].index] = VerdictOf(doneChan'[k].ok)
      BY <1>5, <1>8, <1>9 DEF PoolInv, VerdictsAgree, n
    <2>3. \A v \in Workers : /\ wState'[v] = "exec" => wState[v] = "exec"
                             /\ wState'[v] = "send" => wState[v] = "send"
      BY <1>3
    <2> QED BY <1>6, <1>7, <2>1, <2>2, <2>3 DEF PoolInv, VerdictsAgree
  <1>16. ReturnMeaning'
    BY <1>6 DEF PoolInv, ReturnMeaning
  <1> QED BY <1>1, <1>11, <1>12, <1>13, <1>14, <1>15, <1>16 DEF PoolInv, Homes

\* Receiving moves the head of doneChan to waitMap, or ends the loop.
LEMMA ReceiveStep == PoolInv /\ MainReceive => PoolInv'
  <1> SUFFICES ASSUME PoolInv, MainReceive PROVE PoolInv'
    OBVIOUS
  <1>1. TypeInv /\ TypeInv'
    BY NextType DEF PoolInv, Next, MainNext
  <1> DEFINE n == Len(doneChan)
             e == Head(doneChan)
  <1>2. /\ n \in Nat /\ Taken \in Int
        /\ \A v \in Workers : Holds(v) => wTask[v] \in Tasks
        /\ \A k \in 1..n : doneChan[k].index \in Tasks /\ doneChan[k].ok \in BOOLEAN
        /\ Acknowledged \subseteq Tasks
    BY <1>1, ChannelTypes
  <1>3. /\ n > 0 /\ Len(doneChan') = n - 1
        /\ \A k \in 1..Len(doneChan') : doneChan'[k] = doneChan[k + 1]
        /\ e = doneChan[1]
    BY <1>1, TailFacts DEF MainReceive, TypeInv, TypeOK
  <1>4. /\ UNCHANGED <<workChan, pNext, wState, wTask, wOk, mIndex, verdict>>
        /\ mState = "loop" /\ mIndex < NumTasks
    BY DEF MainReceive, prodVars, workVars
  <1>5. /\ Taken' = Taken
        /\ \A v \in Workers : Holds(v)' <=> Holds(v)
    BY <1>4 DEF Taken, Holds
  <1>6. ~retErr
    BY <1>4 DEF PoolInv, ReturnMeaning
  <1>7. \/ e.ok /\ Acknowledged' = Acknowledged \cup {e.index} /\ mState' = "loop" /\ retErr' = retErr
           /\ waitMap' = waitMap \cup {e.index}
        \/ ~e.ok /\ Acknowledged' = Acknowledged /\ mState' = "stop" /\ retErr' = TRUE
           /\ waitMap' = waitMap
    BY <1>4 DEF MainReceive, Acknowledged
  <1> HIDE DEF n, e
  <1>8. 1 \in 1..n /\ \A k \in 1..(n - 1) : k + 1 \in 1..n /\ k + 1 # 1
    BY <1>2, <1>3
  <1>9. /\ e.index \in Tasks /\ e.index < Taken /\ e.index \notin Acknowledged
        /\ \A k \in 1..Len(doneChan') : doneChan'[k].index # e.index
        /\ \A v \in Workers : Holds(v) => wTask[v] # e.index
        /\ verdict[e.index] = VerdictOf(e.ok)
    <2>1. e.index \in Tasks /\ e.index < Taken /\ e.index \notin Acknowledged
      BY <1>2, <1>3, <1>8 DEF PoolInv, Homes, ReportsApart, n
    <2>2. \A k \in 1..Len(doneChan') : doneChan'[k].index # e.index
      BY <1>3, <1>8 DEF PoolInv, Homes, ReportsApart, n
    <2>3. \A v \in Workers : Holds(v) => wTask[v] # e.index
      BY <1>3, <1>8 DEF PoolInv, Homes, HandsApart, n
    <2>4. verdict[e.index] = VerdictOf(e.ok)
      BY <1>3, <1>8 DEF PoolInv, VerdictsAgree, n
    <2> QED BY <2>1, <2>2, <2>3, <2>4
  <1>10. Acknowledged' \subseteq Acknowledged \cup {e.index}
    BY <1>7
  <1>11. WorkOrder' /\ AckTaken'
    BY <1>4, <1>5, <1>9, <1>10 DEF PoolInv, Homes, WorkOrder, AckTaken
  <1>12. HandsApart'
    <2>1. \A v \in Workers : Holds(v) =>
             \A k \in 1..Len(doneChan') : doneChan'[k].index # wTask[v]
      BY <1>3, <1>8 DEF PoolInv, Homes, HandsApart, n
    <2> QED BY <1>4, <1>5, <1>9, <1>10, <2>1 DEF PoolInv, Homes, HandsApart
  <1>13. ReportsApart'
    <2> SUFFICES ASSUME NEW k \in 1..Len(doneChan')
                 PROVE  /\ doneChan'[k].index < Taken
                        /\ \A j \in 1..Len(doneChan') : j # k => doneChan'[j].index # doneChan'[k].index
                        /\ doneChan'[k].index \notin Acknowledged'
      BY <1>5 DEF ReportsApart
    <2>1. /\ k + 1 \in 1..n /\ doneChan'[k] = doneChan[k + 1]
          /\ \A j \in 1..Len(doneChan') :
                /\ j + 1 \in 1..n /\ doneChan'[j] = doneChan[j + 1]
                /\ j # k => j + 1 # k + 1
      BY <1>3, <1>8
    <2>2. /\ doneChan[k + 1].index < Taken /\ doneChan[k + 1].index \notin Acknowledged
          /\ \A j \in 1..n : j # k + 1 => doneChan[j].index # doneChan[k + 1].index
      BY <2>1 DEF PoolInv, Homes, ReportsApart, n
    <2> QED BY <1>9, <1>10, <2>1, <2>2
  <1>14. NoneLost'
    <2> SUFFICES ASSUME NEW i \in 0..(Taken - 1)
                 PROVE  \/ \E v \in Workers : Holds(v) /\ wTask[v] = i
                        \/ \E k \in 1..Len(doneChan') : doneChan'[k].index = i
                        \/ i \in Acknowledged'
                        \/ retErr' /\ verdict[i] = "err"
      BY <1>4, <1>5 DEF NoneLost
    <2>1. CASE i = e.index
      <3>1. CASE e.ok
        BY <1>7, <2>1, <3>1
      <3>2. CASE ~e.ok
        BY <1>7, <1>9, <2>1, <3>2 DEF VerdictOf
      <3> QED BY <3>1, <3>2
    <2>2. ASSUME NEW k \in 1..n, doneChan[k].index = i, i # e.index
          PROVE  \E j \in 1..Len(doneChan') : doneChan'[j].index = i
      <3>1. k # 1
        BY <1>3, <2>2
      <3>2. k - 1 \in 1..Len(doneChan') /\ (k - 1) + 1 = k
        BY <1>2, <1>3, <3>1
      <3>3. doneChan'[k - 1].index = i
        BY <1>3, <2>2, <3>2
      <3> QED BY <3>2, <3>3
    <2>3. CASE i \in Acknowledged
      BY <1>7, <2>3
    <2> QED BY <1>6, <2>1, <2>2, <2>3 DEF PoolInv, Homes, NoneLost, n
  <1>15. VerdictsAgree'
    <2>1. CountedSucceeded'
      <3>1. CASE e.ok
        <4>1. verdict[e.index] = "ok"
          BY <1>9, <3>1 DEF VerdictOf
        <4>2. \A i \in Acknowledged' : verdict'[i] = "ok"
          BY <1>4, <1>10, <4>1 DEF PoolInv, VerdictsAgree, CountedSucceeded
        <4>3. waitMap' = waitMap \cup {e.index} /\ e.index \notin 0..(mIndex - 1)
          BY <1>7, <1>9, <3>1 DEF Acknowledged
        <4> QED BY <1>4, <4>2, <4>3 DEF PoolInv, VerdictsAgree, CountedSucceeded
      <3>2. CASE ~e.ok
        BY <1>4, <1>7, <3>2 DEF PoolInv, VerdictsAgree, CountedSucceeded
      <3> QED BY <3>1, <3>2
    <2>2. \A k \in 1..Len(doneChan') :
             verdict[doneChan'[k].index] = VerdictOf(doneChan'[k].ok)
      BY <1>3, <1>8 DEF PoolInv, VerdictsAgree, n
    <2> QED BY <1>4, <1>5, <2>1, <2>2 DEF PoolInv, VerdictsAgree
  <1>16. ReturnMeaning'
    <2>1. CASE e.ok
      BY <1>4, <1>6, <1>7, <2>1 DEF PoolInv, ReturnMeaning
    <2>2. CASE ~e.ok
      <3>1. verdict'[e.index] = "err" /\ mState' = "stop" /\ retErr'
        BY <1>4, <1>7, <1>9, <2>2 DEF VerdictOf
      <3> QED BY <1>9, <3>1 DEF ReturnMeaning
    <2> QED BY <2>1, <2>2
  <1> QED BY <1>1, <1>11, <1>12, <1>13, <1>14, <1>15, <1>16 DEF PoolInv, Homes

LEMMA NextPool == PoolInv /\ [Next]_vars => PoolInv'
  <1> SUFFICES ASSUME PoolInv, [Next]_vars PROVE PoolInv'
    OBVIOUS
  <1>1. TypeInv /\ TypeInv'
    BY NextType DEF PoolInv
  <1>2. waitMap \cap (0..(mIndex - 1)) = {}
    BY DEF PoolInv, VerdictsAgree, CountedSucceeded
  <1>3. CASE ProducerStop \/ ProducerFinish
    <2>1. UNCHANGED <<workChan, doneChan, pNext, workVars, mainVars, verdict>>
      BY <1>3 DEF ProducerStop, ProducerFinish, chanVars, histVars
    <2>2. Acknowledged' = Acknowledged /\ ReturnMeaning'
      BY <2>1 DEF PoolInv, ReturnMeaning, Acknowledged, mainVars
    <2> QED BY <1>1, <1>2, <2>1, <2>2, FrameStep DEF workVars, mainVars
  <1>4. ASSUME NEW w \in Workers, WorkerStop(w) PROVE PoolInv'
    <2>1. UNCHANGED <<workChan, doneChan, pNext, wTask, wOk, mainVars, verdict>>
      BY <1>4 DEF WorkerStop, prodVars, histVars
    <2>2. Acknowledged' = Acknowledged /\ ReturnMeaning'
      BY <2>1 DEF PoolInv, ReturnMeaning, Acknowledged, mainVars
    <2>3. \A v \in Workers : \/ wState'[v] = wState[v]
                             \/ wState[v] = "select" /\ wState'[v] = "done"
      BY <1>1, <1>4 DEF WorkerStop, TypeInv, TypeOK
    <2> QED BY <1>1, <1>2, <2>1, <2>2, <2>3, FrameStep DEF mainVars
  <1>5. CASE MainCount
    <2>1. UNCHANGED <<workChan, doneChan, pNext, workVars, mState, retErr, verdict>>
      BY <1>5 DEF MainCount, chanVars, prodVars, histVars
    <2>2. mIndex \in waitMap /\ waitMap' = waitMap \ {mIndex} /\ mIndex' = mIndex + 1
      BY <1>5 DEF MainCount
    <2>3. mIndex \in Nat /\ 0..mIndex = (0..(mIndex - 1)) \cup {mIndex}
      <3>1. mIndex \in Nat
        BY <1>1, PoolAssumption DEF TypeInv, TypeOK
      <3>2. \A m \in Nat : 0..m = (0..(m - 1)) \cup {m}
        BY SMT
      <3> QED BY <3>1, <3>2
    <2>4. mIndex' - 1 = mIndex
      BY <2>2, <2>3
    <2>5. Acknowledged' = Acknowledged /\ waitMap' \cap (0..(mIndex' - 1)) = {}
      BY <1>2, <2>2, <2>3, <2>4 DEF Acknowledged
    <2>6. ReturnMeaning'
      BY <1>5, <2>1 DEF PoolInv, ReturnMeaning, MainCount
    <2> QED BY <1>1, <2>1, <2>5, <2>6, FrameStep DEF workVars
  <1>6. CASE MainFinish
    <2>1. UNCHANGED <<workChan, doneChan, pNext, workVars, mIndex, waitMap, retErr, verdict>>
      BY <1>6 DEF MainFinish, chanVars, prodVars, histVars
    <2>2. Acknowledged' = Acknowledged
      BY <2>1 DEF Acknowledged
    <2>3. ~retErr /\ mIndex = NumTasks
      BY <1>6 DEF PoolInv, ReturnMeaning, MainFinish
    <2>4. ReturnMeaning'
      BY <1>6, <2>1, <2>3 DEF ReturnMeaning, MainFinish
    <2> QED BY <1>1, <1>2, <2>1, <2>2, <2>4, FrameStep DEF workVars
  <1>7. CASE MainSendStop \/ MainReturn
    <2>1. /\ UNCHANGED <<workChan, doneChan, pNext, workVars, mIndex, waitMap, retErr, verdict>>
          /\ mState # "loop" /\ mState' # "loop"
      BY <1>7 DEF MainSendStop, MainReturn, chanVars, prodVars, histVars
    <2>2. Acknowledged' = Acknowledged /\ ReturnMeaning'
      BY <2>1 DEF PoolInv, ReturnMeaning, Acknowledged
    <2> QED BY <1>1, <1>2, <2>1, <2>2, FrameStep DEF workVars
  <1>8. CASE UNCHANGED vars
    <2>1. UNCHANGED <<workChan, doneChan, pNext, workVars, mainVars, verdict>>
      BY <1>8 DEF vars, chanVars, prodVars, histVars
    <2>2. Acknowledged' = Acknowledged /\ ReturnMeaning'
      BY <2>1 DEF PoolInv, ReturnMeaning, Acknowledged, mainVars
    <2> QED BY <1>1, <1>2, <2>1, <2>2, FrameStep DEF workVars, mainVars
  <1> QED
    BY ProduceStep, TakeStep, ExecuteStep, ReportStep, ReceiveStep,
       <1>3, <1>4, <1>5, <1>6, <1>7, <1>8
    DEF Next, ProducerNext, WorkerNext, MainNext, Returned

LEMMA PoolInvariant == Spec => []PoolInv
  BY InitPool, NextPool, PTL DEF Spec

(***************************************************************************)
(* No task is lost, handed out twice or reported twice, in any             *)
(* interleaving of any number of workers.                                  *)
(***************************************************************************)
THEOREM TasksAreConserved == Spec => []TasksConserved
  <1>1. PoolInv => TasksConserved
    <2> SUFFICES ASSUME PoolInv PROVE TasksConserved
      OBVIOUS
    <2>1. \A w : w \in Busy <=> w \in Workers /\ Holds(w)
      BY DEF Busy, Holds
    <2>2. /\ \A v, w \in Busy : v # w => wTask[v] # wTask[w]
          /\ InHand \cap Reported = {}
          /\ InHand \cap Acknowledged = {}
      BY <2>1 DEF PoolInv, Homes, HandsApart, InHand, Reported
    <2>3. /\ \A j, k \in 1..Len(doneChan) : j # k => doneChan[j].index # doneChan[k].index
          /\ Reported \cap Acknowledged = {}
      BY DEF PoolInv, Homes, ReportsApart, Reported
    <2>4. \A i \in 0..(Taken - 1) :
             i \in InHand \cup Reported \cup Acknowledged \/ (retErr /\ verdict[i] = "err")
      BY <2>1 DEF PoolInv, Homes, NoneLost, InHand, Reported
    <2> QED BY <2>2, <2>3, <2>4 DEF TasksConserved
  <1> QED BY <1>1, PoolInvariant, PTL

(***************************************************************************)
(* The caller never counts a task that failed, nor one task twice.         *)
(***************************************************************************)
THEOREM CountedTasksSucceeded == Spec => []CountedSucceeded
  <1>1. PoolInv => CountedSucceeded
    BY DEF PoolInv, VerdictsAgree
  <1> QED BY <1>1, PoolInvariant, PTL

-----------------------------------------------------------------------------
(* Counting reports and stop tokens.                                       *)

\* Every task that left workChan is with a worker, in doneChan or received.
ReportCount ==
    /\ Cardinality(Busy) + Len(doneChan) + received = Taken
    /\ retErr => received > 0

\* Every stop token that was sent is in stopChan or stopped a goroutine.
TokenCount ==
    /\ sent + Cardinality(Live) =
          stopChan + NumWorkers + (IF pDone /\ pNext < NumTasks THEN 1 ELSE 0)
    /\ mState = "wait" => sent = NumWorkers + 1

\* After the return every goroutine is gone.
AllGone == mState = "returned" => pDone /\ \A w \in Workers : wState[w] = "done"

CountInv == PoolInv /\ ReportCount /\ TokenCount /\ AllGone

LEMMA WorkersFinite ==
  /\ IsFiniteSet(Workers) /\ Cardinality(Workers) = NumWorkers
  /\ \A S \in SUBSET Workers : IsFiniteSet(S) /\ Cardinality(S) \in Nat
  <1>1. IsFiniteSet(Workers) /\ Cardinality(Workers) = NumWorkers
    BY FS_Interval, PoolAssumption
  <1>2. \A S \in SUBSET Workers : IsFiniteSet(S)
    BY <1>1, FS_Subset
  <1> QED BY <1>1, <1>2, FS_CardinalityType

LEMMA InitCount == Init => CountInv
  <1> SUFFICES ASSUME Init PROVE CountInv
    OBVIOUS
  <1>1. PoolInv
    BY InitPool
  <1>2. Busy = {} /\ Live = Workers
    BY DEF Init, Busy, Live
  <1>3. Cardinality(Busy) = 0 /\ Cardinality(Live) = NumWorkers
    BY <1>2, FS_EmptySet, WorkersFinite
  <1>4. Len(workChan) = 0 /\ Len(doneChan) = 0
    <2>1. Len(<<>>) = 0
      OBVIOUS
    <2> QED BY <2>1 DEF Init
  <1>5. /\ pNext = 0 /\ received = 0 /\ ~retErr /\ sent = 0 /\ stopChan = 0
        /\ ~pDone /\ mState = "loop"
    BY DEF Init
  <1> HIDE DEF Init
  <1>6. ReportCount
    BY <1>3, <1>4, <1>5 DEF ReportCount, Taken
  <1>7. TokenCount
    BY <1>3, <1>5, PoolAssumption DEF TokenCount
  <1>8. AllGone
    BY <1>5 DEF AllGone
  <1> QED BY <1>1, <1>6, <1>7, <1>8 DEF CountInv

\* How the step of one worker changes the sets that are counted.
LEMMA WorkerSets ==
  ASSUME TypeInv, NEW w \in Workers, NEW s,
         wState' = [wState EXCEPT ![w] = s]
  PROVE  /\ s \in {"exec", "send"} => Busy' = Busy \cup {w}
         /\ s \notin {"exec", "send"} => Busy' = Busy \ {w}
         /\ s # "done" => Live' = Live \cup {w}
         /\ s = "done" => Live' = Live \ {w}
  BY DEF TypeInv, TypeOK, Busy, Live

LEMMA NextCount == CountInv /\ [Next]_vars => CountInv'
  <1> SUFFICES ASSUME CountInv, [Next]_vars PROVE CountInv'
    OBVIOUS
  <1>1. /\ PoolInv /\ PoolInv' /\ TypeInv /\ TypeInv'
    BY NextPool DEF CountInv, PoolInv
  <1>2. /\ Busy \in SUBSET Workers /\ IsFiniteSet(Busy) /\ Cardinality(Busy) \in Nat
        /\ Live \in SUBSET Workers /\ IsFiniteSet(Live) /\ Cardinality(Live) \in Nat
    BY WorkersFinite DEF Busy, Live
  <1>3. /\ Len(workChan) \in Nat /\ Len(doneChan) \in Nat /\ Taken \in Int
        /\ pNext \in Nat /\ received \in Nat /\ sent \in Nat /\ stopChan \in Nat
        /\ NumWorkers \in Nat /\ NumTasks \in Nat
    <2>1. Len(workChan) \in Nat /\ Len(doneChan) \in Nat /\ Taken \in Int /\ pNext \in Nat
      BY <1>1, ChannelTypes
    <2>2. received \in Nat /\ sent \in 0..(NumWorkers + 1) /\ stopChan \in 0..NumWorkers
      BY <1>1 DEF TypeInv, TypeOK
    <2> QED BY <2>1, <2>2, PoolAssumption
  <1>4. CASE Produce
    <2>1. Len(workChan') = Len(workChan) + 1 /\ pNext' = pNext + 1
      <3>1. workChan \in Seq(Tasks) /\ pNext \in Tasks
        BY <1>1, <1>4 DEF TypeInv, TypeOK, Produce
      <3>2. workChan' = Append(workChan, pNext) /\ pNext' = pNext + 1
        BY <1>4 DEF Produce
      <3> HIDE DEF Tasks
      <3> QED BY <3>1, <3>2, AppendFacts
    <2>2. Taken' = Taken
      BY <1>3, <2>1 DEF Taken
    <2>3. UNCHANGED <<doneChan, stopChan, pDone, workVars, mainVars, received>> /\ ~pDone
      BY <1>4 DEF Produce, histVars
    <2>4. ReportCount' /\ TokenCount' /\ AllGone'
      BY <2>2, <2>3 DEF CountInv, ReportCount, TokenCount, AllGone, Busy, Live, workVars, mainVars
    <2> QED BY <1>1, <2>4 DEF CountInv
  <1>5. CASE ProducerStop
    <2>1. /\ UNCHANGED <<workChan, doneChan, pNext, workVars, mainVars, received>>
          /\ ~pDone /\ pDone' /\ pNext < NumTasks /\ stopChan' = stopChan - 1
      BY <1>5 DEF ProducerStop, histVars
    <2>2. ReportCount' /\ AllGone'
      BY <2>1 DEF CountInv, ReportCount, AllGone, Busy, Taken, workVars, mainVars
    <2>3. TokenCount'
      <3>1. Live' = Live /\ sent' = sent /\ mState' = mState
        BY <2>1 DEF Live, workVars, mainVars
      <3> QED BY <1>2, <1>3, <2>1, <3>1 DEF CountInv, TokenCount
    <2> QED BY <1>1, <2>2, <2>3 DEF CountInv
  <1>6. CASE ProducerFinish
    <2>1. /\ UNCHANGED <<chanVars, pNext, workVars, mainVars, received>>
          /\ ~pDone /\ pDone' /\ pNext = NumTasks
      BY <1>6 DEF ProducerFinish, histVars
    <2>2. ReportCount' /\ AllGone'
      BY <2>1 DEF CountInv, ReportCount, AllGone, Busy, Taken, chanVars, workVars, mainVars
    <2>3. TokenCount'
      <3>1. Live' = Live /\ sent' = sent /\ mState' = mState /\ stopChan' = stopChan /\ pNext' = pNext
        BY <2>1 DEF Live, workVars, mainVars, chanVars
      <3> QED BY <1>2, <1>3, <2>1, <3>1 DEF CountInv, TokenCount
    <2> QED BY <1>1, <2>2, <2>3 DEF CountInv
  <1>7. ASSUME NEW w \in Workers, WorkerTake(w) PROVE CountInv'
    <2>1. /\ UNCHANGED <<doneChan, stopChan, prodVars, mainVars, received>>
          /\ wState[w] = "select" /\ wState' = [wState EXCEPT ![w] = "exec"]
      BY <1>7 DEF WorkerTake, histVars
    <2>2. Busy' = Busy \cup {w} /\ Live' = Live \cup {w}
      BY <1>1, <2>1, WorkerSets
    <2>9. w \notin Busy /\ w \in Live
      BY <2>1 DEF Busy, Live
    <2>10. Cardinality(Busy') = Cardinality(Busy) + 1
      BY <1>2, <2>2, <2>9, FS_AddElement
    <2>3. Cardinality(Busy') = Cardinality(Busy) + 1 /\ Live' = Live
      BY <2>2, <2>9, <2>10
    <2>4. Len(workChan') = Len(workChan) - 1
      BY <1>1, <1>7, TailFacts DEF WorkerTake, TypeInv, TypeOK
    <2>5. Taken' = Taken + 1
      BY <1>3, <2>1, <2>4 DEF Taken, prodVars
    <2>6. ReportCount'
      BY <1>2, <1>3, <2>1, <2>3, <2>5 DEF CountInv, ReportCount, mainVars
    <2>7. TokenCount'
      BY <2>1, <2>3 DEF CountInv, TokenCount, mainVars, prodVars
    <2>8. AllGone'
      BY <2>1 DEF CountInv, AllGone, mainVars
    <2> QED BY <1>1, <2>6, <2>7, <2>8 DEF CountInv
  <1>8. ASSUME NEW w \in Workers, WorkerExecute(w) PROVE CountInv'
    <2>1. /\ UNCHANGED <<chanVars, prodVars, mainVars, received>>
          /\ wState[w] = "exec" /\ wState' = [wState EXCEPT ![w] = "send"]
      BY <1>8 DEF WorkerExecute
    <2>2. Busy' = Busy /\ Live' = Live
      BY <1>1, <2>1, WorkerSets DEF Busy, Live
    <2>3. ReportCount' /\ TokenCount'
      BY <2>1, <2>2 DEF CountInv, ReportCount, TokenCount, Taken, chanVars, prodVars, mainVars
    <2>4. AllGone'
      BY <2>1 DEF CountInv, AllGone, mainVars
    <2> QED BY <1>1, <2>3, <2>4 DEF CountInv
  <1>9. ASSUME NEW w \in Workers, WorkerReport(w) PROVE CountInv'
    <2>1. /\ UNCHANGED <<workChan, stopChan, prodVars, mainVars, received>>
          /\ wState[w] = "send" /\ wState' = [wState EXCEPT ![w] = "select"]
      BY <1>9 DEF WorkerReport, histVars
    <2>2. Busy' = Busy \ {w} /\ w \in Busy /\ Live' = Live
      <3>3. "select" \notin {"exec", "send"} /\ "select" # "done"
        OBVIOUS
      <3>1. Busy' = Busy \ {w} /\ Live' = Live \cup {w}
        BY <1>1, <2>1, <3>3, WorkerSets, Zenon
      <3>2. w \in Busy /\ w \in Live
        BY <2>1 DEF Busy, Live
      <3> QED BY <3>1, <3>2
    <2>3. Cardinality(Busy') = Cardinality(Busy) - 1
      BY <1>2, <2>2, FS_RemoveElement
    <2>4. Len(doneChan') = Len(doneChan) + 1
      <3>1. [index |-> wTask[w], ok |-> wOk[w]] \in Report
        BY <1>1, <2>2 DEF TypeInv, TypeOK, BusyHasTask, Report
      <3> QED BY <1>1, <1>9, <3>1, AppendFacts DEF WorkerReport, TypeInv, TypeOK
    <2>5. Taken' = Taken
      BY <2>1 DEF Taken, prodVars
    <2>6. ReportCount'
      BY <1>2, <1>3, <2>1, <2>3, <2>4, <2>5 DEF CountInv, ReportCount, mainVars
    <2>7. TokenCount'
      BY <2>1, <2>2 DEF CountInv, TokenCount, mainVars, prodVars
    <2>8. AllGone'
      BY <2>1 DEF CountInv, AllGone, mainVars
    <2> QED BY <1>1, <2>6, <2>7, <2>8 DEF CountInv
  <1>10. ASSUME NEW w \in Workers, WorkerStop(w) PROVE CountInv'
    <2>1. /\ UNCHANGED <<workChan, doneChan, prodVars, mainVars, received>>
          /\ wState[w] = "select" /\ wState' = [wState EXCEPT ![w] = "done"]
          /\ stopChan' = stopChan - 1
      BY <1>10 DEF WorkerStop, histVars
    <2>2. Busy' = Busy /\ w \in Live /\ Live' = Live \ {w}
      BY <1>1, <2>1, WorkerSets DEF Busy, Live
    <2>3. Cardinality(Live') = Cardinality(Live) - 1
      BY <1>2, <2>2, FS_RemoveElement
    <2>4. ReportCount'
      BY <2>1, <2>2 DEF CountInv, ReportCount, Taken, prodVars, mainVars
    <2>5. TokenCount'
      BY <1>2, <1>3, <2>1, <2>3 DEF CountInv, TokenCount, mainVars, prodVars
    <2>6. AllGone'
      BY <2>1 DEF CountInv, AllGone, mainVars
    <2> QED BY <1>1, <2>4, <2>5, <2>6 DEF CountInv
  <1>11. CASE MainCount
    <2>1. UNCHANGED <<chanVars, prodVars, workVars, mState, sent, retErr, received>>
      BY <1>11 DEF MainCount, histVars
    <2>2. ReportCount' /\ TokenCount' /\ AllGone'
      BY <2>1 DEF CountInv, ReportCount, TokenCount, AllGone, Busy, Live, Taken,
                  chanVars, prodVars, workVars
    <2> QED BY <1>1, <2>2 DEF CountInv
  <1>12. CASE MainReceive
    <2>1. /\ UNCHANGED <<workChan, stopChan, prodVars, workVars, sent>>
          /\ received' = received + 1 /\ mState' \in {"loop", "stop"}
      BY <1>12 DEF MainReceive
    <2>2. Len(doneChan') = Len(doneChan) - 1
      BY <1>1, <1>12, TailFacts DEF MainReceive, TypeInv, TypeOK
    <2>3. Busy' = Busy /\ Live' = Live /\ Taken' = Taken
      BY <2>1 DEF Busy, Live, Taken, workVars, prodVars
    <2>4. ReportCount'
      BY <1>2, <1>3, <2>1, <2>2, <2>3 DEF CountInv, ReportCount
    <2>5. TokenCount' /\ AllGone'
      BY <2>1, <2>3 DEF CountInv, TokenCount, AllGone, prodVars
    <2> QED BY <1>1, <2>4, <2>5 DEF CountInv
  <1>13. CASE MainFinish
    <2>1. UNCHANGED <<chanVars, prodVars, workVars, sent, retErr, received>> /\ mState' = "stop"
      BY <1>13 DEF MainFinish, histVars
    <2>2. ReportCount' /\ TokenCount' /\ AllGone'
      BY <2>1 DEF CountInv, ReportCount, TokenCount, AllGone, Busy, Live, Taken,
                  chanVars, prodVars, workVars
    <2> QED BY <1>1, <2>2 DEF CountInv
  <1>14. CASE MainSendStop
    <2>1. /\ UNCHANGED <<workChan, doneChan, prodVars, workVars, retErr, received>>
          /\ stopChan' = stopChan + 1 /\ sent' = sent + 1
          /\ mState' = IF sent' = NumWorkers + 1 THEN "wait" ELSE "stop"
      BY <1>14 DEF MainSendStop, histVars
    <2>2. Busy' = Busy /\ Live' = Live /\ Taken' = Taken
      BY <2>1 DEF Busy, Live, Taken, workVars, prodVars
    <2>3. ReportCount' /\ AllGone'
      BY <2>1, <2>2 DEF CountInv, ReportCount, AllGone
    <2>4. TokenCount'
      BY <1>2, <1>3, <2>1, <2>2 DEF CountInv, TokenCount, prodVars
    <2> QED BY <1>1, <2>3, <2>4 DEF CountInv
  <1>15. CASE MainReturn
    <2>1. /\ UNCHANGED <<chanVars, prodVars, workVars, sent, retErr, received>>
          /\ mState' = "returned" /\ pDone /\ \A w \in Workers : wState[w] = "done"
      BY <1>15 DEF MainReturn, histVars
    <2>2. ReportCount' /\ TokenCount' /\ AllGone'
      BY <2>1 DEF CountInv, ReportCount, TokenCount, AllGone, Busy, Live, Taken,
                  chanVars, prodVars, workVars
    <2> QED BY <1>1, <2>2 DEF CountInv
  <1>16. CASE UNCHANGED vars
    <2>1. UNCHANGED <<chanVars, prodVars, workVars, mainVars, received>>
      BY <1>16 DEF vars, histVars
    <2>2. ReportCount' /\ TokenCount' /\ AllGone'
      BY <2>1 DEF CountInv, ReportCount, TokenCount, AllGone, Busy, Live, Taken,
                  chanVars, prodVars, workVars, mainVars
    <2> QED BY <1>1, <2>2 DEF CountInv
  <1> QED
    BY <1>4, <1>5, <1>6, <1>7, <1>8, <1>9, <1>10, <1>11, <1>12, <1>13, <1>14, <1>15, <1>16
    DEF Next, ProducerNext, WorkerNext, MainNext, Returned

LEMMA CountInvariant == Spec => []CountInv
  BY InitCount, NextCount, PTL DEF Spec

(***************************************************************************)
(* With at most Workers*10 + 1 tasks no worker is ever stuck on doneChan   *)
(* after the caller has left its loop, and with any number of tasks none   *)
(* is stuck after a call that succeeds: the exact reach of the shutdown.   *)
(***************************************************************************)
THEOREM SendersAreNeverStuck == Spec => []SendersNeverStuck
  <1>1. CountInv => SendersNeverStuck
    <2> SUFFICES ASSUME CountInv, mState # "loop", retErr => NumTasks <= ChanCap + 1,
                        NEW w \in Workers, wState[w] = "send"
                 PROVE  Len(doneChan) < ChanCap
      BY DEF SendersNeverStuck
    <2>1. TypeInv /\ PoolInv
      BY DEF CountInv, PoolInv
    <2>2. w \in Busy /\ Holds(w) /\ wTask[w] \in Tasks
      BY <2>1 DEF Busy, Holds, TypeInv, BusyHasTask
    <2>3. CASE retErr
      <3>1. Busy \in SUBSET Workers /\ IsFiniteSet(Busy) /\ Cardinality(Busy) \in Nat
        BY WorkersFinite DEF Busy
      <3>2. Cardinality(Busy) >= 1
        BY <2>2, <3>1, FS_EmptySet
      <3>3. received >= 1 /\ Cardinality(Busy) + Len(doneChan) + received = Taken
        BY <2>1, <2>3 DEF CountInv, ReportCount, TypeInv, TypeOK
      <3>4. Len(doneChan) \in Nat /\ received \in Nat /\ Taken <= NumTasks /\ Taken \in Int
        <4>1. Len(workChan) \in Nat /\ Len(doneChan) \in Nat /\ Taken \in Int
          BY <2>1, ChannelTypes
        <4>2. pNext \in 0..NumTasks /\ received \in Nat
          BY <2>1 DEF TypeInv, TypeOK
        <4> QED BY <4>1, <4>2, PoolAssumption DEF Taken
      <3> QED BY <2>3, <3>1, <3>2, <3>3, <3>4, PoolAssumption, ChanCapPositive
    <2>4. CASE ~retErr
      <3>1. mIndex = NumTasks
        BY <2>1, <2>4 DEF PoolInv, ReturnMeaning
      <3>2. wTask[w] \in Acknowledged
        BY <2>2, <3>1 DEF Acknowledged
      <3> QED BY <2>1, <2>2, <3>2 DEF PoolInv, Homes, HandsApart
    <2> QED BY <2>3, <2>4
  <1> QED BY <1>1, CountInvariant, PTL

(***************************************************************************)
(* The deferred function sends enough stop tokens: whoever still runs when *)
(* it waits finds one, whether or not the producer needed its own.         *)
(***************************************************************************)
THEOREM StopTokensAlwaysSuffice == Spec => []StopTokensSuffice
  <1>1. CountInv => StopTokensSuffice
    <2> SUFFICES ASSUME CountInv, mState = "wait"
                 PROVE  Cardinality(Live) + (IF pDone THEN 0 ELSE 1) <= stopChan
      BY DEF StopTokensSuffice
    <2>1. Cardinality(Live) \in Nat
      BY WorkersFinite DEF Live
    <2>2. stopChan \in Nat /\ NumWorkers \in Nat
      BY PoolAssumption DEF CountInv, PoolInv, TypeInv, TypeOK
    <2>3. /\ sent = NumWorkers + 1
          /\ sent + Cardinality(Live) =
                stopChan + NumWorkers + (IF pDone /\ pNext < NumTasks THEN 1 ELSE 0)
      BY DEF CountInv, TokenCount
    <2>4. CASE pDone
      BY <2>1, <2>2, <2>3, <2>4
    <2>5. CASE ~pDone
      BY <2>1, <2>2, <2>3, <2>5
    <2> QED BY <2>4, <2>5
  <1> QED BY <1>1, CountInvariant, PTL

(***************************************************************************)
(* No goroutine outlives the call: after the return nothing changes, so    *)
(* nothing is ever sent on a closed channel.                               *)
(***************************************************************************)
THEOREM NothingAfterReturn == Spec => QuietAfterReturn
  <1>1. CountInv /\ [Next]_vars => [mState # "returned"]_vars
    <2> SUFFICES ASSUME CountInv, Next, mState = "returned" PROVE UNCHANGED vars
      OBVIOUS
    <2>1. pDone /\ \A w \in Workers : wState[w] = "done"
      BY DEF CountInv, AllGone
    <2>2. ~ProducerNext
      BY <2>1 DEF ProducerNext, Produce, ProducerStop, ProducerFinish
    <2>3. \A w \in Workers : ~WorkerNext(w)
      BY <2>1 DEF WorkerNext, WorkerTake, WorkerExecute, WorkerReport, WorkerStop
    <2>4. ~MainNext
      BY DEF MainNext, MainCount, MainReceive, MainFinish, MainSendStop, MainReturn
    <2> QED BY <2>2, <2>3, <2>4 DEF Next, Returned
  <1> QED BY <1>1, CountInvariant, PTL DEF Spec, QuietAfterReturn

-----------------------------------------------------------------------------
(* Refinement of TaskBatch.                                                *)

BatchResult == CASE mState # "returned" -> "pending"
                 [] mState = "returned" /\ ~retErr -> "ok"
                 [] mState = "returned" /\ retErr -> "err"

LEMMA InitBatch == Init => Batch!Init
  <1> SUFFICES ASSUME Init PROVE Batch!Init
    OBVIOUS
  <1>1. BatchResult = "pending"
    BY DEF Init, BatchResult
  <1> QED BY <1>1 DEF Init, Batch!Init, Batch!Tasks, BatchResult

LEMMA StepBatch == CountInv /\ [Next]_vars => [Batch!Next]_(Batch!vars)
  <1> SUFFICES ASSUME CountInv, [Next]_vars PROVE [Batch!Next]_(Batch!vars)
    OBVIOUS
  <1>1. TypeInv /\ PoolInv
    BY DEF CountInv, PoolInv
  <1>2. mState # "returned" => BatchResult = "pending"
    BY DEF BatchResult
  <1>3. ASSUME NEW w \in Workers, WorkerExecute(w) PROVE Batch!Next
    <2>1. wState[w] = "exec" /\ wTask[w] \in Tasks
      BY <1>1, <1>3 DEF WorkerExecute, TypeInv, BusyHasTask, Busy
    <2>2. verdict[wTask[w]] = "none"
      BY <1>1, <2>1 DEF PoolInv, VerdictsAgree
    <2>3. mState # "returned" /\ mState' = mState
      BY <1>3, <2>1 DEF CountInv, AllGone, WorkerExecute, mainVars
    <2>4. BatchResult = "pending" /\ BatchResult' = "pending"
      BY <2>3 DEF BatchResult
    <2>5. Batch!Run(wTask[w])
      BY <1>3, <2>2, <2>4 DEF Batch!Run, BatchResult, WorkerExecute
    <2> QED BY <2>1, <2>5 DEF Batch!Next, Batch!Tasks
  <1>4. CASE MainReturn
    <2>1. /\ mState = "wait" /\ mState' = "returned" /\ retErr' = retErr
          /\ verdict' = verdict /\ totalNumTx' = totalNumTx
      BY <1>4 DEF MainReturn, histVars
    <2>2. BatchResult = "pending"
      BY <2>1 DEF BatchResult
    <2>3. CASE retErr
      <3>1. BatchResult' = "err"
        BY <2>1, <2>3 DEF BatchResult
      <3>2. \E i \in Tasks : verdict[i] = "err"
        BY <1>1, <2>3 DEF PoolInv, ReturnMeaning
      <3>3. Batch!ReturnError
        BY <2>1, <2>2, <3>1, <3>2 DEF Batch!ReturnError, Batch!Tasks, BatchResult
      <3> QED BY <3>3 DEF Batch!Next
    <2>4. CASE ~retErr
      <3>1. BatchResult' = "ok"
        BY <2>1, <2>4 DEF BatchResult
      <3>2. mIndex = NumTasks
        BY <1>1, <2>1, <2>4 DEF PoolInv, ReturnMeaning
      <3>3. \A i \in Tasks : verdict[i] = "ok"
        BY <1>1, <3>2 DEF PoolInv, VerdictsAgree, CountedSucceeded, Acknowledged
      <3>4. Batch!ReturnNil
        BY <2>1, <2>2, <3>1, <3>3 DEF Batch!ReturnNil, Batch!Tasks, BatchResult
      <3> QED BY <3>4 DEF Batch!Next
    <2> QED BY <2>3, <2>4
  <1>5. ASSUME UNCHANGED <<verdict, totalNumTx>>, BatchResult' = BatchResult
        PROVE  UNCHANGED Batch!vars
    BY <1>5 DEF Batch!vars, BatchResult
  <1>6. CASE ProducerNext
    <2>1. UNCHANGED <<verdict, totalNumTx, mState, retErr>>
      BY <1>6 DEF ProducerNext, Produce, ProducerStop, ProducerFinish, histVars, mainVars
    <2> QED BY <1>5, <2>1 DEF BatchResult
  <1>7. ASSUME NEW w \in Workers, WorkerTake(w) \/ WorkerReport(w) \/ WorkerStop(w)
        PROVE  UNCHANGED Batch!vars
    <2>1. UNCHANGED <<verdict, totalNumTx, mState, retErr>>
      BY <1>7 DEF WorkerTake, WorkerReport, WorkerStop, histVars, mainVars
    <2> QED BY <1>5, <2>1 DEF BatchResult
  <1>8. CASE MainCount \/ MainReceive \/ MainFinish \/ MainSendStop
    <2>1. /\ UNCHANGED <<verdict, totalNumTx>>
          /\ mState # "returned" /\ mState' # "returned"
      BY <1>8 DEF MainCount, MainReceive, MainFinish, MainSendStop, histVars
    <2> QED BY <1>5, <2>1 DEF BatchResult
  <1>9. CASE UNCHANGED vars
    <2>1. UNCHANGED <<verdict, totalNumTx, mState, retErr>>
      BY <1>9 DEF vars, histVars, mainVars
    <2> QED BY <1>5, <2>1 DEF BatchResult
  <1> QED
    BY <1>3, <1>4, <1>6, <1>7, <1>8, <1>9
    DEF Next, WorkerNext, MainNext, Returned

(***************************************************************************)
(* The pool of goroutines implements the batch: each task runs at most     *)
(* once, nil is returned only when all succeeded, an error only when one   *)
(* failed, and nothing runs after the return.                              *)
(***************************************************************************)
THEOREM PoolImplementsBatch == Spec => ImplementsBatch
  <1>1. Spec => []CountInv
    BY CountInvariant
  <1> QED BY <1>1, InitBatch, StepBatch, PTL DEF Spec, ImplementsBatch, Batch!Spec

-----------------------------------------------------------------------------
(* The totals.  A task i that returns without error counts the elements of *)
(* a set W[i], and these sets are disjoint.                                *)

Counts(W) ==
    /\ \A i, j \in Tasks : i # j => W[i] \cap W[j] = {}
    /\ \A i \in Tasks :
          /\ IsFiniteSet(W[i])
          /\ \A o \in TaskOutcomes[i] : o.ok => o.numTx = Cardinality(W[i])

Counted(W) == UNION {W[i] : i \in {j \in Tasks : verdict[j] = "ok"}}

TotalInv(W) ==
    (\A i \in Tasks : verdict[i] # "err") =>
        IsFiniteSet(Counted(W)) /\ totalNumTx = Cardinality(Counted(W))

\* Two disjoint finite sets: their numbers of elements add up.
LEMMA CountUnion ==
  ASSUME NEW S, NEW R, IsFiniteSet(S), IsFiniteSet(R), S \cap R = {}
  PROVE  IsFiniteSet(S \cup R) /\ Cardinality(S \cup R) = Cardinality(S) + Cardinality(R)
  <1>1. IsFiniteSet(S \cup R)
    BY FS_Union
  <1>2. Cardinality(S \cup R) = Cardinality(S) + Cardinality(R) - Cardinality(S \cap R)
    BY FS_Union
  <1>3. Cardinality(S \cap R) = 0
    BY FS_EmptySet
  <1>4. Cardinality(S) \in Nat /\ Cardinality(R) \in Nat
    BY FS_CardinalityType
  <1> QED BY <1>1, <1>2, <1>3, <1>4

LEMMA TotalStep ==
  ASSUME NEW W, Counts(W), CountInv, TotalInv(W), [Next]_vars
  PROVE  TotalInv(W)'
  <1>1. TypeInv /\ PoolInv
    BY DEF CountInv, PoolInv
  <1>2. ASSUME UNCHANGED <<verdict, totalNumTx>> PROVE TotalInv(W)'
    BY <1>2 DEF TotalInv, Counted
  <1>3. ASSUME NEW w \in Workers, WorkerExecute(w) PROVE TotalInv(W)'
    <2>1. wState[w] = "exec" /\ wTask[w] \in Tasks
      BY <1>1, <1>3 DEF WorkerExecute, TypeInv, BusyHasTask, Busy
    <2> DEFINE i == wTask[w]
    <2>2. verdict[i] = "none" /\ verdict \in [Tasks -> {"none", "ok", "err"}]
      BY <1>1, <2>1 DEF PoolInv, VerdictsAgree, TypeInv, TypeOK
    <2>3. PICK o \in TaskOutcomes[i] :
            /\ totalNumTx' = totalNumTx + o.numTx
            /\ verdict' = [verdict EXCEPT ![i] = IF o.ok THEN "ok" ELSE "err"]
      BY <1>3 DEF WorkerExecute
    <2>4. i \in Tasks
      BY <2>1
    <2> HIDE DEF i
    <2> SUFFICES ASSUME \A j \in Tasks : verdict'[j] # "err"
                 PROVE  /\ IsFiniteSet(Counted(W)')
                        /\ totalNumTx' = Cardinality(Counted(W)')
      BY DEF TotalInv
    <2>5. o.ok
      BY <2>2, <2>3, <2>4
    <2>6. \A j \in Tasks : verdict'[j] = IF j = i THEN "ok" ELSE verdict[j]
      BY <2>2, <2>3, <2>5
    <2>7. \A j \in Tasks : verdict[j] # "err"
      BY <2>2, <2>6
    <2>8. IsFiniteSet(Counted(W)) /\ totalNumTx = Cardinality(Counted(W))
      BY <2>7 DEF TotalInv
    <2>9. IsFiniteSet(W[i]) /\ o.numTx = Cardinality(W[i])
      BY <2>3, <2>4, <2>5 DEF Counts
    <2>10. Counted(W)' = Counted(W) \cup W[i]
      <3>1. {j \in Tasks : verdict'[j] = "ok"} = {j \in Tasks : verdict[j] = "ok"} \cup {i}
        BY <2>4, <2>6
      <3>2. Counted(W)' = UNION {W[j] : j \in {k \in Tasks : verdict'[k] = "ok"}}
        BY DEF Counted
      <3> QED BY <3>1, <3>2 DEF Counted
    <2>11. Counted(W) \cap W[i] = {}
      <3> SUFFICES ASSUME NEW j \in Tasks, verdict[j] = "ok" PROVE W[j] \cap W[i] = {}
        BY DEF Counted
      <3>1. j # i
        BY <2>2
      <3> QED BY <2>4, <3>1 DEF Counts
    <2>12. /\ IsFiniteSet(Counted(W) \cup W[i])
           /\ Cardinality(Counted(W) \cup W[i]) = Cardinality(Counted(W)) + Cardinality(W[i])
      BY <2>8, <2>9, <2>11, CountUnion
    <2> QED BY <2>3, <2>8, <2>9, <2>10, <2>12
  <1>4. ASSUME NEW w \in Workers, WorkerTake(w) \/ WorkerReport(w) \/ WorkerStop(w)
        PROVE  TotalInv(W)'
    BY <1>2, <1>4 DEF WorkerTake, WorkerReport, WorkerStop, histVars
  <1>5. CASE ProducerNext
    BY <1>2, <1>5 DEF ProducerNext, Produce, ProducerStop, ProducerFinish, histVars
  <1>6. CASE MainNext
    BY <1>2, <1>6 DEF MainNext, MainCount, MainReceive, MainFinish, MainSendStop, MainReturn,
                      histVars
  <1>7. CASE UNCHANGED vars
    BY <1>2, <1>7 DEF vars, histVars
  <1> QED
    BY <1>3, <1>4, <1>5, <1>6, <1>7 DEF Next, WorkerNext, Returned

LEMMA TotalInit ==
  ASSUME NEW W, Init
  PROVE  TotalInv(W)
  <1>1. {j \in Tasks : verdict[j] = "ok"} = {}
    BY DEF Init
  <1>2. Counted(W) = {}
    BY <1>1 DEF Counted
  <1>3. totalNumTx = 0
    BY DEF Init
  <1> QED BY <1>2, <1>3, FS_EmptySet DEF TotalInv

\* A call that returns nil has counted every task.
LEMMA TotalCounted ==
  ASSUME NEW W, CountInv, TotalInv(W), mState = "returned", ~retErr
  PROVE  totalNumTx = Cardinality(UNION {W[i] : i \in Tasks})
  <1>1. PoolInv
    BY DEF CountInv
  <1>2. mIndex = NumTasks
    BY <1>1 DEF PoolInv, ReturnMeaning
  <1>3. \A i \in Tasks : verdict[i] = "ok"
    BY <1>1, <1>2 DEF PoolInv, VerdictsAgree, CountedSucceeded, Acknowledged
  <1>4. {j \in Tasks : verdict[j] = "ok"} = Tasks
    BY <1>3
  <1> HIDE DEF Tasks
  <1>5. Counted(W) = UNION {W[i] : i \in Tasks}
    BY <1>4, Zenon DEF Counted
  <1> QED BY <1>3, <1>5 DEF TotalInv

\* What ExecuteBlock counts when it meets no error.
LEMMA BlockCounts ==
  ASSUME NEW b \in FirstBlock..LastBlock, NEW o \in ExecuteBlock(b), o.ok
  PROVE  IsFiniteSet(Countable(b)) /\ o.numTx = Cardinality(Countable(b))
  <1> DEFINE subs == Substates[b]
             Met(d, v) == {tx \in DOMAIN subs : ~Skipped(subs[tx]) /\ d[tx] = v}
  <1>1. b \in DOMAIN Substates
    BY BlockAssumption
  <1>2. /\ IsFiniteSet(DOMAIN subs)
        /\ \A tx \in DOMAIN subs : ~({"ok", "not inner"} \subseteq subs[tx].verdicts)
    BY <1>1, BlockAssumption, Zenon
  <1>3. PICK d \in Decisions(subs) :
          /\ Met(d, "error") = {}
          /\ o = [numTx |-> Cardinality(Met(d, "ok")), ok |-> TRUE]
    <2>1. PICK d \in Decisions(subs) :
            o \in IF Met(d, "error") = {}
                    THEN {[numTx |-> Cardinality(Met(d, "ok")), ok |-> TRUE]}
                    ELSE {[numTx |-> n, ok |-> FALSE] : n \in 0..Cardinality(Met(d, "ok"))}
      BY Zenon DEF ExecuteBlock
    <2>2. Met(d, "error") = {}
      <3> SUFFICES ASSUME Met(d, "error") # {} PROVE FALSE
        OBVIOUS
      <3>1. o \in {[numTx |-> n, ok |-> FALSE] : n \in 0..Cardinality(Met(d, "ok"))}
        BY <2>1, Zenon
      <3> HIDE DEF Met
      <3>2. PICK n \in 0..Cardinality(Met(d, "ok")) : o = [numTx |-> n, ok |-> FALSE]
        BY <3>1
      <3> QED BY <3>2
    <2> QED BY <2>1, <2>2, Zenon
  <1>4. Met(d, "ok") = Countable(b)
    <2>1. /\ d \in [DOMAIN subs -> {"ok", "not inner", "error"}]
          /\ \A tx \in DOMAIN subs : d[tx] \in subs[tx].verdicts
      BY Zenon DEF Decisions
    <2>2. ASSUME NEW tx \in DOMAIN subs, ~Skipped(subs[tx])
          PROVE  d[tx] = "ok" <=> "ok" \in subs[tx].verdicts
      <3>1. d[tx] # "error"
        BY <1>3, <2>2
      <3>2. d[tx] \in {"ok", "not inner"} /\ d[tx] \in subs[tx].verdicts
        BY <2>1, <3>1
      <3>3. ~({"ok", "not inner"} \subseteq subs[tx].verdicts)
        BY <1>2
      <3> QED BY <3>2, <3>3
    <2> QED BY <2>2 DEF Countable
  <1>5. IsFiniteSet(Countable(b))
    BY <1>2, FS_Subset DEF Countable
  <1> HIDE DEF Met
  <1> QED BY <1>3, <1>4, <1>5

(***************************************************************************)
(* Execute over a range of blocks: a call without errors prints the number *)
(* of transactions that are not skipped and are inner, each once, for any  *)
(* range, any number of workers and any order in which maps are visited.   *)
(***************************************************************************)
THEOREM BlockTotalExact ==
  ASSUME TaskOutcomes = BlockOutcomes, NumTasks = LastBlock - FirstBlock + 1
  PROVE  Spec => []BlockTotal
  <1> DEFINE W == [i \in Tasks |-> {FirstBlock + i} \X Countable(FirstBlock + i)]
  <1>1. FirstBlock \in Nat /\ LastBlock \in Nat
    BY BlockAssumption
  <1>2. \A i \in Tasks : i \in Nat /\ FirstBlock + i \in FirstBlock..LastBlock
    BY <1>1
  <1>3. ASSUME NEW i \in Tasks
        PROVE  /\ IsFiniteSet(W[i])
               /\ \A o \in TaskOutcomes[i] : o.ok => o.numTx = Cardinality(W[i])
    <2>1. TaskOutcomes[i] = ExecuteBlock(FirstBlock + i) /\ FirstBlock + i \in FirstBlock..LastBlock
      BY <1>2 DEF BlockOutcomes
    <2>2. W[i] = {FirstBlock + i} \X Countable(FirstBlock + i)
      OBVIOUS
    <2>3. FirstBlock + i \in DOMAIN Substates
      BY <2>1, BlockAssumption
    <2>4. IsFiniteSet(Countable(FirstBlock + i))
      <3>1. IsFiniteSet(DOMAIN Substates[FirstBlock + i])
        BY <2>3, BlockAssumption, Zenon
      <3> QED BY <3>1, FS_Subset DEF Countable
    <2>5. /\ IsFiniteSet(W[i])
          /\ Cardinality(W[i]) = Cardinality({FirstBlock + i}) * Cardinality(Countable(FirstBlock + i))
      BY <2>2, <2>4, FS_Product, FS_Singleton
    <2>6. Cardinality({FirstBlock + i}) = 1
      BY FS_Singleton
    <2>7. Cardinality(Countable(FirstBlock + i)) \in Nat
      BY <2>4, FS_CardinalityType
    <2>8. Cardinality(W[i]) = Cardinality(Countable(FirstBlock + i))
      <3>1. \A n \in Nat : 1 * n = n
        OBVIOUS
      <3> QED BY <2>5, <2>6, <2>7, <3>1
    <2> QED BY <2>1, <2>5, <2>8, BlockCounts
  <1>4. \A i, j \in Tasks : i # j => W[i] \cap W[j] = {}
    <2> SUFFICES ASSUME NEW i \in Tasks, NEW j \in Tasks, i # j PROVE W[i] \cap W[j] = {}
      OBVIOUS
    <2>1. FirstBlock + i # FirstBlock + j
      BY <1>1, <1>2
    <2>2. \A p \in W[i] : p[1] = FirstBlock + i
      OBVIOUS
    <2>3. \A p \in W[j] : p[1] = FirstBlock + j
      OBVIOUS
    <2> QED BY <2>1, <2>2, <2>3
  <1>5. UNION {W[i] : i \in Tasks} = UNION {{b} \X Countable(b) : b \in FirstBlock..LastBlock}
    <2>1. \A i \in Tasks : W[i] = {FirstBlock + i} \X Countable(FirstBlock + i)
      OBVIOUS
    <2>2. \A b \in FirstBlock..LastBlock : b - FirstBlock \in Tasks /\ FirstBlock + (b - FirstBlock) = b
      BY <1>1
    <2>3. {W[i] : i \in Tasks} = {{b} \X Countable(b) : b \in FirstBlock..LastBlock}
      <3>1. ASSUME NEW i \in Tasks PROVE W[i] \in {{b} \X Countable(b) : b \in FirstBlock..LastBlock}
        BY <1>2, <2>1
      <3>2. ASSUME NEW b \in FirstBlock..LastBlock PROVE {b} \X Countable(b) \in {W[i] : i \in Tasks}
        <4>1. W[b - FirstBlock] = {b} \X Countable(b)
          BY <2>1, <2>2
        <4> QED BY <2>2, <4>1
      <3> HIDE DEF W
      <3> QED BY <3>1, <3>2
    <2> QED BY <2>3
  <1>6. Counts(W)
    BY <1>3, <1>4 DEF Counts
  <1> HIDE DEF W
  <1>7. Init => TotalInv(W)
    BY TotalInit
  <1>8. CountInv /\ TotalInv(W) /\ [Next]_vars => TotalInv(W)'
    BY <1>6, TotalStep
  <1>9. CountInv /\ TotalInv(W) => BlockTotal
    BY <1>5, TotalCounted DEF BlockTotal
  <1> QED BY <1>7, <1>8, <1>9, CountInvariant, PTL DEF Spec

(***************************************************************************)
(* ExecuteWithTx over a list: a call without errors prints the number of   *)
(* entries that are in the block range and name a recorded transaction,    *)
(* for any list, repeated entries included.                                *)
(***************************************************************************)
THEOREM ListTotalExact ==
  ASSUME TaskOutcomes = ListOutcomes, NumTasks = Len(TxList)
  PROVE  Spec => []ListTotal
  <1> DEFINE W == [i \in Tasks |-> {k \in {i + 1} : Recorded(k)}]
  <1>1. \A i \in Tasks : i \in Nat /\ i + 1 \in DOMAIN TxList
    BY ListAssumption
  <1>2. ASSUME NEW i \in Tasks
        PROVE  /\ IsFiniteSet(W[i])
               /\ \A o \in TaskOutcomes[i] : o.ok => o.numTx = Cardinality(W[i])
    <2> DEFINE b == TxList[i + 1][1]
               tx == TxList[i + 1][2]
    <2>1. b \in Nat /\ tx \in Nat
      BY <1>1, ListAssumption
    <2>2. TaskOutcomes[i] = ExecuteBlockTx(b, tx)
      BY DEF ListOutcomes
    <2>3. Recorded(i + 1) <=> b \in FirstBlock..LastBlock /\ tx \in DOMAIN Substates[b]
      BY DEF Recorded
    <2>4. W[i] = IF Recorded(i + 1) THEN {i + 1} ELSE {}
      OBVIOUS
    <2> HIDE DEF b, tx, W
    <2>5. b \in FirstBlock..LastBlock =>
            (tx \in DOMAIN Substates[b] <=> tx < Cardinality(DOMAIN Substates[b]))
      <3> SUFFICES ASSUME b \in FirstBlock..LastBlock
                   PROVE  tx \in DOMAIN Substates[b] <=> tx < Cardinality(DOMAIN Substates[b])
        OBVIOUS
      <3>1. b \in DOMAIN Substates
        BY BlockAssumption
      <3>2. /\ IsFiniteSet(DOMAIN Substates[b])
            /\ DOMAIN Substates[b] = 0..(Cardinality(DOMAIN Substates[b]) - 1)
        BY <3>1, BlockAssumption, Zenon
      <3>3. PICK n \in Nat : n = Cardinality(DOMAIN Substates[b])
        BY <3>2, FS_CardinalityType
      <3>4. DOMAIN Substates[b] = 0..(n - 1)
        BY <3>2, <3>3, Zenon
      <3>5. tx \in 0..(n - 1) <=> tx < n
        BY <2>1
      <3> QED BY <3>3, <3>4, <3>5, Zenon
    <2>6. b \in FirstBlock..LastBlock <=> b <= LastBlock /\ b >= FirstBlock
      <3>1. FirstBlock \in Nat /\ LastBlock \in Nat
        BY BlockAssumption
      <3> QED BY <2>1, <3>1
    <2>7. CASE Recorded(i + 1)
      <3>1. \A o \in TaskOutcomes[i] : o.numTx = 1
        BY <2>2, <2>3, <2>5, <2>6, <2>7 DEF ExecuteBlockTx
      <3> QED BY <2>4, <2>7, <3>1, FS_Singleton
    <2>8. CASE ~Recorded(i + 1)
      <3>1. \A o \in TaskOutcomes[i] : o.numTx = 0
        BY <2>2, <2>3, <2>5, <2>6, <2>8 DEF ExecuteBlockTx
      <3> QED BY <2>4, <2>8, <3>1, FS_EmptySet
    <2> QED BY <2>7, <2>8
  <1>3. \A i, j \in Tasks : i # j => W[i] \cap W[j] = {}
    OBVIOUS
  <1>4. UNION {W[i] : i \in Tasks} = {k \in DOMAIN TxList : Recorded(k)}
    <2>1. \A k \in DOMAIN TxList : k - 1 \in Tasks /\ (k - 1) + 1 = k
      BY ListAssumption
    <2>2. ASSUME NEW k \in DOMAIN TxList, Recorded(k) PROVE k \in UNION {W[i] : i \in Tasks}
      <3>1. k \in W[k - 1]
        BY <2>1, <2>2
      <3> QED BY <2>1, <3>1
    <2>3. ASSUME NEW i \in Tasks, NEW k \in W[i] PROVE k \in DOMAIN TxList /\ Recorded(k)
      BY <1>1, <2>3
    <2> HIDE DEF W
    <2> QED BY <2>2, <2>3
  <1>5. Counts(W)
    BY <1>2, <1>3 DEF Counts
  <1> HIDE DEF W
  <1>6. Init => TotalInv(W)
    BY TotalInit
  <1>7. CountInv /\ TotalInv(W) /\ [Next]_vars => TotalInv(W)'
    BY <1>5, TotalStep
  <1>8. CountInv /\ TotalInv(W) => ListTotal
    BY <1>4, TotalCounted DEF ListTotal
  <1> QED BY <1>6, <1>7, <1>8, CountInvariant, PTL DEF Spec
=============================================================================
