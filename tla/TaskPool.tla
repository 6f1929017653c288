------------------------------ MODULE TaskPool ------------------------------
(***************************************************************************)
(* The goroutine pool of research/substate_task.go.  ExecuteWithTx (replay *)
(* of a list of transactions), Execute (replay of a block range) and       *)
(* ExecuteTest (rounds) are the same machine: a producer goroutine sends   *)
(* task indexes on workChan, worker goroutines execute them and report on  *)
(* doneChan, the calling goroutine counts the reports in index order, and  *)
(* a deferred function stops everybody with tokens on stopChan, waits for  *)
(* them and closes the channels.  A channel is the sequence of the values  *)
(* buffered in it; stopChan carries no data and is a number of tokens.     *)
(***************************************************************************)
EXTENDS Integers, Sequences, FiniteSets

CONSTANTS
    NumWorkers,    \* pool.Workers, the --workers flag
    NumTasks,      \* len(blockTxList), or Last - First + 1, or pool.Round
    ChanFactor,    \* the literal 10 in make(chan ..., pool.Workers*10)
    TaskOutcomes   \* TaskOutcomes[i]: what executing task i may return

Workers == 1..NumWorkers
Tasks   == 0..(NumTasks - 1)
ChanCap == NumWorkers * ChanFactor

\* What ExecuteBlockTx, ExecuteBlock or TestBlock returns for one task.
Outcome == [numTx : Nat, ok : BOOLEAN]

ASSUME PoolAssumption ==
    /\ NumWorkers \in Nat \ {0}
    /\ NumTasks \in Nat
    /\ ChanFactor \in Nat \ {0}
    /\ TaskOutcomes \in [Tasks -> SUBSET Outcome]
    /\ \A i \in Tasks : TaskOutcomes[i] # {}

VARIABLES
    workChan,     \* indexes waiting for a worker
    doneChan,     \* reports waiting for the caller: [index, ok]
    stopChan,     \* number of stop tokens in the channel
    pNext, pDone, \* producer: next index to send, has it returned
    wState,       \* worker: "select", "exec", "send" or "done"
    wTask, wOk,   \* worker: the task in hand, whether it returned no error
    mState,       \* caller: "loop", "stop", "wait" or "returned"
    mIndex,       \* caller: next index to count
    waitMap,      \* caller: reported indexes that are not counted yet
    sent,         \* caller: stop tokens sent so far
    retErr,       \* caller: does it return an error
    totalNumTx,   \* the shared counter printed by the first deferred function
    received,     \* history: reports read from doneChan
    verdict       \* history: what became of each task

chanVars == <<workChan, doneChan, stopChan>>
prodVars == <<pNext, pDone>>
workVars == <<wState, wTask, wOk>>
mainVars == <<mState, mIndex, waitMap, sent, retErr>>
histVars == <<received, verdict>>
vars == <<chanVars, prodVars, workVars, mainVars, totalNumTx, histVars>>

Report == [index : Tasks, ok : BOOLEAN]

TypeOK ==
    /\ workChan \in Seq(Tasks) /\ Len(workChan) <= ChanCap
    /\ doneChan \in Seq(Report) /\ Len(doneChan) <= ChanCap
    /\ stopChan \in 0..NumWorkers
    /\ pNext \in 0..NumTasks
    /\ pDone \in BOOLEAN
    /\ wState \in [Workers -> {"select", "exec", "send", "done"}]
    /\ wTask \in [Workers -> 0..NumTasks]
    /\ wOk \in [Workers -> BOOLEAN]
    /\ mState \in {"loop", "stop", "wait", "returned"}
    /\ mIndex \in 0..NumTasks
    /\ waitMap \in SUBSET Tasks
    /\ sent \in 0..(NumWorkers + 1)
    /\ retErr \in BOOLEAN
    /\ totalNumTx \in Nat
    /\ received \in Nat
    /\ verdict \in [Tasks -> {"none", "ok", "err"}]

\* Channels made, NumWorkers workers and one producer started, nothing sent.
Init ==
    /\ workChan = <<>> /\ doneChan = <<>> /\ stopChan = 0
    /\ pNext = 0 /\ pDone = FALSE
    /\ wState = [w \in Workers |-> "select"]
    /\ wTask = [w \in Workers |-> 0]
    /\ wOk = [w \in Workers |-> TRUE]
    /\ mState = "loop" /\ mIndex = 0 /\ waitMap = {}
    /\ sent = 0 /\ retErr = FALSE
    /\ totalNumTx = 0
    /\ received = 0
    /\ verdict = [i \in Tasks |-> "none"]

-----------------------------------------------------------------------------
(* The producer goroutine: one select per index.                           *)

\* Mutant: the send does not wait for room in the channel.
ProduceUnbounded ==
    /\ ~pDone /\ pNext < NumTasks
    /\ workChan' = Append(workChan, pNext)
    /\ pNext' = pNext + 1
    /\ UNCHANGED <<doneChan, stopChan, pDone, workVars, mainVars, totalNumTx, histVars>>

\* case workChan <- uint64(index)
Produce ==
    /\ ~pDone /\ pNext < NumTasks
    /\ Len(workChan) < ChanCap
    /\ workChan' = Append(workChan, pNext)
    /\ pNext' = pNext + 1
    /\ UNCHANGED <<doneChan, stopChan, pDone, workVars, mainVars, totalNumTx, histVars>>

\* case <-stopChan: return
ProducerStop ==
    /\ ~pDone /\ pNext < NumTasks
    /\ stopChan > 0
    /\ stopChan' = stopChan - 1
    /\ pDone' = TRUE
    /\ UNCHANGED <<workChan, doneChan, pNext, workVars, mainVars, totalNumTx, histVars>>

\* The range is exhausted: the goroutine returns and leaves its token unread.
ProducerFinish ==
    /\ ~pDone /\ pNext = NumTasks
    /\ pDone' = TRUE
    /\ UNCHANGED <<chanVars, pNext, workVars, mainVars, totalNumTx, histVars>>

-----------------------------------------------------------------------------
(* A worker goroutine: select on workChan and stopChan, whichever is ready. *)

\* case index := <-workChan
WorkerTake(w) ==
    /\ wState[w] = "select"
    /\ workChan # <<>>
    /\ workChan' = Tail(workChan)
    /\ wTask' = [wTask EXCEPT ![w] = Head(workChan)]
    /\ wState' = [wState EXCEPT ![w] = "exec"]
    /\ UNCHANGED <<doneChan, stopChan, prodVars, wOk, mainVars, totalNumTx, histVars>>

\* nt, err := pool.ExecuteBlockTx(...); atomic.AddInt64(&totalNumTx, nt)
WorkerExecute(w) ==
    /\ wState[w] = "exec"
    /\ \E o \in TaskOutcomes[wTask[w]] :
          /\ totalNumTx' = totalNumTx + o.numTx
          /\ wOk' = [wOk EXCEPT ![w] = o.ok]
          /\ verdict' = [verdict EXCEPT ![wTask[w]] = IF o.ok THEN "ok" ELSE "err"]
    /\ wState' = [wState EXCEPT ![w] = "send"]
    /\ UNCHANGED <<chanVars, prodVars, wTask, mainVars, received>>

\* Mutant: a non-blocking send that drops the report when the buffer is full.
WorkerReportOrDrop(w) ==
    /\ wState[w] = "send"
    /\ doneChan' = IF Len(doneChan) < ChanCap
                     THEN Append(doneChan, [index |-> wTask[w], ok |-> wOk[w]])
                     ELSE doneChan
    /\ wState' = [wState EXCEPT ![w] = "select"]
    /\ UNCHANGED <<workChan, stopChan, prodVars, wTask, wOk, mainVars, totalNumTx, histVars>>

\* doneChan <- err, or doneChan <- index; blocks while the buffer is full.
WorkerReport(w) ==
    /\ wState[w] = "send"
    /\ Len(doneChan) < ChanCap
    /\ doneChan' = Append(doneChan, [index |-> wTask[w], ok |-> wOk[w]])
    /\ wState' = [wState EXCEPT ![w] = "select"]
    /\ UNCHANGED <<workChan, stopChan, prodVars, wTask, wOk, mainVars, totalNumTx, histVars>>

\* case <-stopChan: return
WorkerStop(w) ==
    /\ wState[w] = "select"
    /\ stopChan > 0
    /\ stopChan' = stopChan - 1
    /\ wState' = [wState EXCEPT ![w] = "done"]
    /\ UNCHANGED <<workChan, doneChan, prodVars, wTask, wOk, mainVars, totalNumTx, histVars>>

-----------------------------------------------------------------------------
(* The calling goroutine: count in order, then the deferred stop.          *)

\* if _, ok := waitMap[index]; ok { delete(waitMap, index); index++; continue }
MainCount ==
    /\ mState = "loop" /\ mIndex < NumTasks
    /\ mIndex \in waitMap
    /\ waitMap' = waitMap \ {mIndex}
    /\ mIndex' = mIndex + 1
    /\ UNCHANGED <<chanVars, prodVars, workVars, mState, sent, retErr, totalNumTx, histVars>>

\* Mutant: the type switch is missing, an error is counted like an index.
MainReceiveAny ==
    /\ mState = "loop" /\ mIndex < NumTasks
    /\ mIndex \notin waitMap
    /\ doneChan # <<>>
    /\ doneChan' = Tail(doneChan)
    /\ received' = received + 1
    /\ waitMap' = waitMap \cup {Head(doneChan).index}
    /\ UNCHANGED <<workChan, stopChan, prodVars, workVars, mState, mIndex, sent, retErr,
                   totalNumTx, verdict>>

\* data := <-doneChan; an index goes to waitMap, an error is returned.
MainReceive ==
    /\ mState = "loop" /\ mIndex < NumTasks
    /\ mIndex \notin waitMap
    /\ doneChan # <<>>
    /\ doneChan' = Tail(doneChan)
    /\ received' = received + 1
    /\ \/ /\ Head(doneChan).ok
          /\ waitMap' = waitMap \cup {Head(doneChan).index}
          /\ UNCHANGED <<mState, retErr>>
       \/ /\ ~Head(doneChan).ok
          /\ mState' = "stop"
          /\ retErr' = TRUE
          /\ UNCHANGED waitMap
    /\ UNCHANGED <<workChan, stopChan, prodVars, workVars, mIndex, sent, totalNumTx, verdict>>

\* Mutant: the loop ends one index early.
MainFinishEarly ==
    /\ mState = "loop" /\ mIndex >= NumTasks - 1
    /\ mState' = "stop"
    /\ UNCHANGED <<chanVars, prodVars, workVars, mIndex, waitMap, sent, retErr, totalNumTx, histVars>>

\* Mutant: the caller stops when the producer is finished and drains nothing.
MainFinishUndrained ==
    /\ mState = "loop" /\ pDone
    /\ mState' = "stop"
    /\ UNCHANGED <<chanVars, prodVars, workVars, mIndex, waitMap, sent, retErr, totalNumTx, histVars>>

\* index == len(blockTxList): return nil
MainFinish ==
    /\ mState = "loop" /\ mIndex = NumTasks
    /\ mState' = "stop"
    /\ UNCHANGED <<chanVars, prodVars, workVars, mIndex, waitMap, sent, retErr, totalNumTx, histVars>>

\* Mutant: the token of the producer is forgotten.
MainSendStopWorkers ==
    /\ mState = "stop"
    /\ stopChan < NumWorkers
    /\ stopChan' = stopChan + 1
    /\ sent' = sent + 1
    /\ mState' = IF sent' = NumWorkers THEN "wait" ELSE "stop"
    /\ UNCHANGED <<workChan, doneChan, prodVars, workVars, mIndex, waitMap, retErr, totalNumTx, histVars>>

\* stopChan <- struct{}{}: Workers times, and once more for the producer.
MainSendStop ==
    /\ mState = "stop"
    /\ stopChan < NumWorkers
    /\ stopChan' = stopChan + 1
    /\ sent' = sent + 1
    /\ mState' = IF sent' = NumWorkers + 1 THEN "wait" ELSE "stop"
    /\ UNCHANGED <<workChan, doneChan, prodVars, workVars, mIndex, waitMap, retErr, totalNumTx, histVars>>

\* Mutant: the producer is not in the wait group.
MainReturnNoProducer ==
    /\ mState = "wait"
    /\ \A w \in Workers : wState[w] = "done"
    /\ mState' = "returned"
    /\ UNCHANGED <<chanVars, prodVars, workVars, mIndex, waitMap, sent, retErr, totalNumTx, histVars>>

\* wg.Wait(); close(workChan); close(doneChan); the statistics; return
MainReturn ==
    /\ mState = "wait"
    /\ pDone /\ \A w \in Workers : wState[w] = "done"
    /\ mState' = "returned"
    /\ UNCHANGED <<chanVars, prodVars, workVars, mIndex, waitMap, sent, retErr, totalNumTx, histVars>>

Returned == mState = "returned" /\ UNCHANGED vars

ProducerNext  == Produce \/ ProducerStop \/ ProducerFinish
WorkerNext(w) == WorkerTake(w) \/ WorkerExecute(w) \/ WorkerReport(w) \/ WorkerStop(w)
MainNext      == MainCount \/ MainReceive \/ MainFinish \/ MainSendStop \/ MainReturn

Next == ProducerNext \/ (\E w \in Workers : WorkerNext(w)) \/ MainNext \/ Returned

Spec == Init /\ [][Next]_vars

\* The Go scheduler runs every goroutine that can run.
FairSpec ==
    /\ Spec
    /\ WF_vars(ProducerNext)
    /\ WF_vars(MainNext)
    /\ \A w \in Workers : WF_vars(WorkerNext(w))
-----------------------------------------------------------------------------
(* Where a task is: waiting in workChan, in the hands of a worker, reported *)
(* in doneChan, or received by the caller.                                  *)

Taken       == pNext - Len(workChan)
Busy        == {w \in Workers : wState[w] \in {"exec", "send"}}
Live        == {w \in Workers : wState[w] # "done"}
InHand      == {wTask[w] : w \in Busy}
Reported    == {doneChan[k].index : k \in 1..Len(doneChan)}
Acknowledged == (0..(mIndex - 1)) \cup waitMap

(***************************************************************************)
(* No task is lost and none is handed out twice, whatever the interleaving *)
(* of the goroutines: a task that left workChan is in exactly one place,   *)
(* and only a task whose error the caller has read is in none.             *)
(***************************************************************************)
TasksConserved ==
    /\ \A v, w \in Busy : v # w => wTask[v] # wTask[w]
    /\ \A j, k \in 1..Len(doneChan) : j # k => doneChan[j].index # doneChan[k].index
    /\ InHand \cap Reported = {}
    /\ InHand \cap Acknowledged = {}
    /\ Reported \cap Acknowledged = {}
    /\ \A i \in 0..(Taken - 1) :
          i \in InHand \cup Reported \cup Acknowledged \/ (retErr /\ verdict[i] = "err")

(***************************************************************************)
(* The caller only ever counts, or keeps for counting, tasks that returned *)
(* no error, and it never keeps an index it has already counted.           *)
(***************************************************************************)
CountedSucceeded ==
    /\ \A i \in Acknowledged : verdict[i] = "ok"
    /\ waitMap \cap (0..(mIndex - 1)) = {}

(***************************************************************************)
(* Once the caller has left its loop nobody drains doneChan.  A worker can *)
(* nevertheless always deliver its report when the caller succeeded, and   *)
(* after an error as long as there are at most Workers*10 + 1 tasks.       *)
(***************************************************************************)
SendersNeverStuck ==
    (mState # "loop" /\ (retErr => NumTasks <= ChanCap + 1)) =>
        \A w \in Workers : wState[w] = "send" => Len(doneChan) < ChanCap

(***************************************************************************)
(* While the caller waits for the goroutines, every one that still runs    *)
(* has a stop token left in stopChan, although workers and producer take   *)
(* tokens in any order and a producer that ran to its end takes none.      *)
(***************************************************************************)
StopTokensSuffice ==
    mState = "wait" =>
        Cardinality(Live) + (IF pDone THEN 0 ELSE 1) <= stopChan

(***************************************************************************)
(* Nothing moves after the call has returned: no goroutine is left that    *)
(* could send on a closed channel, run a task or change the statistics.    *)
(***************************************************************************)
QuietAfterReturn == [][mState # "returned"]_vars

\* Every call returns (checked up to the bound of SendersNeverStuck).
Termination == <>(mState = "returned")

\* With any number of tasks the call returns, unless one of them fails.
SoundTermination == <>(mState = "returned" \/ \E i \in Tasks : verdict[i] = "err")

\* "If substate-cli replay finds an execution result that is not equivalent to
\* the recorded result, it returns an error immediately": a failed task is
\* followed by the return of the call.
ErrorReturned == (\E i \in Tasks : verdict[i] = "err") ~> (mState = "returned")

(***************************************************************************)
(* What the call promises, see TaskBatch.                                  *)
(***************************************************************************)
Batch == INSTANCE TaskBatch WITH
    total  <- totalNumTx,
    result <- CASE mState # "returned" -> "pending"
                [] mState = "returned" /\ ~retErr -> "ok"
                [] mState = "returned" /\ retErr -> "err"

\* The pool implements the batch: an unordered execution of each task at most
\* once, nil returned only when all succeeded, an error only when one failed.
ImplementsBatch == Batch!Spec
=============================================================================
