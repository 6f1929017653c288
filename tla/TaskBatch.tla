------------------------------ MODULE TaskBatch ------------------------------
(***************************************************************************)
(* What a call of Execute, ExecuteWithTx or ExecuteTest promises, without  *)
(* goroutines and channels: tasks run in any order, each at most once; the *)
(* call returns nil only after every task succeeded and an error only      *)
(* after some task failed; nothing runs once it has returned.              *)
(***************************************************************************)
EXTENDS Integers

CONSTANTS NumTasks, TaskOutcomes

VARIABLES
    verdict,   \* what became of each task: "none" until it runs
    total,     \* transactions executed so far
    result     \* "pending", then what the call returned

vars == <<verdict, total, result>>

Tasks == 0..(NumTasks - 1)

Init ==
    /\ verdict = [i \in Tasks |-> "none"]
    /\ total = 0
    /\ result = "pending"

Run(i) ==
    /\ result = "pending"
    /\ verdict[i] = "none"
    /\ \E o \in TaskOutcomes[i] :
          /\ verdict' = [verdict EXCEPT ![i] = IF o.ok THEN "ok" ELSE "err"]
          /\ total' = total + o.numTx
    /\ UNCHANGED result

ReturnNil ==
    /\ result = "pending"
    /\ \A i \in Tasks : verdict[i] = "ok"
    /\ result' = "ok"
    /\ UNCHANGED <<verdict, total>>

ReturnError ==
    /\ result = "pending"
    /\ \E i \in Tasks : verdict[i] = "err"
    /\ result' = "err"
    /\ UNCHANGED <<verdict, total>>

Next == (\E i \in Tasks : Run(i)) \/ ReturnNil \/ ReturnError

Spec == Init /\ [][Next]_vars
=============================================================================
