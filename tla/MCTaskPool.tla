----------------------------- MODULE MCTaskPool -----------------------------
(* An instance of TaskPool with more tasks than doneChan has room for.     *)
EXTENDS TaskPool

\* Tasks are replayed transactions, of which the first may fail.
FirstFails ==
    [i \in Tasks |-> {[numTx |-> 1, ok |-> ok] : ok \in IF i = 0 THEN BOOLEAN ELSE {TRUE}}]

=============================================================================
