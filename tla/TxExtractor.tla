----------------------------- MODULE TxExtractor -----------------------------
(***************************************************************************)
(* From the call tree of a replayed transaction to the calls of the target   *)
(* contract that are mined (TxExtractor in extractTxs.py, used with          *)
(* excludePartialErr, as every caller does).                                 *)
(*                                                                         *)
(* A transaction is [parent, call]: call[1] is the outermost call, parent    *)
(* gives for the others the call they were made in, and calls of one parent  *)
(* are in the order of their numbers.  Of a call there are its type, whether *)
(* it goes to the target, its input, its error and the logs it wrote itself: *)
(* nothing, an event of the target, or a log without topics.  The event of a *)
(* call is known by the number of the call.  Decoding of arguments is data.  *)
(***************************************************************************)
EXTENDS Naturals, Sequences, SequencesExt

CallFrame == [type : {"CALL", "CREATE", "DELEGATECALL", "STATICCALL"}, target : BOOLEAN,
              input : {"none", "function", "view", "unknown"}, err : BOOLEAN,
              logs : {"none", "event", "anonymous"}]

\* The elements of S in an order that is given as a set of pairs.
InOrder(S, R) ==
    [i \in 1..Cardinality(S) |-> CHOOSE x \in S : Cardinality({y \in S : <<y, x>> \in R}) = i - 1]

Upwards(S) == InOrder(S, {p \in S \X S : p[1] < p[2]})

Children(tx, n) == {m \in DOMAIN tx.call : tx.parent[m] = n}

\* A method that the ABI does not know is taken for one that changes the state.
isTargetFunction(call) ==
    /\ call.target
    /\ call.type \in {"CALL", "CREATE"}
    /\ call.input \in {"function", "unknown"}

\* The tracer recorded states of calls to the target, and of a creation only
\* when it is the transaction itself.
isState(tx, n) == tx.call[n].target /\ (tx.call[n].type = "CALL" \/ n = 1)

\* Mutant: the events that were given to a call are passed on to its caller too.
handedUpAlways(recorded, events) == events

\* The events that are left for the caller of a call.
handedUp(recorded, events) == IF recorded THEN <<>> ELSE events

\* A call that failed is not looked into.  Events go, after those of the calls
\* inside, to the innermost call that is recorded; a call is recorded unless a
\* call made directly in it failed.
visitCall(tx, visit, n) ==
    LET kids     == Upwards(Children(tx, n))
        callList == FlattenSeq([i \in DOMAIN kids |-> visit[kids[i]].calls])
        events   == FlattenSeq([i \in DOMAIN kids |-> visit[kids[i]].events])
                    \o (IF tx.call[n].logs = "event" THEN <<n>> ELSE <<>>)
        includeErr == \E i \in DOMAIN kids : visit[kids[i]].isErr
        recorded == isTargetFunction(tx.call[n]) /\ isState(tx, n) /\ ~includeErr
    IN  IF tx.call[n].err
        THEN [calls |-> <<>>, events |-> <<>>, isErr |-> TRUE]
        ELSE [calls |-> IF recorded THEN Append(callList, [call |-> n, logs |-> events])
                        ELSE callList,
              events |-> handedUp(recorded, events), isErr |-> FALSE]

extractcall(tx) ==
    LET visit[n \in DOMAIN tx.call] == visitCall(tx, visit, n) IN visit[1].calls

\* Calls are numbered as they begin.
IsTree(tx) ==
    /\ tx.call \in Seq(CallFrame) /\ tx.call # <<>>
    /\ tx.parent \in Seq(Nat) /\ Len(tx.parent) = Len(tx.call)
    /\ tx.parent[1] = 0
    /\ \A n \in 2..Len(tx.call) : tx.parent[n] \in 1..(n - 1)

(***************************************************************************)
(* What it amounts to, call by call.                                        *)
(***************************************************************************)
\* The call n and those around it.
Around(tx, n) ==
    LET up[m \in DOMAIN tx.call] == IF m = 1 THEN {1} ELSE {m} \cup up[tx.parent[m]]
    IN  up[n]

Visited(tx) == {n \in DOMAIN tx.call : \A m \in Around(tx, n) : ~tx.call[m].err}

Recorded(tx) ==
    {n \in Visited(tx) : /\ isTargetFunction(tx.call[n]) /\ isState(tx, n)
                         /\ \A m \in Children(tx, n) : ~tx.call[m].err}

\* The events written in n and not inside a recorded call that is further in.
EventsOf(tx, n) ==
    {m \in Visited(tx) : /\ tx.call[m].logs = "event" /\ n \in Around(tx, m)
                         /\ \A r \in Recorded(tx) : r \in Around(tx, m) => r \in Around(tx, n)}

\* extractEvent asks for the first topic before it looks at anything else.
Unreadable(tx) == \E n \in Visited(tx) : tx.call[n].logs = "anonymous"
=============================================================================
