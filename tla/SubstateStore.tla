---------------------------- MODULE SubstateStore ----------------------------
(***************************************************************************)
(* What the substate database promises to the recorder and to the replayer, *)
(* without codes, formats and keys of LevelDB: a map from transactions to   *)
(* substates in which a put or a delete takes effect at one moment, a       *)
(* reader gets the substates of one moment, and a crash leaves the map as   *)
(* it was at some moment since it was last flushed.                         *)
(***************************************************************************)
CONSTANTS Blocks, Txs, Substates, Absent, Writers, Readers

VARIABLES store,     \* the substate of each transaction, or Absent
          survivors, \* the maps that a crash may leave
          pending,   \* per writer: the put in progress, or Absent
          reading    \* per reader: the substates it is about to return, or Absent

svars == <<store, survivors, pending, reading>>

Keys == Blocks \X Txs

Present(ks) == {k \in ks : store[k] # Absent}

Init ==
    /\ store \in [Keys -> Substates \cup {Absent}]
    /\ survivors = {store}
    /\ pending = [w \in Writers |-> Absent]
    /\ reading = [r \in Readers |-> Absent]

\* Puts and deletes: one of these maps is the next.
Becomes(maps) ==
    /\ store' \in maps
    /\ survivors' = survivors \cup {store'}

Call(w) ==
    /\ pending[w] = Absent
    /\ pending' \in {[pending EXCEPT ![w] = c] : c \in [key : Keys, sub : Substates]}
    /\ UNCHANGED <<reading, store, survivors>>

Put(w) ==
    /\ pending[w] # Absent
    /\ pending' = [pending EXCEPT ![w] = Absent]
    /\ UNCHANGED reading
    /\ Becomes({[store EXCEPT ![pending[w].key] = pending[w].sub]})

Delete ==
    /\ UNCHANGED <<pending, reading>>
    /\ Becomes({[store EXCEPT ![k] = Absent] : k \in Keys})

Read(r) ==
    /\ reading[r] = Absent
    /\ UNCHANGED pending
    /\ reading' \in {[reading EXCEPT ![r] = [k \in Present(ks) |-> store[k]]] :
                        ks \in {{k} : k \in Keys} \cup {{b} \X Txs : b \in Blocks}}
    /\ UNCHANGED <<store, survivors>>

Return(r) ==
    /\ reading[r] # Absent
    /\ UNCHANGED pending
    /\ reading' = [reading EXCEPT ![r] = Absent]
    /\ UNCHANGED <<store, survivors>>

Flush ==
    /\ UNCHANGED <<pending, reading, store>>
    /\ survivors' = {store}

Crash ==
    /\ pending' = [w \in Writers |-> Absent]
    /\ reading' = [r \in Readers |-> Absent]
    /\ store' \in survivors
    /\ survivors' = {store'}

Next ==
    \/ \E w \in Writers : Call(w) \/ Put(w)
    \/ Delete
    \/ \E r \in Readers : Read(r) \/ Return(r)
    \/ Flush
    \/ Crash

Spec == Init /\ [][Next]_svars
=============================================================================
