----------------------------- MODULE WorldState -----------------------------
(***************************************************************************)
(* What the EVM may expect of the StateDB: accounts, refund, logs, transient *)
(* storage and access list as plain values.  A snapshot is a copy of all of  *)
(* them and a revert puts the copy back; the end of a transaction removes    *)
(* the accounts that were destroyed or touched and empty, and commits the    *)
(* storage of the others.                                                    *)
(***************************************************************************)
EXTENDS Naturals, Sequences

CONSTANTS Addrs, Slots, Ripemd, Zero, Nil

VARIABLES world,  \* acct, touched, refund, logs, transient, warmAddrs, warmSlots
          saved   \* the copies, in the order of the snapshots

wvars == <<world, saved>>

NoStorage == [k \in Slots |-> Zero]

Nobody == [exists |-> FALSE, balance |-> 0, nonce |-> 0, code |-> 0, storage |-> NoStorage,
           committed |-> NoStorage, destroyed |-> FALSE, created |-> FALSE]

Newborn == [Nobody EXCEPT !.exists = TRUE, !.created = TRUE]

Empty(acct) == acct.balance = 0 /\ acct.nonce = 0 /\ acct.code = 0

Touch(w, a) == [w EXCEPT !.touched = @ \cup {a}]

\* A setter brings the account into being.
Ensure(w, a) == IF w.acct[a].exists THEN w ELSE Touch([w EXCEPT !.acct[a] = Newborn], a)

Settled(acct) ==
    IF acct = Nil THEN Nobody
    ELSE [Nobody EXCEPT !.exists = TRUE, !.balance = acct.balance, !.nonce = acct.nonce,
                        !.code = acct.code, !.storage = acct.storage, !.committed = acct.storage]

Begin(alloc) ==
    /\ world = [acct |-> [a \in Addrs |-> Settled(alloc[a])], touched |-> {}, refund |-> 0,
                logs |-> 0, transient |-> [a \in Addrs |-> NoStorage],
                warmAddrs |-> {}, warmSlots |-> {}]
    /\ saved = <<>>

Set(w) == world' = w /\ UNCHANGED saved

\* A transfer of nothing touches an account that is empty, and Ripemd for good: the
\* consensus of the chain has this exception.
AddBalance(a, n) ==
    LET w == Ensure(world, a)
    IN  IF n > 0 THEN Set(Touch([w EXCEPT !.acct[a].balance = @ + n], a))
        ELSE IF ~Empty(w.acct[a]) THEN Set(w)
        ELSE /\ world' = Touch(w, a)
             /\ saved' = IF a = Ripemd THEN [i \in DOMAIN saved |-> Touch(saved[i], a)] ELSE saved

SubBalance(a, n) ==
    LET w == Ensure(world, a)
    IN  Set(IF n > 0 THEN Touch([w EXCEPT !.acct[a].balance = @ - n], a) ELSE w)

SetNonce(a) == Set(Touch([Ensure(world, a) EXCEPT !.acct[a].nonce = @ + 1], a))

SetCode(a, c) == Set(Touch([Ensure(world, a) EXCEPT !.acct[a].code = c], a))

SetState(a, k, v) ==
    LET w == Ensure(world, a)
    IN  Set(IF w.acct[a].storage[k] = v THEN w
            ELSE Touch([w EXCEPT !.acct[a].storage[k] = v], a))

CreateAccount(a) ==
    Set(Touch([world EXCEPT !.acct[a] = [Newborn EXCEPT !.balance = world.acct[a].balance]], a))

Destroyed(a) == Touch([world EXCEPT !.acct[a].balance = 0, !.acct[a].destroyed = TRUE], a)

SelfDestruct(a) == Set(IF world.acct[a].exists THEN Destroyed(a) ELSE world)

Selfdestruct6780(a) == Set(IF world.acct[a].created THEN Destroyed(a) ELSE world)

AddRefund == Set([world EXCEPT !.refund = @ + 1])

SubRefund == world.refund > 0 /\ Set([world EXCEPT !.refund = @ - 1])

AddLog == Set([world EXCEPT !.logs = @ + 1])

SetTransientState(a, k, v) == Set([world EXCEPT !.transient[a][k] = v])

Warm(addrs, slots) ==
    Set([world EXCEPT !.warmAddrs = @ \cup addrs, !.warmSlots = @ \cup slots])

Prepare(addrs, slots) ==
    Set([world EXCEPT !.warmAddrs = addrs, !.warmSlots = slots,
                      !.transient = [a \in Addrs |-> NoStorage]])

Snapshot ==
    /\ saved' = Append(saved, world)
    /\ UNCHANGED world

Revert(i) ==
    /\ world' = saved[i]
    /\ saved' = SubSeq(saved, 1, i - 1)

Survivor(acct) == [acct EXCEPT !.committed = acct.storage, !.created = FALSE]

\* left: Ripemd may stay touched.
Finalise(deleteEmpty, left) ==
    /\ left \subseteq world.touched \cap {Ripemd}
    /\ world' = [world EXCEPT
           !.acct = [a \in Addrs |->
               IF \/ world.acct[a].destroyed
                  \/ deleteEmpty /\ a \in world.touched /\ Empty(world.acct[a])
               THEN Nobody ELSE Survivor(world.acct[a])],
           !.touched = left, !.refund = 0]
    /\ saved' = <<>>
=============================================================================
