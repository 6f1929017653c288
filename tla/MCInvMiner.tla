----------------------------- MODULE MCInvMiner -----------------------------
(* Calls of transfer(to, amount) of a token with a fee and an owner.       *)
EXTENDS InvMiner

\* Bases in the order of the names.
Change == 1     \* change.post(variable.balances[..])
Amount == 2     \* method.amount
To     == 3     \* method.to
Sender == 4     \* msg.sender
Owner  == 5     \* pre(variable.owner)

TokenComparability == [b \in 1..5 |-> IF b \in {Change, Owner} THEN "status" ELSE "user"]

Int_(n) == [type |-> "int", val |-> n]
Addr(a) == [type |-> "str", val |-> a]

Transfer(from, to, amount, fee) ==
    [x \in {<<Amount, 0>>, <<To, 0>>, <<Sender, 0>>, <<Owner, 0>>}
              \cup (IF amount = 0 THEN {} ELSE {<<Change, from>>, <<Change, to>>}) |->
        CASE x[1] = Amount -> Int_(amount)
          [] x[1] = To -> Addr(to)
          [] x[1] = Sender -> Addr(from)
          [] x[1] = Owner -> Addr(1)
          [] x = <<Change, from>> -> Int_(-amount)
          [] x = <<Change, to>> -> Int_(amount - fee)]

\* Among three addresses, of which the first is the owner; one call moves nothing
\* and one pays a fee.
Transfers ==
    {Transfer(c[1], c[2], c[3], c[4]) :
        c \in {<<1, 2, 1, 0>>, <<1, 2, 2, 1>>, <<1, 3, 1, 0>>, <<1, 3, 0, 0>>,
               <<2, 1, 1, 0>>, <<2, 3, 2, 0>>}}

\* Threshold 1 and one half.
OneAndHalf == {<<1, 1>>, <<1, 2>>}
One == {<<1, 1>>}
=============================================================================
