------------------------------ MODULE MCDappRun ------------------------------
(***************************************************************************)
(* Blocks 9 and 10 differ in the number of digits, as do 9,999,999 and       *)
(* 10,000,000; so do positions 9 and 10.  The transaction at <<10, 9>> is any *)
(* tree of up to three calls of the kinds below; the others are fixed, one   *)
(* of them without a call to mine.                                           *)
(***************************************************************************)
EXTENDS DappRun

Frame(type, target, input, err, logs) ==
    [type |-> type, target |-> target, input |-> input, err |-> err, logs |-> logs]

Method   == Frame("CALL", TRUE, "function", FALSE, "event")
Failed   == Frame("CALL", TRUE, "function", TRUE, "event")
Fallback == Frame("CALL", TRUE, "unknown", FALSE, "none")
View     == Frame("STATICCALL", TRUE, "view", FALSE, "none")
Transfer == Frame("CALL", TRUE, "none", FALSE, "event")
Creation == Frame("CREATE", TRUE, "unknown", FALSE, "event")
Logic    == Frame("DELEGATECALL", FALSE, "function", FALSE, "event")
Other    == Frame("CALL", FALSE, "function", FALSE, "none")
Broken   == Frame("CALL", FALSE, "function", TRUE, "none")
Bare     == Frame("CALL", FALSE, "function", FALSE, "anonymous")

Inner == {Method, Failed, Transfer, Logic, Other, Broken}
Kinds == Inner \cup {Fallback, Creation}

Tree(parent, call) == [parent |-> parent, call |-> call]

Trees ==
    {Tree(<<0>>, <<a>>) : a \in Kinds \cup {View, Bare}}
    \cup {Tree(<<0, 1>>, <<a, b>>) : a \in Kinds, b \in Kinds \cup {View, Bare}}
    \cup {Tree(<<0, 1, p>>, <<a, b, c>>) :
              p \in {1, 2}, a \in Inner, b \in Inner, c \in Inner}

Single == Tree(<<0>>, <<Method>>)
Double == Tree(<<0, 1>>, <<Method, Method>>)
Nothing == Tree(<<0>>, <<Other>>)

MCTxFiles == {<<9, 10>>, <<10, 9>>, <<10, 10>>, <<8, 1>>, <<11, 1>>, <<12, 1>>}

MCContents ==
    {[tx \in MCTxFiles |-> CASE tx = <<10, 9>> -> t
                            [] tx = <<10, 10>> -> Double
                            [] tx = <<11, 1>> -> Nothing
                            [] OTHER -> Single] : t \in Trees}

MCTrainNums == <<1, 3>>
=============================================================================
