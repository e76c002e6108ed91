------------------------------ MODULE MCRUSHB ------------------------------
EXTENDS RUSHB, TLC

CONSTANTS f, g, p1, p2, t1, t2, t3

MCNames == {f, g}
MCFiles == f :> 2       \* g is not hosted
MCAddrOf == [p \in Ports |-> "a"]
MCWants == [p \in Ports |-> f]
AllOn == [p \in Ports |-> TRUE]
NoFaults == [x \in Fault |-> 0]
OneLoss == [NoFaults EXCEPT !["lose"] = 1]
Once(fs) == [x \in Fault |-> IF x \in fs THEN 1 ELSE 0]
\* Faults that the client answers with a NAK.
NakFault == [NoFaults EXCEPT !["damage"] = 2, !["nak"] = 2]
Mixes == {Once({"lose", "dup", "tick"}), Once({"lose", "damage", "tick"}),
          Once({"lose", "dup", "damage"}), NakFault}
AnyFault == [NakFault EXCEPT !["lose"] = 1, !["dup"] = 1, !["tick"] = 1]
JustOneLoss == {OneLoss}
\* The second chunk of f has a '%' in it.
MCText == {<<f, 1>>}
=============================================================================
